---------------------------- MODULE QdrantBackup ----------------------------
(***************************************************************************)
(* The QdrantBackup controller (qdrantbackup_controller.go, backup.go): a  *)
(* generation is one snapshot per collection and peer, made one at a time; *)
(* its end is recorded and old snapshots are pruned.                       *)
(*                                                                         *)
(* A pass settles, issues or closes, and commits the status at its end, so *)
(* it is one step whose commit may fail after the calls were made.  Time   *)
(* is abstract: cronDue says that the schedule has come round since the    *)
(* last success, expired that snapshotAppearDeadline has passed.  Names of *)
(* snapshots are numbers in the order of creation.                         *)
(***************************************************************************)
EXTENDS Integers, FiniteSets, FiniteSetsExt

CONSTANTS
    Listings,       \* sets of collections that a listing may return
    Replicas,       \* spec.replicas of the cluster
    Keeps,          \* values of retention.keepLast (0: nothing is pruned)
    Schedules,      \* subset of {"none", "cron", "invalid"}
    Faults,         \* the classes of failure that may happen
    MaxFaults,      \* bound on the number of failures
    MaxEdits,       \* bound on the number of edits of the spec
    MaxSnapshots,   \* bound on the number of snapshots ever made
    MaxGenerations  \* bound on the number of successes

VARIABLES
    spec,      \* schedule, suspend, keepLast
    status,    \* phase, active, pending, snapshots, successes, Degraded
    cronDue,   \* the next run after the last success is not in the future
    expired,   \* the deadline of the active snapshot has passed
    running,   \* snapshots the server is making
    snaps,     \* snaps[j]: snapshots on the disk of job j's peer
    planned,   \* history: the jobs of the current generation
    recorded,  \* history: the current generation has been closed
    budget

server == <<running, snaps>>
history == <<planned, recorded>>
vars == <<spec, status, cronDue, expired, server, history, budget>>

FaultClass == {"clusterMissing", "callFails", "responseLost", "pruneFails",
               "updateFails", "snapshotLost", "slow", "foreign"}

ASSUME BackupAssumption ==
    /\ \A c \in Listings : c \subseteq Nat /\ IsFiniteSet(c)
    /\ Replicas \in Nat \ {0} /\ Keeps \subseteq Nat
    /\ Schedules \subseteq {"none", "cron", "invalid"}
    /\ MaxFaults \in Nat /\ MaxEdits \in Nat /\ MaxSnapshots \in Nat
    /\ MaxGenerations \in Nat \ {0}
    /\ Faults \subseteq FaultClass

Job == (UNION Listings) \X (0..(Replicas - 1))

\* Mutant: one peer too many.
PlanGenerationInclusive(collections) == collections \X (0..Replicas)

\* planGeneration: the pairs in the order (collection, peer).
PlanGeneration(collections) == collections \X (0..(Replicas - 1))

First(jobs) ==
    CHOOSE j \in jobs : \A k \in jobs : j[1] < k[1] \/ (j[1] = k[1] /\ j[2] <= k[2])

Snapshot == 1..MaxSnapshots
SnapshotRef == [job : Job, name : Snapshot]
Active == [job : Job, known : SUBSET Snapshot]
NoActive == [job |-> <<>>]

Status == [phase : {"", "Creating", "Ready", "Idle", "Degraded"},
           active : Active \cup {NoActive}, pending : SUBSET Job,
           snapshots : SUBSET SnapshotRef, successes : 0..MaxGenerations,
           degraded : BOOLEAN]
Budget == [faults : 0..MaxFaults, edits : 0..MaxEdits, made : 0..MaxSnapshots]

TypeOK ==
    /\ spec \in [schedule : Schedules, suspend : BOOLEAN, keep : Keeps]
    /\ status \in Status
    /\ cronDue \in BOOLEAN /\ expired \in BOOLEAN
    /\ running \subseteq SnapshotRef /\ snaps \in [Job -> SUBSET Snapshot]
    /\ planned \subseteq Job /\ recorded \in BOOLEAN
    /\ budget \in Budget

Init ==
    /\ spec \in [schedule : Schedules, suspend : BOOLEAN, keep : Keeps]
    /\ status = [phase |-> "", active |-> NoActive, pending |-> {}, snapshots |-> {},
                 successes |-> 0, degraded |-> FALSE]
    /\ cronDue = FALSE /\ expired = FALSE
    /\ running = {} /\ snaps = [j \in Job |-> {}]
    /\ planned = {} /\ recorded = FALSE
    /\ budget = [faults |-> 0, edits |-> 0, made |-> 0]

(***************************************************************************)
(* Failures and the commit that ends a pass.                               *)
(***************************************************************************)
Spend(n) ==
    /\ budget.faults + n <= MaxFaults
    /\ budget' = [budget EXCEPT !.faults = @ + n]

\* commit: the status is written if it changed; the update may fail.
Committed(written) ==
    /\ status' = written
    /\ expired' = (expired /\ written.active = status.active)

Commit(written, spent) ==
    \/ Committed(written) /\ Spend(spent) /\ UNCHANGED <<cronDue, history>>
    \/ /\ "updateFails" \in Faults
       /\ Spend(spent + 1) /\ UNCHANGED <<status, expired, cronDue, history>>

Degrade(st) == [st EXCEPT !.phase = "Degraded", !.degraded = TRUE]

(***************************************************************************)
(* advance: settle, issue, or idle.                                        *)
(***************************************************************************)
\* The cluster is not found, or the schedule cannot be parsed.
Refuse ==
    /\ \/ "clusterMissing" \in Faults /\ Commit(Degrade(status), 1)
       \/ spec.schedule = "invalid" /\ Commit(Degrade(status), 0)
    /\ UNCHANGED <<spec, server>>

Advancing == spec.schedule # "invalid"

\* newSnapshotName: the least name that was not listed before the issue.
NewNames == snaps[status.active.job] \ status.active.known

\* Mutants: the deadline is not waited for; it never comes; the phase is kept.
OverAtOnce == TRUE
NeverOver == FALSE
GiveUpSilently == [status EXCEPT !.active = NoActive, !.pending = {}]

WaitOver == expired
GiveUp == [Degrade(status) EXCEPT !.active = NoActive, !.pending = {}]

\* A listing that fails decides nothing: the pass changes nothing.
Settle ==
    /\ Advancing /\ status.active # NoActive
    /\ \/ /\ NewNames # {}
          /\ Commit([status EXCEPT
                !.snapshots = @ \cup {[job |-> status.active.job, name |-> Min(NewNames)]},
                !.active = NoActive], 0)
       \/ /\ NewNames = {} /\ ~ WaitOver
          /\ Commit([status EXCEPT !.phase = "Creating"], 0)
       \/ /\ NewNames = {} /\ WaitOver
          /\ Commit(GiveUp, 0)
    /\ UNCHANGED <<spec, server>>

CreateSnapshot(job) ==
    running' = running \cup {[job |-> job, name |-> budget.made + 1]}

\* The status after a pass that asked for a snapshot, at a cost in failures.
Requested(written, spent) ==
    /\ budget.made < MaxSnapshots
    /\ \/ Committed(written) /\ budget.faults + spent <= MaxFaults
          /\ budget' = [budget EXCEPT !.made = @ + 1, !.faults = @ + spent]
       \/ "updateFails" \in Faults /\ budget.faults + spent < MaxFaults
          /\ budget' = [budget EXCEPT !.made = @ + 1, !.faults = @ + spent + 1]
          /\ UNCHANGED <<status, expired>>
    /\ UNCHANGED <<cronDue, history>>

\* The snapshots there are known before the call; an error drops the generation.
Issue ==
    /\ Advancing /\ status.active = NoActive /\ status.pending # {}
    /\ LET job == First(status.pending)
           failed == [Degrade(status) EXCEPT !.pending = {}]
       IN  \/ /\ "callFails" \in Faults
              /\ Commit(failed, 1) /\ UNCHANGED running
           \/ /\ "responseLost" \in Faults
              /\ CreateSnapshot(job) /\ Requested(failed, 1)
           \/ /\ CreateSnapshot(job)
              /\ Requested([status EXCEPT !.active = [job |-> job, known |-> snaps[job]],
                                         !.pending = @ \ {job}, !.phase = "Creating"], 0)
    /\ UNCHANGED <<spec, snaps>>

\* Mutant: off by one, the last job of the queue is left out.
JustFinishedOneLeft ==
    /\ status.snapshots # {} /\ status.phase = "Creating"
    /\ status.active = NoActive /\ Cardinality(status.pending) = 1

JustFinished ==
    /\ status.snapshots # {} /\ status.phase = "Creating"
    /\ status.active = NoActive /\ status.pending = {}

DueNow == spec.schedule = "cron" /\ ~ spec.suspend /\ (status.successes = 0 \/ cronDue)

\* Mutant: a one-shot backup that failed is not tried again.
OneShotOnce ==
    spec.schedule = "none" /\ ~ spec.suspend /\ status.successes = 0 /\ ~ status.degraded

OneShotDue == spec.schedule = "none" /\ ~ spec.suspend /\ status.successes = 0

IdlePass == Advancing /\ status.active = NoActive /\ status.pending = {}

\* Mutant: the oldest are kept.
Oldest(names) ==
    {n \in names : Cardinality({m \in names : m < n}) < spec.keep}

\* prunable: everything but the newest keepLast snapshots of the pair.
Newest(names) ==
    {n \in names : Cardinality({m \in names : m > n}) < spec.keep}

\* prune: the pairs of this generation; a failing call leaves its pair alone.
Prune(skipped) ==
    snaps' = [j \in Job |->
        IF spec.keep >= 1 /\ j \notin skipped /\ (\E s \in status.snapshots : s.job = j)
        THEN Newest(snaps[j]) ELSE snaps[j]]

\* A finished generation is closed: a due run is then in the future.
Close ==
    /\ IdlePass /\ JustFinished
    /\ \E skipped \in SUBSET Job :
          LET cost == IF skipped = {} THEN 0 ELSE 1
          IN  /\ skipped = {} \/ "pruneFails" \in Faults
              /\ Prune(skipped)
              /\ \/ /\ Committed([status EXCEPT !.phase = "Ready", !.degraded = FALSE,
                                                !.successes = @ + 1])
                    /\ Spend(cost)
                    /\ cronDue' = FALSE /\ recorded' = TRUE
                    /\ UNCHANGED planned
                 \/ /\ "updateFails" \in Faults /\ Spend(cost + 1)
                    /\ UNCHANGED <<status, expired, cronDue, history>>
    /\ UNCHANGED <<spec, running>>

\* openGeneration; an empty plan counts as a success and keeps the snapshots.
Open ==
    /\ IdlePass /\ ~ JustFinished /\ (DueNow \/ OneShotDue)
    /\ \/ "callFails" \in Faults /\ Commit(Degrade(status), 1)
       \/ \E collections \in Listings :
            \/ /\ collections # {}
               /\ Committed([status EXCEPT !.snapshots = {}, !.phase = "Creating",
                                           !.pending = PlanGeneration(collections)])
               /\ planned' = PlanGeneration(collections) /\ recorded' = FALSE
               /\ UNCHANGED <<cronDue, budget>>
            \/ /\ collections = {}
               /\ Committed([status EXCEPT !.phase = "Ready", !.successes = @ + 1])
               /\ cronDue' = FALSE /\ UNCHANGED <<history, budget>>
    /\ UNCHANGED <<spec, server>>

Rest ==
    /\ IdlePass /\ ~ JustFinished /\ ~ DueNow /\ ~ OneShotDue
    /\ Commit([status EXCEPT !.phase = IF status.successes = 0 THEN "Idle" ELSE "Ready"], 0)
    /\ UNCHANGED <<spec, server>>

Reconcile == Refuse \/ Settle \/ Issue \/ Close \/ Open \/ Rest

(***************************************************************************)
(* The server, other users of it, time, and edits of the resource.         *)
(***************************************************************************)
FinishSnapshot(s) ==
    /\ s \in running
    /\ running' = running \ {s}
    /\ snaps' = [snaps EXCEPT ![s.job] = @ \cup {s.name}]
    /\ UNCHANGED <<spec, status, cronDue, expired, history, budget>>

LoseSnapshot(s) ==
    /\ s \in running /\ "snapshotLost" \in Faults /\ Spend(1)
    /\ running' = running \ {s}
    /\ UNCHANGED <<spec, status, cronDue, expired, snaps, history>>

ForeignSnapshot(j) ==
    /\ "foreign" \in Faults /\ budget.made < MaxSnapshots /\ budget.faults < MaxFaults
    /\ budget' = [budget EXCEPT !.faults = @ + 1, !.made = @ + 1]
    /\ snaps' = [snaps EXCEPT ![j] = @ \cup {budget.made + 1}]
    /\ UNCHANGED <<spec, status, cronDue, expired, running, history>>

\* The deadline outlasts the making of a snapshot, unless that is slow.
DeadlinePasses ==
    /\ status.active # NoActive /\ ~ expired
    /\ \/ (\A s \in running : s.job # status.active.job) /\ Spend(0)
       \/ "slow" \in Faults /\ Spend(1)
    /\ expired' = TRUE
    /\ UNCHANGED <<spec, status, cronDue, server, history>>

CronTick ==
    /\ status.successes \in 1..(MaxGenerations - 1) /\ ~ cronDue
    /\ cronDue' = TRUE
    /\ UNCHANGED <<spec, status, expired, server, history, budget>>

Edit(schedule, suspend) ==
    /\ <<schedule, suspend>> # <<spec.schedule, spec.suspend>>
    /\ budget.edits < MaxEdits
    /\ budget' = [budget EXCEPT !.edits = @ + 1]
    /\ spec' = [spec EXCEPT !.schedule = schedule, !.suspend = suspend]
    /\ UNCHANGED <<status, cronDue, expired, server, history>>

Next ==
    \/ Reconcile
    \/ \E s \in running : FinishSnapshot(s) \/ LoseSnapshot(s)
    \/ \E j \in Job : ForeignSnapshot(j)
    \/ DeadlinePasses \/ CronTick
    \/ \E schedule \in Schedules, suspend \in BOOLEAN : Edit(schedule, suspend)

Spec == Init /\ [][Next]_vars

(***************************************************************************)
(* Fairness: passes are requeued, the server finishes what it is making,   *)
(* and the deadline comes.                                                 *)
(***************************************************************************)
FairSpec ==
    /\ Spec
    /\ WF_vars(Reconcile)
    /\ WF_vars(\E s \in running : FinishSnapshot(s))
    /\ WF_vars(DeadlinePasses)

(***************************************************************************)
(* Properties                                                              *)
(***************************************************************************)

\* qdrantbackup_controller.go:132: a half-made generation is never recorded as
\* a success.  Whatever failed, a generation that is closed has a snapshot of
\* every pair of its plan.
HonestSuccess ==
    [][status'.successes > status.successes /\ recorded' /\ ~ recorded =>
        {s.job : s \in status'.snapshots} = planned]_vars

\* backup.go:25-26: at most one snapshot is being made at a time.
OneAtATime == Cardinality(running) <= 1

\* qdrantbackup_types.go: the snapshots in the status exist.  Retention, which
\* keeps the newest ones, does not delete what the generation has just made.
RecordedExist == \A s \in status.snapshots : s.name \in snaps[s.job]

\* qdrantbackup_controller.go:175: a generation whose snapshots are all there is
\* closed; it is not thrown away by the next one.
NothingWasted ==
    [][status.snapshots # {} /\ status'.snapshots = {} =>
        recorded \/ {s.job : s \in status.snapshots} # planned]_vars

\* qdrantbackup_types.go:35-36: a generation that was begun comes to its end, even
\* when the backup is suspended.
GenerationEnds ==
    status.active # NoActive \/ status.pending # {} ~>
        (status.active = NoActive /\ status.pending = {}) \/ spec.schedule = "invalid"

\* backup.go:142-145 and qdrantbackup_controller.go:171-211: a backup that is due and
\* not suspended is made in the end, though generations before it failed.
BackupMade ==
    <>(spec.suspend \/ spec.schedule = "invalid" \/ status.successes > 0)
=============================================================================
