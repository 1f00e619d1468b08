------------------------ MODULE QdrantBackup_proofs ------------------------
(***************************************************************************)
(* Proofs about QdrantBackup for every listing of collections, number of   *)
(* peers, retention, schedule and bound: what the status says of the       *)
(* generation under way, and what is true of the snapshots on the disks.   *)
(* The assumptions on Faults, where there are any, are part of each        *)
(* theorem.                                                                *)
(***************************************************************************)
EXTENDS QdrantBackup, NatChoice

(***************************************************************************)
(* The choices the controller makes.                                       *)
(***************************************************************************)

\* The head of the queue of jobs is one of them.
LEMMA FirstMember ==
    ASSUME NEW T \in SUBSET (Nat \X Nat), T # {}
    PROVE  First(T) \in T
<1> DEFINE A == {j[1] : j \in T}
<1>1. A \in SUBSET Nat /\ A # {}
  OBVIOUS
<1>2. PICK a \in A : \A y \in A : a <= y
  <2> HIDE DEF A
  <2> QED
    BY <1>1, LeastNat
<1> DEFINE B == {b \in Nat : <<a, b>> \in T}
<1>3. B \in SUBSET Nat /\ B # {}
  <2>1. PICK j \in T : j[1] = a
    BY <1>2
  <2>2. j = <<a, j[2]>> /\ j[2] \in Nat
    BY <2>1
  <2> QED
    BY <2>1, <2>2
<1>4. PICK b \in B : \A y \in B : b <= y
  <2> HIDE DEF B
  <2> QED
    BY <1>3, LeastNat
<1>5. ASSUME NEW k \in T
      PROVE  a < k[1] \/ (a = k[1] /\ b <= k[2])
  <2>1. k = <<k[1], k[2]>> /\ k[1] \in Nat /\ k[2] \in Nat
    OBVIOUS
  <2>2. a \in Nat /\ a <= k[1]
    BY <1>1, <1>2
  <2>3. a = k[1] => k[2] \in B
    BY <2>1
  <2> QED
    BY <2>1, <2>2, <2>3, <1>4
<1>6. \E j \in T : \A k \in T : j[1] < k[1] \/ (j[1] = k[1] /\ j[2] <= k[2])
  <2>1. <<a, b>> \in T
    BY <1>4
  <2> QED
    BY <2>1, <1>5
<1> QED
  BY <1>6 DEF First

\* The jobs of a generation are pairs of numbers.
LEMMA JobPairs == Job \subseteq Nat \X Nat
BY BackupAssumption DEF Job

\* So the head of the queue is a job.
LEMMA FirstPending ==
    ASSUME NEW T \in SUBSET Job, T # {}
    PROVE  First(T) \in T
BY JobPairs, FirstMember

(***************************************************************************)
(* The invariant of the status.                                            *)
(***************************************************************************)
Jobs(refs) == {s.job : s \in refs}
ActiveJobs(st) == IF st.active = NoActive THEN {} ELSE {st.active.job}

\* A generation is under way.
InProgress(st) == st.active # NoActive \/ st.pending # {} \/ st.phase = "Creating"

\* A generation is begun only when one is due; until its end it accounts for every
\* job of its plan, as made, being made or pending, and for none of them twice.
GoodStatus(st, due, plan) ==
    /\ st \in Status
    /\ InProgress(st) => st.successes = 0 \/ due
    /\ InProgress(st) => Jobs(st.snapshots) \cup ActiveJobs(st) \cup st.pending = plan
    /\ st.pending \cap Jobs(st.snapshots) = {}
    /\ ActiveJobs(st) \cap (st.pending \cup Jobs(st.snapshots)) = {}
    /\ \A s, t \in st.snapshots : s.job = t.job => s = t

BackupInv ==
    /\ TypeOK
    /\ cronDue => status.successes \in 1..(MaxGenerations - 1)
    /\ GoodStatus(status, cronDue, planned)

\* Counting a failure keeps the budget within its bound, and makes no snapshot.
LEMMA SpendType ==
    ASSUME budget \in Budget, NEW n \in Nat, Spend(n)
    PROVE  budget' \in Budget /\ budget'.made = budget.made
BY BackupAssumption DEF Budget, Spend

\* commit leaves the status it was given, or the old one.
LEMMA CommitGood ==
    ASSUME BackupInv, NEW w, GoodStatus(w, cronDue, planned), NEW n \in Nat, Commit(w, n)
    PROVE  /\ GoodStatus(status', cronDue, planned)
           /\ status' \in {status, w}
           /\ expired' \in BOOLEAN
           /\ budget' \in Budget /\ budget'.made = budget.made
           /\ UNCHANGED <<cronDue, planned, recorded>>
<1>1. status' \in {status, w} /\ expired' \in BOOLEAN /\ UNCHANGED <<cronDue, planned, recorded>>
  BY DEF Commit, Committed, BackupInv, TypeOK, history
<1>2. budget' \in Budget /\ budget'.made = budget.made
  BY SpendType DEF Commit, BackupInv, TypeOK
<1> QED
  BY <1>1, <1>2 DEF BackupInv

\* A change of the phase to another than Creating, or of the Degraded condition.
LEMMA PhaseGood ==
    ASSUME NEW st, NEW due, NEW plan, GoodStatus(st, due, plan),
           NEW ph \in {"Ready", "Idle", "Degraded"}
    PROVE  /\ GoodStatus([st EXCEPT !.phase = ph], due, plan)
           /\ GoodStatus(Degrade(st), due, plan)
<1> DEFINE a == [st EXCEPT !.phase = ph]
           b == Degrade(st)
<1>1. /\ a \in Status /\ b \in Status
      /\ a.phase # "Creating" /\ b.phase # "Creating"
      /\ a.active = st.active /\ a.pending = st.pending /\ a.snapshots = st.snapshots
      /\ b.active = st.active /\ b.pending = st.pending /\ b.snapshots = st.snapshots
      /\ a.successes = st.successes /\ b.successes = st.successes
  BY DEF GoodStatus, Status, Degrade
<1> HIDE DEF a, b
<1>2. GoodStatus(a, due, plan)
  BY <1>1 DEF GoodStatus, InProgress, ActiveJobs
<1>3. GoodStatus(b, due, plan)
  BY <1>1 DEF GoodStatus, InProgress, ActiveJobs
<1> QED
  BY <1>2, <1>3 DEF a, b

\* A pass that commits a good status and leaves the server alone.
LEMMA CommitStep ==
    ASSUME BackupInv, NEW w, GoodStatus(w, cronDue, planned),
           w.successes = status.successes,
           NEW n \in Nat, Commit(w, n), UNCHANGED <<spec, server>>
    PROVE  BackupInv'
<1>1. /\ GoodStatus(status', cronDue, planned) /\ status' \in {status, w}
      /\ expired' \in BOOLEAN /\ budget' \in Budget
      /\ UNCHANGED <<cronDue, planned, recorded>>
  BY CommitGood
<1>2. TypeOK'
  BY <1>1 DEF BackupInv, TypeOK, GoodStatus, server
<1> QED
  BY <1>1, <1>2 DEF BackupInv

\* A refused pass changes the phase and the condition.
LEMMA RefuseInv ==
    ASSUME BackupInv, Refuse
    PROVE  BackupInv'
<1>1. GoodStatus(Degrade(status), cronDue, planned)
  BY PhaseGood DEF BackupInv
<1>2. Degrade(status).successes = status.successes
  BY DEF Degrade, BackupInv, TypeOK, Status
<1> QED
  BY <1>1, <1>2, CommitStep DEF Refuse

\* The record of a snapshot adds its job to those that are made.
LEMMA JobsOfRecorded ==
    ASSUME NEW refs, NEW j, NEW n
    PROVE  Jobs(refs \cup {[job |-> j, name |-> n]}) = Jobs(refs) \cup {j}
<1> DEFINE r == [job |-> j, name |-> n]
<1>1. r.job = j
  OBVIOUS
<1> HIDE DEF r
<1>2. Jobs(refs \cup {r}) = Jobs(refs) \cup {r.job}
  BY DEF Jobs
<1> QED
  BY <1>1, <1>2 DEF r

\* What settling a snapshot writes: its record, the wait, or the end of the attempt.
LEMMA SettleGood ==
    ASSUME BackupInv, status.active # NoActive
    PROVE  /\ \A n \in Snapshot :
                 GoodStatus([status EXCEPT
                     !.snapshots = @ \cup {[job |-> status.active.job, name |-> n]},
                     !.active = NoActive], cronDue, planned)
           /\ GoodStatus([status EXCEPT !.phase = "Creating"], cronDue, planned)
           /\ GoodStatus(GiveUp, cronDue, planned)
<1>1. status \in Status /\ status.active \in Active /\ status.active.job \in Job
  BY DEF BackupInv, TypeOK, Status, Active
<1>2. ASSUME NEW n \in Snapshot
      PROVE  GoodStatus([status EXCEPT
                 !.snapshots = @ \cup {[job |-> status.active.job, name |-> n]},
                 !.active = NoActive], cronDue, planned)
  <2> DEFINE j == status.active.job
             r == [job |-> j, name |-> n]
             w == [status EXCEPT !.snapshots = @ \cup {r}, !.active = NoActive]
  <2>1. r \in SnapshotRef /\ r.job = j
    BY <1>1 DEF SnapshotRef
  <2>2. /\ w \in Status /\ w.active = NoActive /\ w.pending = status.pending
        /\ w.snapshots = status.snapshots \cup {r} /\ w.phase = status.phase
        /\ w.successes = status.successes
    <3> HIDE DEF r
    <3> QED
      BY <1>1, <2>1 DEF Status
  <2>3. Jobs(w.snapshots) = Jobs(status.snapshots) \cup {j}
    <3>1. Jobs(status.snapshots \cup {r}) = Jobs(status.snapshots) \cup {j}
      BY JobsOfRecorded
    <3> HIDE DEF w, r
    <3> QED
      BY <2>2, <3>1
  <2>4. j \notin status.pending \cup Jobs(status.snapshots)
    BY DEF BackupInv, GoodStatus, ActiveJobs
  <2>5. \A s, t \in w.snapshots : s.job = t.job => s = t
    <3>1. \A s \in status.snapshots : s.job # j
      BY <2>4 DEF Jobs
    <3> HIDE DEF r, w
    <3> QED
      BY <2>1, <2>2, <3>1 DEF BackupInv, GoodStatus
  <2> HIDE DEF w, r
  <2>6. GoodStatus(w, cronDue, planned)
    BY <2>2, <2>3, <2>4, <2>5 DEF BackupInv, GoodStatus, InProgress, ActiveJobs
  <2> QED
    BY <2>6 DEF w, r
<1>3. GoodStatus([status EXCEPT !.phase = "Creating"], cronDue, planned)
  <2> DEFINE w == [status EXCEPT !.phase = "Creating"]
  <2>1. /\ w \in Status /\ w.active = status.active /\ w.pending = status.pending
        /\ w.snapshots = status.snapshots /\ w.successes = status.successes
    BY <1>1 DEF Status
  <2> HIDE DEF w
  <2>2. GoodStatus(w, cronDue, planned)
    BY <2>1 DEF BackupInv, GoodStatus, InProgress, ActiveJobs
  <2> QED
    BY <2>2 DEF w
<1>4. GoodStatus(GiveUp, cronDue, planned)
  <2>1. /\ GiveUp \in Status /\ GiveUp.active = NoActive /\ GiveUp.pending = {}
        /\ GiveUp.snapshots = status.snapshots /\ GiveUp.phase = "Degraded"
    BY <1>1 DEF GiveUp, Degrade, Status
  <2> QED
    BY <2>1 DEF BackupInv, GoodStatus, InProgress, ActiveJobs
<1> QED
  BY <1>2, <1>3, <1>4

\* newSnapshotName finds the name of a snapshot.
LEMMA NewNameType ==
    ASSUME TypeOK, status.active # NoActive, NewNames # {}
    PROVE  Min(NewNames) \in NewNames /\ NewNames \subseteq Snapshot
<1>1. status.active.job \in Job
  BY DEF TypeOK, Status, Active
<1>2. NewNames \subseteq Snapshot
  BY <1>1 DEF TypeOK, NewNames
<1>3. Snapshot \subseteq Nat
  BY BackupAssumption DEF Snapshot
<1> QED
  BY <1>2, <1>3, MinLeast

LEMMA SettleInv ==
    ASSUME BackupInv, Settle
    PROVE  BackupInv'
<1>1. status.active # NoActive /\ status \in Status
  BY DEF Settle, BackupInv, TypeOK
<1>2. CASE NewNames # {}
  <2>1. Min(NewNames) \in Snapshot
    BY <1>1, <1>2, NewNameType DEF BackupInv
  <2> DEFINE w == [status EXCEPT
                !.snapshots = @ \cup {[job |-> status.active.job, name |-> Min(NewNames)]},
                !.active = NoActive]
  <2>2. GoodStatus(w, cronDue, planned)
    BY <1>1, <2>1, SettleGood
  <2>3. w.successes = status.successes
    BY <1>1 DEF Status
  <2>4. Commit(w, 0)
    BY <1>2 DEF Settle
  <2> HIDE DEF w
  <2> QED
    BY <2>2, <2>3, <2>4, CommitStep DEF Settle
<1>3. CASE NewNames = {}
  <2>1. /\ [status EXCEPT !.phase = "Creating"].successes = status.successes
        /\ GiveUp.successes = status.successes
    BY <1>1 DEF Status, GiveUp, Degrade
  <2>2. /\ GoodStatus([status EXCEPT !.phase = "Creating"], cronDue, planned)
        /\ GoodStatus(GiveUp, cronDue, planned)
    BY <1>1, SettleGood
  <2>3. CASE Commit([status EXCEPT !.phase = "Creating"], 0)
    <3> DEFINE w == [status EXCEPT !.phase = "Creating"]
    <3>1. GoodStatus(w, cronDue, planned) /\ w.successes = status.successes /\ Commit(w, 0)
      BY <2>1, <2>2, <2>3
    <3> HIDE DEF w
    <3> QED
      BY <3>1, CommitStep DEF Settle
  <2>4. CASE Commit(GiveUp, 0)
    BY <2>1, <2>2, <2>4, CommitStep DEF Settle
  <2> QED
    BY <1>3, <2>3, <2>4 DEF Settle
<1> QED
  BY <1>2, <1>3

\* A pass that asked for a snapshot leaves the status it was given, or the old one,
\* and a fresh name is in use.
LEMMA RequestedGood ==
    ASSUME BackupInv, NEW w, GoodStatus(w, cronDue, planned), NEW n \in Nat, Requested(w, n)
    PROVE  /\ GoodStatus(status', cronDue, planned)
           /\ status' \in {status, w}
           /\ expired' \in BOOLEAN
           /\ budget.made + 1 \in Snapshot
           /\ budget' \in Budget /\ budget'.made = budget.made + 1
           /\ UNCHANGED <<cronDue, planned, recorded>>
<1>1. status' \in {status, w} /\ expired' \in BOOLEAN /\ UNCHANGED <<cronDue, planned, recorded>>
  BY DEF Requested, Committed, BackupInv, TypeOK, history
<1>2. budget \in Budget /\ budget.made < MaxSnapshots
  BY DEF Requested, BackupInv, TypeOK
<1>3. budget.made + 1 \in Snapshot /\ budget.made + 1 \in 0..MaxSnapshots
  BY <1>2, BackupAssumption DEF Budget, Snapshot
<1>4. ASSUME NEW f \in 0..MaxFaults, budget' = [budget EXCEPT !.made = @ + 1, !.faults = f]
      PROVE  budget' \in Budget /\ budget'.made = budget.made + 1
  BY <1>2, <1>3, <1>4 DEF Budget
<1>5. budget' \in Budget /\ budget'.made = budget.made + 1
  <2>1. CASE /\ budget' = [budget EXCEPT !.made = @ + 1, !.faults = @ + n]
             /\ budget.faults + n <= MaxFaults
    <3>1. budget.faults + n \in 0..MaxFaults
      BY <1>2, <2>1, BackupAssumption DEF Budget
    <3> QED
      BY <1>4, <2>1, <3>1
  <2>2. CASE /\ budget' = [budget EXCEPT !.made = @ + 1, !.faults = @ + n + 1]
             /\ budget.faults + n < MaxFaults
    <3>1. budget.faults + n + 1 \in 0..MaxFaults
      BY <1>2, <2>2, BackupAssumption DEF Budget
    <3> QED
      BY <1>4, <2>2, <3>1
  <2> QED
    BY <2>1, <2>2 DEF Requested
<1> QED
  BY <1>1, <1>3, <1>5 DEF BackupInv

\* A pass that asked for a snapshot of a job, whatever it then committed.
LEMMA RequestedStep ==
    ASSUME BackupInv, NEW w, GoodStatus(w, cronDue, planned),
           w.successes = status.successes, NEW j \in Job,
           CreateSnapshot(j), NEW n \in Nat, Requested(w, n), UNCHANGED <<spec, snaps>>
    PROVE  BackupInv'
<1>1. /\ GoodStatus(status', cronDue, planned) /\ status' \in {status, w}
      /\ expired' \in BOOLEAN /\ budget' \in Budget /\ budget.made + 1 \in Snapshot
      /\ UNCHANGED <<cronDue, planned, recorded>>
  BY RequestedGood
<1>2. running' \subseteq SnapshotRef
  BY <1>1 DEF CreateSnapshot, SnapshotRef, BackupInv, TypeOK
<1>3. TypeOK'
  BY <1>1, <1>2 DEF BackupInv, TypeOK, GoodStatus
<1> QED
  BY <1>1, <1>3 DEF BackupInv

\* What issuing a snapshot writes: the queue without its head, or the failure.
LEMMA IssueGood ==
    ASSUME BackupInv, status.active = NoActive, status.pending # {}
    PROVE  LET job == First(status.pending)
           IN  /\ job \in status.pending
               /\ GoodStatus([Degrade(status) EXCEPT !.pending = {}], cronDue, planned)
               /\ GoodStatus([status EXCEPT !.active = [job |-> job, known |-> snaps[job]],
                                            !.pending = @ \ {job}, !.phase = "Creating"],
                             cronDue, planned)
<1> DEFINE job == First(status.pending)
           failed == [Degrade(status) EXCEPT !.pending = {}]
           act == [job |-> job, known |-> snaps[job]]
           issued == [status EXCEPT !.active = act, !.pending = @ \ {job}, !.phase = "Creating"]
<1>1. job \in status.pending /\ job \in Job
  BY FirstPending DEF BackupInv, TypeOK, Status
<1> HIDE DEF job
<1>2. GoodStatus(failed, cronDue, planned)
  <2>1. /\ failed \in Status /\ failed.active = NoActive /\ failed.pending = {}
        /\ failed.snapshots = status.snapshots /\ failed.phase = "Degraded"
    BY DEF Degrade, BackupInv, TypeOK, Status
  <2> HIDE DEF failed
  <2> QED
    BY <2>1 DEF BackupInv, GoodStatus, InProgress, ActiveJobs
<1>3. GoodStatus(issued, cronDue, planned)
  <2>1. act \in Active /\ act.job = job
    BY <1>1 DEF Active, BackupInv, TypeOK
  <2>2. act # NoActive
    <3>1. DOMAIN act = {"job", "known"} /\ DOMAIN NoActive = {"job"}
      BY DEF NoActive
    <3> QED
      BY <3>1
  <2> HIDE DEF act
  <2>3. /\ issued \in Status /\ issued.active = act /\ issued.phase = "Creating"
        /\ issued.pending = status.pending \ {job}
        /\ issued.snapshots = status.snapshots /\ issued.successes = status.successes
    BY <2>1 DEF BackupInv, TypeOK, Status
  <2>4. ActiveJobs(issued) = {job} /\ ActiveJobs(status) = {}
    BY <2>1, <2>2, <2>3 DEF ActiveJobs
  <2> HIDE DEF issued
  <2> QED
    BY <1>1, <2>3, <2>4 DEF BackupInv, GoodStatus, InProgress
<1> QED
  BY <1>1, <1>2, <1>3 DEF job

LEMMA IssueInv ==
    ASSUME BackupInv, Issue
    PROVE  BackupInv'
<1> DEFINE job == First(status.pending)
           failed == [Degrade(status) EXCEPT !.pending = {}]
           issued == [status EXCEPT !.active = [job |-> job, known |-> snaps[job]],
                                    !.pending = @ \ {job}, !.phase = "Creating"]
<1>1. /\ job \in status.pending /\ job \in Job
      /\ GoodStatus(failed, cronDue, planned) /\ GoodStatus(issued, cronDue, planned)
  <2>1. /\ job \in status.pending
        /\ GoodStatus(failed, cronDue, planned) /\ GoodStatus(issued, cronDue, planned)
    BY IssueGood DEF Issue
  <2> QED
    BY <2>1 DEF BackupInv, TypeOK, Status
<1>2. failed.successes = status.successes /\ issued.successes = status.successes
  BY DEF BackupInv, TypeOK, Status, Degrade
<1>3. /\ UNCHANGED <<spec, snaps>>
      /\ \/ Commit(failed, 1) /\ UNCHANGED running
         \/ CreateSnapshot(job) /\ Requested(failed, 1)
         \/ CreateSnapshot(job) /\ Requested(issued, 0)
  BY DEF Issue
<1> HIDE DEF job, failed, issued
<1>4. CASE Commit(failed, 1) /\ UNCHANGED running
  BY <1>1, <1>2, <1>3, <1>4, CommitStep DEF server
<1>5. CASE CreateSnapshot(job) /\ Requested(failed, 1)
  BY <1>1, <1>2, <1>3, <1>5, RequestedStep
<1>6. CASE CreateSnapshot(job) /\ Requested(issued, 0)
  BY <1>1, <1>2, <1>3, <1>6, RequestedStep
<1> QED
  BY <1>3, <1>4, <1>5, <1>6

\* A generation that is under way, or due, is not the last one the bound allows.
LEMMA RoomForSuccess ==
    ASSUME BackupInv, InProgress(status) \/ DueNow \/ OneShotDue
    PROVE  status.successes + 1 \in 1..MaxGenerations
<1>1. status.successes = 0 \/ cronDue
  BY DEF BackupInv, GoodStatus, DueNow, OneShotDue
<1>2. CASE status.successes = 0
  BY <1>2, BackupAssumption
<1>3. CASE cronDue
  <2>1. status.successes \in 1..(MaxGenerations - 1)
    BY <1>3 DEF BackupInv
  <2> QED
    BY <2>1, BackupAssumption
<1> QED
  BY <1>1, <1>2, <1>3

\* A success ends the generation: none is under way, and none is due.
LEMMA SuccessStep ==
    ASSUME BackupInv, InProgress(status) \/ DueNow \/ OneShotDue,
           NEW d \in BOOLEAN,
           Committed([status EXCEPT !.phase = "Ready", !.degraded = d, !.successes = @ + 1]),
           status.active = NoActive, status.pending = {}, cronDue' = FALSE,
           UNCHANGED <<spec, running, planned>>, snaps' \in [Job -> SUBSET Snapshot],
           recorded' \in BOOLEAN, budget' \in Budget
    PROVE  BackupInv'
<1> DEFINE w == [status EXCEPT !.phase = "Ready", !.degraded = d, !.successes = @ + 1]
<1>1. status.successes + 1 \in 0..MaxGenerations
  BY RoomForSuccess
<1>2. /\ w \in Status /\ w.active = NoActive /\ w.pending = {} /\ w.phase = "Ready"
      /\ w.snapshots = status.snapshots
  BY <1>1 DEF BackupInv, TypeOK, Status
<1>3. status' = w /\ expired' \in BOOLEAN
  BY DEF Committed, BackupInv, TypeOK
<1> HIDE DEF w
<1>4. GoodStatus(w, FALSE, planned)
  BY <1>2 DEF BackupInv, GoodStatus, InProgress, ActiveJobs
<1>5. TypeOK'
  BY <1>2, <1>3 DEF BackupInv, TypeOK
<1> QED
  BY <1>3, <1>4, <1>5 DEF BackupInv

\* Retention deletes snapshots and makes none.
LEMMA PruneType ==
    ASSUME TypeOK, NEW skipped, Prune(skipped)
    PROVE  snaps' \in [Job -> SUBSET Snapshot]
<1>1. \A j \in Job : Newest(snaps[j]) \in SUBSET Snapshot /\ snaps[j] \in SUBSET Snapshot
  BY DEF TypeOK, Newest
<1> QED
  BY <1>1 DEF Prune

LEMMA CloseInv ==
    ASSUME BackupInv, Close
    PROVE  BackupInv'
<1>1. PICK skipped \in SUBSET Job, cost \in Nat :
          /\ Prune(skipped)
          /\ \/ /\ Committed([status EXCEPT !.phase = "Ready", !.degraded = FALSE,
                                            !.successes = @ + 1])
                /\ Spend(cost)
                /\ cronDue' = FALSE /\ recorded' = TRUE
                /\ UNCHANGED planned
             \/ Spend(cost + 1) /\ UNCHANGED <<status, expired, cronDue, history>>
  BY DEF Close
<1>2. snaps' \in [Job -> SUBSET Snapshot]
  BY <1>1, PruneType DEF BackupInv
<1>3. budget' \in Budget
  BY <1>1, SpendType DEF BackupInv, TypeOK
<1>4. UNCHANGED <<spec, running>> /\ IdlePass /\ JustFinished /\ InProgress(status)
  BY DEF Close, JustFinished, InProgress
<1>5. CASE /\ Committed([status EXCEPT !.phase = "Ready", !.degraded = FALSE,
                                       !.successes = @ + 1])
           /\ cronDue' = FALSE /\ recorded' = TRUE /\ UNCHANGED planned
  BY <1>2, <1>3, <1>4, <1>5, SuccessStep DEF JustFinished
<1>6. CASE UNCHANGED <<status, expired, cronDue, history>>
  <2>1. TypeOK'
    BY <1>2, <1>3, <1>4, <1>6 DEF BackupInv, TypeOK, history
  <2> QED
    BY <1>6, <2>1 DEF BackupInv, history
<1> QED
  BY <1>1, <1>5, <1>6

LEMMA OpenInv ==
    ASSUME BackupInv, Open
    PROVE  BackupInv'
<1>1. /\ UNCHANGED <<spec, server>> /\ (DueNow \/ OneShotDue)
      /\ status.active = NoActive /\ status.pending = {}
  BY DEF Open, IdlePass
<1>2. CASE Commit(Degrade(status), 1)
  <2>1. GoodStatus(Degrade(status), cronDue, planned)
    BY PhaseGood DEF BackupInv
  <2>2. Degrade(status).successes = status.successes
    BY DEF Degrade, BackupInv, TypeOK, Status
  <2> QED
    BY <1>1, <1>2, <2>1, <2>2, CommitStep
<1>3. ASSUME NEW c \in Listings,
             Committed([status EXCEPT !.snapshots = {}, !.phase = "Creating",
                                      !.pending = PlanGeneration(c)]),
             planned' = PlanGeneration(c), recorded' = FALSE, UNCHANGED <<cronDue, budget>>
      PROVE  BackupInv'
  <2> DEFINE w == [status EXCEPT !.snapshots = {}, !.phase = "Creating",
                                 !.pending = PlanGeneration(c)]
  <2>1. PlanGeneration(c) \subseteq Job
    BY DEF PlanGeneration, Job
  <2>2. /\ w \in Status /\ w.active = NoActive /\ w.pending = PlanGeneration(c)
        /\ w.snapshots = {} /\ w.successes = status.successes
    BY <1>1, <2>1 DEF BackupInv, TypeOK, Status
  <2>3. status' = w /\ expired' \in BOOLEAN
    BY <1>3 DEF Committed, BackupInv, TypeOK
  <2> HIDE DEF w
  <2>4. Jobs({}) = {}
    BY DEF Jobs
  <2>5. status.successes = 0 \/ cronDue
    BY <1>1 DEF DueNow, OneShotDue
  <2>6. GoodStatus(w, cronDue, planned')
    BY <1>3, <2>2, <2>4, <2>5 DEF GoodStatus, ActiveJobs
  <2>7. TypeOK'
    BY <1>1, <1>3, <2>1, <2>2, <2>3 DEF BackupInv, TypeOK, server
  <2> QED
    BY <1>3, <2>2, <2>3, <2>6, <2>7 DEF BackupInv
<1>4. CASE /\ Committed([status EXCEPT !.phase = "Ready", !.successes = @ + 1])
           /\ cronDue' = FALSE /\ UNCHANGED <<history, budget>>
  <2>1. [status EXCEPT !.phase = "Ready", !.successes = @ + 1]
            = [status EXCEPT !.phase = "Ready", !.degraded = status.degraded,
                             !.successes = @ + 1]
    BY DEF BackupInv, TypeOK, Status
  <2>2. status.degraded \in BOOLEAN /\ budget \in Budget /\ recorded \in BOOLEAN
        /\ snaps \in [Job -> SUBSET Snapshot]
    BY DEF BackupInv, TypeOK, Status
  <2> QED
    BY <1>1, <1>4, <2>1, <2>2, SuccessStep DEF server, history
<1> QED
  BY <1>2, <1>3, <1>4 DEF Open

LEMMA RestInv ==
    ASSUME BackupInv, Rest
    PROVE  BackupInv'
<1> DEFINE ph == IF status.successes = 0 THEN "Idle" ELSE "Ready"
           w == [status EXCEPT !.phase = ph]
<1>1. ph \in {"Ready", "Idle", "Degraded"}
  OBVIOUS
<1>2. GoodStatus(w, cronDue, planned)
  <2> HIDE DEF ph
  <2> QED
    BY <1>1, PhaseGood DEF BackupInv
<1>3. w.successes = status.successes
  BY DEF BackupInv, TypeOK, Status
<1>4. Commit(w, 0) /\ UNCHANGED <<spec, server>>
  BY DEF Rest
<1> HIDE DEF w
<1> QED
  BY <1>2, <1>3, <1>4, CommitStep

\* What happens around the controller leaves its status alone.
LEMMA SurroundingsInv ==
    ASSUME BackupInv,
           \/ \E s \in running : FinishSnapshot(s) \/ LoseSnapshot(s)
           \/ \E j \in Job : ForeignSnapshot(j)
           \/ DeadlinePasses \/ CronTick
           \/ \E schedule \in Schedules, suspend \in BOOLEAN : Edit(schedule, suspend)
           \/ UNCHANGED vars
    PROVE  BackupInv'
<1>1. ASSUME UNCHANGED <<status, cronDue, planned>>, TypeOK'
      PROVE  BackupInv'
  BY <1>1 DEF BackupInv
<1>2. ASSUME NEW s \in running, FinishSnapshot(s)
      PROVE  BackupInv'
  <2>1. s.job \in Job /\ s.name \in Snapshot
    BY DEF BackupInv, TypeOK, SnapshotRef
  <2>2. snaps' \in [Job -> SUBSET Snapshot] /\ running' \subseteq SnapshotRef
    BY <1>2, <2>1 DEF FinishSnapshot, BackupInv, TypeOK
  <2>3. TypeOK'
    BY <1>2, <2>2 DEF FinishSnapshot, BackupInv, TypeOK, history
  <2> QED
    BY <1>1, <1>2, <2>3 DEF FinishSnapshot, history
<1>3. ASSUME NEW s \in running, LoseSnapshot(s)
      PROVE  BackupInv'
  <2>1. budget' \in Budget
    BY <1>3, SpendType DEF LoseSnapshot, BackupInv, TypeOK
  <2>2. TypeOK'
    BY <1>3, <2>1 DEF LoseSnapshot, BackupInv, TypeOK, history
  <2> QED
    BY <1>1, <1>3, <2>2 DEF LoseSnapshot, history
<1>4. ASSUME NEW j \in Job, ForeignSnapshot(j)
      PROVE  BackupInv'
  <2>1. budget \in Budget /\ budget.made < MaxSnapshots /\ budget.faults < MaxFaults
    BY <1>4 DEF ForeignSnapshot, BackupInv, TypeOK
  <2>2. budget.made + 1 \in Snapshot /\ budget.made + 1 \in 0..MaxSnapshots
        /\ budget.faults + 1 \in 0..MaxFaults
    BY <2>1, BackupAssumption DEF Budget, Snapshot
  <2>3. budget' \in Budget
    BY <1>4, <2>1, <2>2 DEF ForeignSnapshot, Budget
  <2>4. snaps' \in [Job -> SUBSET Snapshot]
    BY <1>4, <2>2 DEF ForeignSnapshot, BackupInv, TypeOK
  <2>5. TypeOK'
    BY <1>4, <2>3, <2>4 DEF ForeignSnapshot, BackupInv, TypeOK, history
  <2> QED
    BY <1>1, <1>4, <2>5 DEF ForeignSnapshot, history
<1>5. CASE DeadlinePasses
  <2>1. budget' \in Budget
    BY <1>5, SpendType DEF DeadlinePasses, BackupInv, TypeOK
  <2>2. TypeOK'
    BY <1>5, <2>1 DEF DeadlinePasses, BackupInv, TypeOK, server, history
  <2> QED
    BY <1>1, <1>5, <2>2 DEF DeadlinePasses, history
<1>6. CASE CronTick
  <2>1. TypeOK'
    BY <1>6 DEF CronTick, BackupInv, TypeOK, server, history
  <2> QED
    BY <1>6, <2>1 DEF CronTick, BackupInv, GoodStatus, history
<1>7. ASSUME NEW schedule \in Schedules, NEW suspend \in BOOLEAN, Edit(schedule, suspend)
      PROVE  BackupInv'
  <2>1. budget' \in Budget
    <3>1. budget \in Budget /\ budget.edits \in 0..MaxEdits /\ budget.edits < MaxEdits
      BY <1>7 DEF Edit, BackupInv, TypeOK, Budget
    <3>2. budget.edits + 1 \in 0..MaxEdits
      BY <3>1, BackupAssumption
    <3> QED
      BY <1>7, <3>1, <3>2 DEF Edit, Budget
  <2>2. TypeOK'
    BY <1>7, <2>1 DEF Edit, BackupInv, TypeOK, server, history
  <2> QED
    BY <1>1, <1>7, <2>2 DEF Edit, history
<1>8. CASE UNCHANGED vars
  BY <1>8 DEF BackupInv, TypeOK, vars, server, history
<1> QED
  BY <1>2, <1>3, <1>4, <1>5, <1>6, <1>7, <1>8

\* Every step preserves the invariant.
LEMMA NextBackupInv ==
    ASSUME BackupInv, [Next]_vars
    PROVE  BackupInv'
BY RefuseInv, SettleInv, IssueInv, CloseInv, OpenInv, RestInv, SurroundingsInv
   DEF Next, Reconcile

\* A new backup satisfies it.
LEMMA InitBackupInv ==
    ASSUME Init
    PROVE  BackupInv
<1>1. /\ status \in Status /\ status.active = NoActive /\ status.pending = {}
      /\ status.phase = "" /\ status.snapshots = {}
  <2>1. 0 \in 0..MaxGenerations
    BY BackupAssumption
  <2> QED
    BY <2>1 DEF Init, Status
<1>2. TypeOK
  <2>1. budget \in Budget
    <3>1. 0 \in 0..MaxFaults /\ 0 \in 0..MaxEdits /\ 0 \in 0..MaxSnapshots
      BY BackupAssumption
    <3> QED
      BY <3>1 DEF Init, Budget
  <2>2. snaps \in [Job -> SUBSET Snapshot]
    BY DEF Init
  <2> QED
    BY <1>1, <2>1, <2>2 DEF Init, TypeOK
<1>3. GoodStatus(status, cronDue, planned)
  <2>1. Jobs({}) = {}
    BY DEF Jobs
  <2> QED
    BY <1>1, <2>1 DEF GoodStatus, InProgress, ActiveJobs
<1> QED
  BY <1>2, <1>3 DEF BackupInv, Init

LEMMA BackupInvariance == Spec => []BackupInv
<1>1. Init => BackupInv
  BY InitBackupInv
<1>2. BackupInv /\ [Next]_vars => BackupInv'
  BY NextBackupInv
<1> QED
  BY <1>1, <1>2, PTL DEF Spec

\* Every variable keeps its type: the jobs are those of the plan, the recorded names
\* are names of snapshots, and successes stay within the bound.
THEOREM BackupTypeCorrect == Spec => []TypeOK
<1>1. BackupInv => TypeOK
  BY DEF BackupInv
<1> QED
  BY <1>1, BackupInvariance, PTL

\* Only a pass that closes a finished generation records it.
LEMMA RecordedByClose ==
    ASSUME [Next]_vars, recorded', ~ recorded
    PROVE  Close
<1>1. CASE Refuse \/ Settle \/ Rest
  BY <1>1 DEF Refuse, Settle, Rest, Commit, history
<1>2. CASE Issue
  BY <1>2 DEF Issue, Commit, Requested, history
<1>3. CASE Open
  BY <1>3 DEF Open, Commit, history
<1>4. CASE \/ \E s \in running : FinishSnapshot(s) \/ LoseSnapshot(s)
           \/ \E j \in Job : ForeignSnapshot(j)
           \/ DeadlinePasses \/ CronTick
           \/ \E schedule \in Schedules, suspend \in BOOLEAN : Edit(schedule, suspend)
           \/ UNCHANGED vars
  BY <1>4 DEF FinishSnapshot, LoseSnapshot, ForeignSnapshot, DeadlinePasses, CronTick, Edit,
         history, vars
<1> QED
  BY <1>1, <1>2, <1>3, <1>4 DEF Next, Reconcile

\* qdrantbackup_controller.go:132: whatever fails, is lost, is slow or is edited, a
\* generation that is recorded as a success has a snapshot of every pair of its plan.
THEOREM SuccessIsHonest == Spec => HonestSuccess
<1>1. ASSUME BackupInv, [Next]_vars, status'.successes > status.successes, recorded', ~ recorded
      PROVE  {s.job : s \in status'.snapshots} = planned
  <2>1. Close
    BY <1>1, RecordedByClose
  <2>2. status.active = NoActive /\ status.pending = {} /\ InProgress(status)
    BY <2>1 DEF Close, JustFinished, InProgress
  <2>3. Jobs(status.snapshots) = planned
    BY <1>1, <2>2 DEF BackupInv, GoodStatus, ActiveJobs
  <2>4. status'.snapshots = status.snapshots
    BY <1>1, <2>1 DEF Close, Committed, BackupInv, TypeOK, Status
  <2> QED
    BY <2>3, <2>4 DEF Jobs
<1>2. ASSUME BackupInv, [Next]_vars
      PROVE  [status'.successes > status.successes /\ recorded' /\ ~ recorded =>
                 {s.job : s \in status'.snapshots} = planned]_vars
  BY <1>1, <1>2
<1> QED
  BY <1>2, BackupInvariance, PTL DEF Spec, HonestSuccess

(***************************************************************************)
(* One snapshot at a time, and recorded ones that exist.  Both need calls  *)
(* that took effect to be reported, updates of the status to succeed, the  *)
(* server to finish or lose a snapshot within the deadline and nobody else *)
(* to make snapshots: each of "responseLost", "updateFails", "slow" and    *)
(* "foreign" lets a snapshot appear that the status knows nothing of.      *)
(***************************************************************************)
Undisturbed == Faults \cap {"responseLost", "updateFails", "slow", "foreign"} = {}

\* What the server is making is the newest snapshot there is, of the active job, and
\* the controller neither sees it nor has given up waiting for it.
RunningTracked ==
    running # {} =>
        /\ status.active # NoActive
        /\ running = {[job |-> status.active.job, name |-> budget.made]}
        /\ NewNames = {} /\ ~ expired

\* Names are given in the order of creation, and a name that is new to the active job
\* is the last one given.
NamesInOrder ==
    /\ \A j \in Job : \A n \in snaps[j] : n <= budget.made
    /\ status.active # NoActive => NewNames \subseteq {budget.made}

\* The recorded snapshot of a pair is there, and it is the newest one of the pair.
RecordedNewest ==
    \A s \in status.snapshots :
        s.name \in snaps[s.job] /\ \A n \in snaps[s.job] : n <= s.name

ServerInv == RunningTracked /\ NamesInOrder /\ RecordedNewest

\* A step that makes no snapshot and records none.
LEMMA QuietServer ==
    ASSUME ServerInv, UNCHANGED snaps, running' = running \/ running' = {},
           budget'.made = budget.made, expired' => expired,
           status'.active = status.active \/ (status'.active = NoActive /\ running' = {}),
           status'.snapshots \subseteq status.snapshots
    PROVE  ServerInv'
<1>1. status'.active = status.active => NewNames' = NewNames
  BY DEF NewNames
<1>2. RunningTracked'
  BY <1>1 DEF ServerInv, RunningTracked
<1>3. NamesInOrder'
  BY <1>1 DEF ServerInv, NamesInOrder
<1>4. RecordedNewest'
  BY DEF ServerInv, RecordedNewest
<1> QED
  BY <1>2, <1>3, <1>4 DEF ServerInv

\* A pass that commits a status with no new record.
LEMMA QuietCommit ==
    ASSUME TypeOK, ServerInv, Undisturbed, NEW w, NEW n \in Nat, Commit(w, n),
           w.active = status.active \/ (w.active = NoActive /\ running = {}),
           w.snapshots \subseteq status.snapshots, UNCHANGED <<running, snaps>>
    PROVE  ServerInv'
<1>1. status' = w /\ (expired' => expired) /\ budget'.made = budget.made
  BY SpendType DEF Commit, Committed, Undisturbed, TypeOK
<1> QED
  BY <1>1, QuietServer

LEMMA SettleServer ==
    ASSUME TypeOK, ServerInv, Undisturbed, Settle
    PROVE  ServerInv'
<1>1. /\ status \in Status /\ status.active # NoActive /\ status.active.job \in Job
      /\ UNCHANGED <<running, snaps>>
  BY DEF TypeOK, Status, Active, Settle, server
<1>2. CASE NewNames # {}
  <2> DEFINE r == [job |-> status.active.job, name |-> Min(NewNames)]
             w == [status EXCEPT !.snapshots = @ \cup {r}, !.active = NoActive]
  <2>1. running = {}
    BY <1>2 DEF ServerInv, RunningTracked
  <2>2. Min(NewNames) \in NewNames /\ Min(NewNames) = budget.made
    BY <1>1, <1>2, NewNameType DEF ServerInv, NamesInOrder
  <2>3. r.name = budget.made /\ r.job = status.active.job /\ r.name \in snaps[r.job]
    BY <2>2 DEF NewNames
  <2>4. w.active = NoActive /\ w.snapshots = status.snapshots \cup {r}
    <3> HIDE DEF r
    <3> QED
      BY <1>1 DEF Status
  <2>5. Commit(w, 0)
    BY <1>2 DEF Settle
  <2> HIDE DEF w, r
  <2>6. status' = w /\ budget'.made = budget.made
    BY <2>5, SpendType DEF Commit, Committed, Undisturbed, TypeOK
  <2>7. RunningTracked' /\ NamesInOrder'
    BY <1>1, <2>1, <2>4, <2>6 DEF ServerInv, RunningTracked, NamesInOrder
  <2>8. RecordedNewest'
    <3>1. \A n \in snaps[r.job] : n <= r.name
      BY <1>1, <2>3 DEF ServerInv, NamesInOrder
    <3>2. status'.snapshots = status.snapshots \cup {r} /\ snaps' = snaps
      BY <1>1, <2>4, <2>6
    <3> QED
      BY <2>3, <3>1, <3>2 DEF ServerInv, RecordedNewest
  <2> QED
    BY <2>7, <2>8 DEF ServerInv
<1>3. CASE NewNames = {} /\ ~ WaitOver
  <2> DEFINE w == [status EXCEPT !.phase = "Creating"]
  <2>1. w.active = status.active /\ w.snapshots = status.snapshots /\ Commit(w, 0)
    BY <1>1, <1>3 DEF Settle, Status
  <2> HIDE DEF w
  <2> QED
    BY <1>1, <2>1, QuietCommit
<1>4. CASE NewNames = {} /\ WaitOver
  <2>1. running = {}
    BY <1>4 DEF ServerInv, RunningTracked, WaitOver
  <2>2. GiveUp.active = NoActive /\ GiveUp.snapshots = status.snapshots
    BY <1>1 DEF GiveUp, Degrade, Status
  <2>3. Commit(GiveUp, 0)
    BY <1>4 DEF Settle
  <2> QED
    BY <1>1, <2>1, <2>2, <2>3, QuietCommit
<1> QED
  BY <1>2, <1>3, <1>4

LEMMA IssueServer ==
    ASSUME BackupInv, ServerInv, Undisturbed, Issue
    PROVE  ServerInv'
<1> DEFINE job == First(status.pending)
           failed == [Degrade(status) EXCEPT !.pending = {}]
           act == [job |-> job, known |-> snaps[job]]
           issued == [status EXCEPT !.active = act,
                                    !.pending = @ \ {job}, !.phase = "Creating"]
<1>1. status.active = NoActive /\ running = {} /\ status \in Status /\ UNCHANGED snaps
  BY DEF Issue, ServerInv, RunningTracked, BackupInv, TypeOK
<1>2. job \in Job
  BY FirstPending DEF Issue, BackupInv, TypeOK, Status
<1>3. \/ Commit(failed, 1) /\ UNCHANGED running
      \/ CreateSnapshot(job) /\ Requested(issued, 0)
  BY DEF Issue, Undisturbed
<1>4. CASE Commit(failed, 1) /\ UNCHANGED running
  <2>1. failed.active = status.active /\ failed.snapshots = status.snapshots
    BY <1>1 DEF Degrade, Status
  <2> HIDE DEF failed
  <2> QED
    BY <1>1, <1>4, <2>1, QuietCommit DEF BackupInv
<1>5. CASE CreateSnapshot(job) /\ Requested(issued, 0)
  <2>1. act.job = job /\ act.known = snaps[job] /\ act # NoActive
    <3>1. DOMAIN act = {"job", "known"} /\ DOMAIN NoActive = {"job"}
      BY DEF NoActive
    <3> QED
      BY <3>1
  <2>2. issued.active = act /\ issued.snapshots = status.snapshots
    <3> HIDE DEF act
    <3> QED
      BY <1>1 DEF Status
  <2> HIDE DEF act, issued, job
  <2>3. /\ status' = issued
        /\ expired' = (expired /\ issued.active = status.active)
        /\ budget'.made = budget.made + 1
    <3>1. budget \in Budget
      BY DEF BackupInv, TypeOK
    <3> QED
      BY <1>5, <3>1 DEF Requested, Committed, Undisturbed, Budget
  <2>4. NewNames' = {}
    BY <1>1, <2>1, <2>2, <2>3 DEF NewNames
  <2>5. RunningTracked'
    BY <1>1, <1>5, <2>1, <2>2, <2>3, <2>4 DEF CreateSnapshot, RunningTracked
  <2>6. NamesInOrder'
    <3>1. \A j \in Job : snaps[j] \subseteq Nat
      BY BackupAssumption DEF BackupInv, TypeOK, Snapshot
    <3>2. budget.made \in Nat
      BY BackupAssumption DEF BackupInv, TypeOK, Budget
    <3>3. ASSUME NEW j \in Job, NEW n \in snaps[j]
          PROVE  n <= budget.made + 1
      BY <3>1, <3>2 DEF ServerInv, NamesInOrder
    <3> QED
      BY <1>1, <2>3, <2>4, <3>3 DEF NamesInOrder
  <2>7. RecordedNewest'
    BY <1>1, <2>2, <2>3 DEF ServerInv, RecordedNewest
  <2> QED
    BY <2>5, <2>6, <2>7 DEF ServerInv
<1> QED
  BY <1>3, <1>4, <1>5

\* prunable keeps the newest snapshot of a pair, and brings none.
LEMMA NewestKept ==
    ASSUME TypeOK, spec.keep >= 1, NEW names \in SUBSET Snapshot, NEW n \in names,
           \A m \in names : m <= n
    PROVE  n \in Newest(names)
<1>1. {m \in names : m > n} = {}
  <2>1. \A m \in names : m \in Nat
    BY BackupAssumption DEF Snapshot
  <2> QED
    BY <2>1
<1>2. Cardinality({m \in names : m > n}) = 0
  BY <1>1, FS_EmptySet
<1>3. spec.keep \in Nat
  BY BackupAssumption DEF TypeOK
<1> QED
  BY <1>2, <1>3 DEF Newest

LEMMA CloseServer ==
    ASSUME TypeOK, ServerInv, Undisturbed, Close
    PROVE  ServerInv'
<1>1. PICK skipped \in SUBSET Job, cost \in Nat :
          /\ Prune(skipped) /\ Spend(cost)
          /\ Committed([status EXCEPT !.phase = "Ready", !.degraded = FALSE,
                                      !.successes = @ + 1])
  BY DEF Close, Undisturbed
<1>2. status.active = NoActive /\ running = {} /\ UNCHANGED running
  BY DEF Close, JustFinished, ServerInv, RunningTracked
<1>3. status'.active = NoActive /\ status'.snapshots = status.snapshots
  BY <1>1, <1>2 DEF Committed, TypeOK, Status
<1>4. budget'.made = budget.made
  BY <1>1, SpendType DEF TypeOK
<1>5. \A j \in Job : snaps'[j] = snaps[j] \/ (spec.keep >= 1 /\ snaps'[j] = Newest(snaps[j]))
  BY <1>1 DEF Prune
<1>6. \A j \in Job : snaps'[j] \subseteq snaps[j]
  BY <1>5 DEF Newest
<1>7. RunningTracked' /\ NamesInOrder'
  BY <1>2, <1>3, <1>4, <1>6 DEF ServerInv, RunningTracked, NamesInOrder
<1>8. ASSUME NEW s \in status.snapshots
      PROVE  s.name \in snaps'[s.job] /\ \A n \in snaps'[s.job] : n <= s.name
  <2>1. s.job \in Job /\ snaps[s.job] \in SUBSET Snapshot
    BY DEF TypeOK, Status, SnapshotRef
  <2>2. s.name \in snaps[s.job] /\ \A n \in snaps[s.job] : n <= s.name
    BY DEF ServerInv, RecordedNewest
  <2>3. spec.keep >= 1 => s.name \in Newest(snaps[s.job])
    BY <2>1, <2>2, NewestKept
  <2> QED
    BY <1>5, <1>6, <2>1, <2>2, <2>3
<1>9. RecordedNewest'
  BY <1>3, <1>8 DEF RecordedNewest
<1> QED
  BY <1>7, <1>9 DEF ServerInv

LEMMA FinishServer ==
    ASSUME BackupInv, ServerInv, NEW s \in running, FinishSnapshot(s)
    PROVE  ServerInv'
<1>1. /\ status.active # NoActive /\ s = [job |-> status.active.job, name |-> budget.made]
      /\ running = {s} /\ NewNames = {} /\ ~ expired
  BY DEF ServerInv, RunningTracked
<1>2. s.job = status.active.job /\ s.name = budget.made /\ s.job \in Job
  BY <1>1 DEF BackupInv, TypeOK, Status, Active
<1>3. /\ running' = {} /\ UNCHANGED <<status, budget>>
      /\ snaps' = [snaps EXCEPT ![s.job] = @ \cup {s.name}]
  BY <1>1 DEF FinishSnapshot
<1>4. \A j \in Job : snaps'[j] = IF j = s.job THEN snaps[j] \cup {s.name} ELSE snaps[j]
  BY <1>2, <1>3 DEF BackupInv, TypeOK
<1>5. budget.made \in Nat
  BY BackupAssumption DEF BackupInv, TypeOK, Budget
<1>6. NewNames' \subseteq {budget.made}
  BY <1>1, <1>2, <1>3, <1>4 DEF NewNames
<1>7. RunningTracked' /\ NamesInOrder'
  BY <1>2, <1>3, <1>4, <1>5, <1>6 DEF ServerInv, RunningTracked, NamesInOrder
<1>8. RecordedNewest'
  <2>1. ASSUME NEW r \in status.snapshots
        PROVE  snaps'[r.job] = snaps[r.job]
    <3>1. r.job \in Job /\ r.job \in Jobs(status.snapshots)
      BY DEF BackupInv, TypeOK, Status, SnapshotRef, Jobs
    <3>2. r.job # s.job
      BY <1>1, <1>2, <3>1 DEF BackupInv, GoodStatus, ActiveJobs
    <3> QED
      BY <1>4, <3>1, <3>2
  <2> QED
    BY <1>3, <2>1 DEF ServerInv, RecordedNewest
<1> QED
  BY <1>7, <1>8 DEF ServerInv

\* Every step preserves the invariant of the server.
LEMMA NextServer ==
    ASSUME BackupInv, ServerInv, Undisturbed, [Next]_vars
    PROVE  ServerInv'
<1> USE DEF BackupInv
<1>0. status \in Status
  BY DEF TypeOK
<1>1. CASE Settle \/ Issue \/ Close
  BY <1>1, SettleServer, IssueServer, CloseServer
<1>2. CASE Refuse
  <2>1. Degrade(status).active = status.active /\ Degrade(status).snapshots = status.snapshots
    BY <1>0 DEF Degrade, Status
  <2> QED
    BY <1>2, <2>1, QuietCommit DEF Refuse, server
<1>3. CASE Rest
  <2> DEFINE w == [status EXCEPT !.phase = IF status.successes = 0 THEN "Idle" ELSE "Ready"]
  <2>1. w.active = status.active /\ w.snapshots = status.snapshots /\ Commit(w, 0)
    BY <1>0, <1>3 DEF Rest, Status
  <2> HIDE DEF w
  <2> QED
    BY <1>3, <2>1, QuietCommit DEF Rest, server
<1>4. CASE Open
  <2>1. UNCHANGED <<running, snaps>>
    BY <1>4 DEF Open, server
  <2>2. CASE Commit(Degrade(status), 1)
    <3>1. Degrade(status).active = status.active /\ Degrade(status).snapshots = status.snapshots
      BY <1>0 DEF Degrade, Status
    <3> QED
      BY <2>1, <2>2, <3>1, QuietCommit
  <2>3. ASSUME NEW w, Committed(w), UNCHANGED budget, w.active = status.active,
               w.snapshots \subseteq status.snapshots
        PROVE  ServerInv'
    BY <2>1, <2>3, QuietServer DEF Committed
  <2>4. ASSUME NEW c \in Listings,
               Committed([status EXCEPT !.snapshots = {}, !.phase = "Creating",
                                        !.pending = PlanGeneration(c)]), UNCHANGED budget
        PROVE  ServerInv'
    <3> DEFINE w == [status EXCEPT !.snapshots = {}, !.phase = "Creating",
                                   !.pending = PlanGeneration(c)]
    <3>1. w.active = status.active /\ w.snapshots = {} /\ Committed(w)
      BY <1>0, <2>4 DEF Status
    <3> HIDE DEF w
    <3> QED
      BY <2>3, <2>4, <3>1
  <2>5. CASE /\ Committed([status EXCEPT !.phase = "Ready", !.successes = @ + 1])
             /\ UNCHANGED budget
    <3> DEFINE w == [status EXCEPT !.phase = "Ready", !.successes = @ + 1]
    <3>1. w.active = status.active /\ w.snapshots = status.snapshots /\ Committed(w)
      BY <1>0, <2>5 DEF Status
    <3> HIDE DEF w
    <3> QED
      BY <2>3, <2>5, <3>1
  <2> QED
    BY <1>4, <2>2, <2>4, <2>5 DEF Open
<1>5. ASSUME NEW s \in running, FinishSnapshot(s)
      PROVE  ServerInv'
  BY <1>5, FinishServer
<1>6. ASSUME NEW s \in running, LoseSnapshot(s)
      PROVE  ServerInv'
  <2>1. running' = {}
    BY <1>6 DEF ServerInv, RunningTracked, LoseSnapshot
  <2>2. budget'.made = budget.made
    BY <1>6, SpendType DEF LoseSnapshot, TypeOK
  <2> QED
    BY <1>6, <2>1, <2>2, QuietServer DEF LoseSnapshot
<1>7. CASE \E j \in Job : ForeignSnapshot(j)
  BY <1>7 DEF ForeignSnapshot, Undisturbed
<1>8. CASE DeadlinePasses
  <2>1. \A s \in running : s.job # status.active.job
    BY <1>8 DEF DeadlinePasses, Undisturbed
  <2>2. running = {}
    BY <2>1 DEF ServerInv, RunningTracked
  <2>3. budget'.made = budget.made
    BY <1>8, SpendType DEF DeadlinePasses, TypeOK
  <2>4. UNCHANGED <<status, running, snaps>>
    BY <1>8 DEF DeadlinePasses, server
  <2>5. NewNames' = NewNames
    BY <2>4 DEF NewNames
  <2> QED
    BY <2>2, <2>3, <2>4, <2>5 DEF ServerInv, RunningTracked, NamesInOrder, RecordedNewest
<1>9. CASE CronTick \/ UNCHANGED vars
  BY <1>9, QuietServer DEF CronTick, server, vars
<1>10. ASSUME NEW schedule \in Schedules, NEW suspend \in BOOLEAN, Edit(schedule, suspend)
       PROVE  ServerInv'
  <2>1. budget'.made = budget.made
    BY <1>10 DEF Edit, TypeOK, Budget
  <2> QED
    BY <1>10, <2>1, QuietServer DEF Edit, server
<1> QED
  BY <1>1, <1>2, <1>3, <1>4, <1>5, <1>6, <1>7, <1>8, <1>9, <1>10 DEF Next, Reconcile

\* It gives both properties.
LEMMA ServerProperties ==
    ASSUME ServerInv
    PROVE  OneAtATime /\ RecordedExist
<1>1. Cardinality(running) \in {0, 1}
  <2>1. CASE running = {}
    BY <2>1, FS_EmptySet
  <2>2. CASE running # {}
    BY <2>2, FS_Singleton DEF ServerInv, RunningTracked
  <2> QED
    BY <2>1, <2>2
<1> QED
  BY <1>1 DEF ServerInv, RecordedNewest, OneAtATime, RecordedExist

\* A new backup satisfies it.
LEMMA InitServer ==
    ASSUME Init
    PROVE  ServerInv
BY DEF Init, ServerInv, RunningTracked, NamesInOrder, RecordedNewest

LEMMA ServerInvariance ==
    ASSUME Undisturbed
    PROVE  Spec => []ServerInv
<1>1. Init => ServerInv
  BY InitServer
<1>2. BackupInv /\ ServerInv /\ [Next]_vars => ServerInv'
  BY NextServer
<1> QED
  BY <1>1, <1>2, BackupInvariance, PTL DEF Spec

\* backup.go:25-26: the server is never asked for a second snapshot while it makes one,
\* though calls fail, snapshots are lost, the cluster is missing and users edit.
THEOREM SnapshotsOneByOne ==
    ASSUME Undisturbed
    PROVE  Spec => []OneAtATime
<1>1. ServerInv => OneAtATime
  BY ServerProperties
<1> QED
  BY <1>1, ServerInvariance, PTL

\* qdrantbackup_types.go and backup.go:88-113: a snapshot that the status names is on
\* the disk of its peer, for every retention: prune keeps what the generation made.
THEOREM RecordedOnesExist ==
    ASSUME Undisturbed
    PROVE  Spec => []RecordedExist
<1>1. ServerInv => RecordedExist
  BY ServerProperties
<1> QED
  BY <1>1, ServerInvariance, PTL

(***************************************************************************)
(* No finished generation is thrown away.  It needs no pass to be refused: *)
(* a refusal overwrites the phase from which justFinished is read.         *)
(***************************************************************************)
NeverRefused == "clusterMissing" \notin Faults /\ "invalid" \notin Schedules

\* While a snapshot is being made the phase says so, and a finished generation that is
\* not yet recorded can be told from its phase.
Kept(st, rec, plan) ==
    /\ st.active # NoActive => st.phase = "Creating"
    /\ ~ rec /\ st.snapshots # {} /\ st.active = NoActive /\ st.pending = {} =>
           st.phase = "Creating" \/ Jobs(st.snapshots) # plan

KeptInv == Kept(status, recorded, planned)

\* A commit that fails changes nothing.
LEMMA KeptCommit ==
    ASSUME KeptInv, NEW w, NEW n, Kept(w, recorded, planned), Commit(w, n)
    PROVE  KeptInv'
BY DEF KeptInv, Commit, Committed, history

LEMMA NextKept ==
    ASSUME BackupInv, KeptInv, NeverRefused, [Next]_vars
    PROVE  KeptInv'
<1>0. status \in Status /\ GoodStatus(status, cronDue, planned)
  BY DEF BackupInv, TypeOK
<1>1. ~ Refuse
  BY DEF Refuse, NeverRefused, BackupInv, TypeOK
<1>2. CASE Settle
  <2>1. status.active # NoActive /\ status.phase = "Creating"
    BY <1>2 DEF Settle, KeptInv, Kept
  <2>2. ASSUME NEW r
        PROVE  Kept([status EXCEPT !.snapshots = @ \cup {r}, !.active = NoActive],
                    recorded, planned)
    BY <1>0, <2>1 DEF Kept, Status
  <2>3. Kept([status EXCEPT !.phase = "Creating"], recorded, planned)
    BY <1>0 DEF Kept, Status
  <2>4. Kept(GiveUp, recorded, planned)
    <3>1. GiveUp.active = NoActive /\ GiveUp.snapshots = status.snapshots
      BY <1>0 DEF GiveUp, Degrade, Status
    <3>2. /\ status.active.job \in planned
          /\ status.active.job \notin Jobs(status.snapshots)
      BY <1>0, <2>1 DEF GoodStatus, InProgress, ActiveJobs
    <3> QED
      BY <3>1, <3>2 DEF Kept
  <2>5. \/ \E r : Commit([status EXCEPT !.snapshots = @ \cup {r}, !.active = NoActive], 0)
        \/ Commit([status EXCEPT !.phase = "Creating"], 0)
        \/ Commit(GiveUp, 0)
    BY <1>2 DEF Settle
  <2> QED
    BY <2>2, <2>3, <2>4, <2>5, KeptCommit
<1>3. CASE Issue
  <2> DEFINE job == First(status.pending)
             failed == [Degrade(status) EXCEPT !.pending = {}]
             act == [job |-> job, known |-> snaps[job]]
             issued == [status EXCEPT !.active = act,
                                      !.pending = @ \ {job}, !.phase = "Creating"]
  <2>1. status.active = NoActive /\ status.pending # {}
    BY <1>3 DEF Issue
  <2>2. Kept(failed, recorded, planned)
    <3>1. failed.active = NoActive /\ failed.snapshots = status.snapshots
      BY <1>0, <2>1 DEF Degrade, Status
    <3>2. Jobs(status.snapshots) # planned
      BY <1>0, <2>1 DEF GoodStatus, InProgress
    <3> HIDE DEF failed
    <3> QED
      BY <3>1, <3>2 DEF Kept
  <2>3. Kept(issued, recorded, planned)
    <3>1. issued.active = act /\ issued.phase = "Creating"
      BY <1>0 DEF Status
    <3> HIDE DEF issued
    <3> QED
      BY <3>1 DEF Kept
  <2>4. \/ Commit(failed, 1) \/ Requested(failed, 1) \/ Requested(issued, 0)
    BY <1>3 DEF Issue
  <2> HIDE DEF failed, issued
  <2> QED
    BY <2>2, <2>3, <2>4, KeptCommit DEF Requested, Committed, KeptInv, history
<1>4. CASE Close
  <2>1. CASE UNCHANGED <<status, history>>
    BY <2>1 DEF KeptInv, history
  <2>2. CASE /\ Committed([status EXCEPT !.phase = "Ready", !.degraded = FALSE,
                                         !.successes = @ + 1])
             /\ recorded' = TRUE
    <3>1. status'.active = NoActive
      BY <1>0, <1>4, <2>2 DEF Committed, Close, JustFinished, Status
    <3> QED
      BY <2>2, <3>1 DEF KeptInv, Kept
  <2> QED
    BY <1>4, <2>1, <2>2 DEF Close
<1>5. ASSUME NEW w, w.active = status.active, w.snapshots = status.snapshots,
             w.pending = status.pending, IdlePass, ~ JustFinished
      PROVE  Kept(w, recorded, planned)
  BY <1>5 DEF Kept, KeptInv, IdlePass, JustFinished
<1>6. CASE Open
  <2>1. CASE Commit(Degrade(status), 1)
    <3>1. /\ Degrade(status).active = status.active
          /\ Degrade(status).snapshots = status.snapshots
          /\ Degrade(status).pending = status.pending
      BY <1>0 DEF Degrade, Status
    <3> QED
      BY <1>5, <1>6, <2>1, <3>1, KeptCommit DEF Open
  <2>2. ASSUME NEW c \in Listings,
               Committed([status EXCEPT !.snapshots = {}, !.phase = "Creating",
                                        !.pending = PlanGeneration(c)])
        PROVE  KeptInv'
    <3>1. status'.snapshots = {} /\ status'.phase = "Creating"
      BY <1>0, <2>2 DEF Committed, Status
    <3> QED
      BY <3>1 DEF KeptInv, Kept
  <2>3. CASE /\ Committed([status EXCEPT !.phase = "Ready", !.successes = @ + 1])
             /\ UNCHANGED history
    <3>1. /\ status'.active = status.active /\ status'.snapshots = status.snapshots
          /\ status'.pending = status.pending
      BY <1>0, <2>3 DEF Committed, Status
    <3> QED
      BY <1>5, <1>6, <2>3, <3>1 DEF Open, KeptInv, history
  <2> QED
    BY <1>6, <2>1, <2>2, <2>3 DEF Open
<1>7. CASE Rest
  <2> DEFINE w == [status EXCEPT !.phase = IF status.successes = 0 THEN "Idle" ELSE "Ready"]
  <2>1. /\ w.active = status.active /\ w.snapshots = status.snapshots
        /\ w.pending = status.pending /\ Commit(w, 0)
    BY <1>0, <1>7 DEF Rest, Status
  <2> HIDE DEF w
  <2> QED
    BY <1>5, <1>7, <2>1, KeptCommit DEF Rest
<1>8. CASE \/ \E s \in running : FinishSnapshot(s) \/ LoseSnapshot(s)
           \/ \E j \in Job : ForeignSnapshot(j)
           \/ DeadlinePasses \/ CronTick
           \/ \E schedule \in Schedules, suspend \in BOOLEAN : Edit(schedule, suspend)
           \/ UNCHANGED vars
  <2>1. UNCHANGED <<status, planned, recorded>>
    BY <1>8 DEF FinishSnapshot, LoseSnapshot, ForeignSnapshot, DeadlinePasses, CronTick, Edit,
           history, vars
  <2> QED
    BY <2>1 DEF KeptInv
<1> QED
  BY <1>1, <1>2, <1>3, <1>4, <1>6, <1>7, <1>8 DEF Next, Reconcile

\* Only the opening of a generation clears the recorded snapshots.
LEMMA ClearedByOpen ==
    ASSUME BackupInv, [Next]_vars, status.snapshots # {}, status'.snapshots = {}
    PROVE  Open
<1>0. status \in Status
  BY DEF BackupInv, TypeOK
<1>1. CASE Refuse \/ Rest
  BY <1>0, <1>1 DEF Refuse, Rest, Commit, Committed, Degrade, Status
<1>2. CASE Settle
  <2>1. ASSUME NEW r
        PROVE  [status EXCEPT !.snapshots = @ \cup {r}, !.active = NoActive].snapshots # {}
    BY <1>0 DEF Status
  <2>2. /\ [status EXCEPT !.phase = "Creating"].snapshots = status.snapshots
        /\ GiveUp.snapshots = status.snapshots
    BY <1>0 DEF GiveUp, Degrade, Status
  <2>3. \/ \E r : Commit([status EXCEPT !.snapshots = @ \cup {r}, !.active = NoActive], 0)
        \/ Commit([status EXCEPT !.phase = "Creating"], 0)
        \/ Commit(GiveUp, 0)
    BY <1>2 DEF Settle
  <2> QED
    BY <2>1, <2>2, <2>3 DEF Commit, Committed
<1>3. CASE Issue
  BY <1>0, <1>3 DEF Issue, Commit, Requested, Committed, Degrade, Status
<1>4. CASE Close
  BY <1>0, <1>4 DEF Close, Committed, Status
<1>5. CASE \/ \E s \in running : FinishSnapshot(s) \/ LoseSnapshot(s)
           \/ \E j \in Job : ForeignSnapshot(j)
           \/ DeadlinePasses \/ CronTick
           \/ \E schedule \in Schedules, suspend \in BOOLEAN : Edit(schedule, suspend)
           \/ UNCHANGED vars
  BY <1>5 DEF FinishSnapshot, LoseSnapshot, ForeignSnapshot, DeadlinePasses, CronTick, Edit, vars
<1> QED
  BY <1>1, <1>2, <1>3, <1>4, <1>5 DEF Next, Reconcile

LEMMA InitKept == Init => KeptInv
<1> SUFFICES ASSUME Init PROVE KeptInv
  OBVIOUS
<1>1. status.active = NoActive /\ status.snapshots = {}
  BY DEF Init
<1> QED
  BY <1>1 DEF KeptInv, Kept

\* What the opening of a generation clears was recorded, or was not complete.
LEMMA ClearedWhenDone ==
    ASSUME BackupInv, KeptInv, [Next]_vars, status.snapshots # {}, status'.snapshots = {},
           ~ recorded
    PROVE  {s.job : s \in status.snapshots} # planned
<1>1. Open
  BY ClearedByOpen
<1>2. status.active = NoActive /\ status.pending = {} /\ status.phase # "Creating"
  BY <1>1 DEF Open, IdlePass, JustFinished
<1> QED
  BY <1>2 DEF KeptInv, Kept, Jobs

\* qdrantbackup_controller.go:175: a generation whose snapshots are all there is closed
\* before the next one is opened, though calls and updates fail, answers and snapshots
\* are lost or late, others make snapshots too, and the backup is suspended.
THEOREM GenerationsNotWasted ==
    ASSUME NeverRefused
    PROVE  Spec => NothingWasted
<1>1. BackupInv /\ KeptInv /\ [Next]_vars => KeptInv'
  BY NextKept
<1>2. ASSUME BackupInv, KeptInv, [Next]_vars
      PROVE  [status.snapshots # {} /\ status'.snapshots = {} =>
                 recorded \/ {s.job : s \in status.snapshots} # planned]_vars
  BY <1>2, ClearedWhenDone
<1> QED
  BY <1>1, <1>2, InitKept, BackupInvariance, PTL DEF Spec, NothingWasted
=============================================================================
