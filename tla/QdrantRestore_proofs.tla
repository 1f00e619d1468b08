------------------------ MODULE QdrantRestore_proofs ------------------------
(***************************************************************************)
(* Proofs about QdrantRestore beside the backup it reads from, for every   *)
(* listing of collections, number of peers, retention and bound.  What is  *)
(* proved of QdrantBackup alone carries over: a restore spends failures    *)
(* and touches nothing else of the backup.                                 *)
(***************************************************************************)
EXTENDS QdrantRestore, QdrantBackup_proofs

(***************************************************************************)
(* The backup beside a restore.                                            *)
(***************************************************************************)

\* A pass of the restore controller charges the budget and leaves the backup alone.
LEMMA RestoreQuiet ==
    ASSUME TypeOK, CreateRestore \/ RestoreReconcile
    PROVE  /\ UNCHANGED <<spec, status, cronDue, expired, running, snaps, planned, recorded>>
           /\ budget' \in Budget /\ budget'.made = budget.made
<1>1. CASE CreateRestore
  BY <1>1 DEF CreateRestore, vars, server, history, TypeOK
<1>2. CASE RestoreReconcile
  <2>1. \E n \in Nat : Spend(n)
    BY <1>2 DEF RestoreReconcile, RestoreRefused, RestoreNextSource, RestoreComplete,
           CommitRestore
  <2>2. budget' \in Budget /\ budget'.made = budget.made
    BY <2>1, SpendType DEF TypeOK
  <2> QED
    BY <1>2, <2>2 DEF RestoreReconcile, RestoreRefused, RestoreNextSource, RestoreComplete,
           backupOnly, server, history
<1> QED
  BY <1>1, <1>2

\* The invariants of the backup survive every step of the two controllers.
LEMMA RestoreNextBackup ==
    ASSUME BackupInv, [RestoreNext]_restoreVars
    PROVE  BackupInv' /\ (Undisturbed /\ ServerInv => ServerInv')
<1>1. CASE [Next]_vars
  BY <1>1, NextBackupInv, NextServer
<1>2. CASE CreateRestore \/ RestoreReconcile
  <2>1. /\ UNCHANGED <<spec, status, cronDue, expired, running, snaps, planned, recorded>>
        /\ budget' \in Budget /\ budget'.made = budget.made
    BY <1>2, RestoreQuiet DEF BackupInv
  <2>2. BackupInv'
    BY <2>1 DEF BackupInv, TypeOK
  <2>3. ServerInv => ServerInv'
    BY <2>1, QuietServer
  <2> QED
    BY <2>2, <2>3
<1> QED
  BY <1>1, <1>2 DEF RestoreNext, restoreVars

LEMMA RestoreBackupInvariance == RestoreSpec => []BackupInv
<1>1. RestoreInit => BackupInv
  BY InitBackupInv DEF RestoreInit
<1>2. BackupInv /\ [RestoreNext]_restoreVars => BackupInv'
  BY RestoreNextBackup
<1> QED
  BY <1>1, <1>2, PTL DEF RestoreSpec

\* backup.go:25-26 and :88-113: beside a restore, too, one snapshot is made at a time
\* and the snapshots in the status of the backup exist.
THEOREM BackupBesideRestore ==
    ASSUME Undisturbed
    PROVE  RestoreSpec => [](OneAtATime /\ RecordedExist)
<1>1. RestoreInit => ServerInv
  BY InitServer DEF RestoreInit
<1>2. BackupInv /\ ServerInv /\ [RestoreNext]_restoreVars => ServerInv'
  BY RestoreNextBackup
<1>3. ServerInv => OneAtATime /\ RecordedExist
  BY ServerProperties
<1> QED
  BY <1>1, <1>2, <1>3, RestoreBackupInvariance, PTL DEF RestoreSpec

\* qdrantbackup_controller.go:175: beside a restore, too, a generation whose snapshots
\* are all there is closed before the next one is opened, so that a restore never
\* finds the record of a complete generation thrown away.
THEOREM NotWastedBesideRestore ==
    ASSUME NeverRefused
    PROVE  RestoreSpec => NothingWasted
<1> DEFINE A == status.snapshots # {} /\ status'.snapshots = {} =>
                    recorded \/ {s.job : s \in status.snapshots} # planned
<1>1. RestoreInit => KeptInv
  BY InitKept DEF RestoreInit
<1>2. ASSUME BackupInv, KeptInv, [RestoreNext]_restoreVars
      PROVE  KeptInv' /\ A
  <2>1. CASE [Next]_vars
    BY <1>2, <2>1, NextKept, ClearedWhenDone
  <2>2. CASE CreateRestore \/ RestoreReconcile
    <3>1. UNCHANGED <<status, planned, recorded>>
      BY <1>2, <2>2, RestoreQuiet DEF BackupInv
    <3> QED
      BY <1>2, <3>1 DEF KeptInv
  <2> QED
    BY <1>2, <2>1, <2>2 DEF RestoreNext, restoreVars
<1>3. BackupInv /\ KeptInv /\ [RestoreNext]_restoreVars => KeptInv'
  BY <1>2
<1>4. BackupInv /\ KeptInv /\ [RestoreNext]_restoreVars => [A]_vars
  BY <1>2
<1> QED
  BY <1>1, <1>3, <1>4, RestoreBackupInvariance, PTL DEF RestoreSpec, NothingWasted

(***************************************************************************)
(* The sources of a restore.                                               *)
(***************************************************************************)

\* The sources that remain are snapshots of the collection, and the next one is
\* among them.
LEMMA RemainingType ==
    ASSUME TypeOK, RestoreTypeOK
    PROVE  /\ Remaining \subseteq RestoreRef
           /\ Remaining # {} => NextSource \in Remaining /\ NextSource.job \in Job
<1>1. ResolveSources \subseteq RestoreRef
  BY RestoreAssumption DEF ResolveSources, RestoreRef, TypeOK, Status
<1>2. Remaining \subseteq RestoreRef
  BY <1>1 DEF Remaining, RestoreTypeOK
<1>3. ASSUME Remaining # {}
      PROVE  NextSource \in Remaining /\ NextSource.job \in Job
  <2> DEFINE jobs == {r.job : r \in Remaining}
  <2>1. jobs \in SUBSET Job /\ jobs # {}
    BY <1>2, <1>3 DEF RestoreRef, SnapshotRef
  <2>2. First(jobs) \in jobs
    <3> HIDE DEF jobs
    <3> QED
      BY <2>1, FirstPending
  <2>3. \E s \in Remaining : s.job = First(jobs)
    BY <2>2
  <2>4. NextSource \in Remaining
    BY <2>3 DEF NextSource
  <2> QED
    BY <1>2, <2>4 DEF RestoreRef, SnapshotRef
<1> QED
  BY <1>2, <1>3

\* CommitRestore leaves the resource as written, or as it was.
LEMMA CommitRestoreChoice ==
    ASSUME NEW w, NEW n, CommitRestore(w, n)
    PROVE  restore' \in {restore, w} /\ ("updateFails" \notin Faults => restore' = w)
BY DEF CommitRestore

\* The fields that a pass over the next source writes.
LEMMA NextSourceWrites ==
    ASSUME RestoreTypeOK
    PROVE  /\ AfterFailure.pending = Remaining /\ AfterFailure.restored = restore.restored
           /\ AfterFailure.done = restore.done /\ AfterFailure.created = restore.created
           /\ AfterRecovery.pending = Remaining \ {NextSource}
           /\ AfterRecovery.restored = restore.restored \cup {NextSource}
           /\ AfterRecovery.done = restore.done /\ AfterRecovery.created = restore.created
BY DEF AfterFailure, AfterRecovery, DegradeRestore, RestoreTypeOK

RestoreType ==
    [created : BOOLEAN, pending : SUBSET RestoreRef, restored : SUBSET RestoreRef,
     done : BOOLEAN, degraded : BOOLEAN]

LEMMA NextRestoreType ==
    ASSUME TypeOK, RestoreTypeOK, [RestoreNext]_restoreVars
    PROVE  RestoreTypeOK'
<1>0. restore \in RestoreType /\ recoveries \in [Job -> Nat]
  BY DEF RestoreTypeOK, RestoreType
<1>1. CASE UNCHANGED <<restore, recoveries>>
  BY <1>1 DEF RestoreTypeOK
<1>2. ASSUME restore' \in RestoreType, recoveries' \in [Job -> Nat]
      PROVE  RestoreTypeOK'
  BY <1>2 DEF RestoreTypeOK, RestoreType
<1>3. CASE CreateRestore
  BY <1>0, <1>2, <1>3 DEF CreateRestore, RestoreType
<1>4. CASE RestoreRefused \/ RestoreComplete
  <2>1. DegradeRestore(restore) \in RestoreType /\ [restore EXCEPT !.done = TRUE] \in RestoreType
    BY <1>0 DEF DegradeRestore, RestoreType
  <2> QED
    BY <1>0, <1>2, <1>4, <2>1, CommitRestoreChoice DEF RestoreRefused, RestoreComplete
<1>5. CASE RestoreNextSource
  <2>1. Remaining \subseteq RestoreRef /\ NextSource \in Remaining /\ NextSource.job \in Job
    BY <1>5, RemainingType DEF RestoreNextSource
  <2>2. AfterFailure \in RestoreType /\ AfterRecovery \in RestoreType
    BY <1>0, <2>1 DEF AfterFailure, AfterRecovery, DegradeRestore, RestoreType
  <2>3. restore' \in RestoreType
    BY <1>0, <1>5, <2>2, CommitRestoreChoice DEF RestoreNextSource
  <2>4. recoveries' \in [Job -> Nat]
    BY <1>0, <1>5, <2>1 DEF RestoreNextSource
  <2> QED
    BY <1>2, <2>3, <2>4
<1> QED
  BY <1>1, <1>3, <1>4, <1>5 DEF RestoreNext, RestoreReconcile, restoreVars

\* qdrantrestore_controller.go:38-41: what is pending and what is restored are snapshots
\* of the collection to be restored, whichever faults happen.
THEOREM RestoreTypeCorrect == RestoreSpec => []RestoreTypeOK
<1>1. RestoreInit => RestoreTypeOK
  BY DEF RestoreInit, RestoreTypeOK
<1>2. BackupInv /\ RestoreTypeOK /\ [RestoreNext]_restoreVars => RestoreTypeOK'
  BY NextRestoreType DEF BackupInv
<1> QED
  BY <1>1, <1>2, RestoreBackupInvariance, PTL DEF RestoreSpec

(***************************************************************************)
(* Each peer is restored once.  It needs a recovery that took effect to be *)
(* reported and committed: otherwise the controller makes it again.        *)
(***************************************************************************)
OneEach(refs) == \A s, t \in refs : s.job = t.job => s = t

Reported == Faults \cap {"responseLost", "updateFails"} = {}

\* What is restored is no longer pending, and was recovered exactly once.
OnceInv ==
    /\ OneEach(restore.pending)
    /\ Jobs(restore.pending) \cap Jobs(restore.restored) = {}
    /\ \A j \in Job : recoveries[j] = IF j \in Jobs(restore.restored) THEN 1 ELSE 0

\* The sources that remain have distinct peers, none of them restored: a backup
\* records one snapshot for each pair.
LEMMA RemainingOnce ==
    ASSUME BackupInv, OnceInv, OneEach(Sources)
    PROVE  OneEach(Remaining) /\ Jobs(Remaining) \cap Jobs(restore.restored) = {}
<1>1. OneEach(ResolveSources)
  BY DEF ResolveSources, OneEach, BackupInv, GoodStatus
<1>2. Jobs({}) = {}
  BY DEF Jobs
<1> QED
  BY <1>1, <1>2 DEF Remaining, OnceInv

LEMMA NextOnce ==
    ASSUME BackupInv, RestoreTypeOK, OnceInv, OneEach(Sources), Reported,
           [RestoreNext]_restoreVars
    PROVE  OnceInv'
<1>1. ASSUME UNCHANGED recoveries, restore'.pending = restore.pending,
             restore'.restored = restore.restored
      PROVE  OnceInv'
  BY <1>1 DEF OnceInv
<1>2. CASE UNCHANGED <<restore, recoveries>>
  BY <1>1, <1>2
<1>3. CASE CreateRestore
  BY <1>1, <1>3 DEF CreateRestore, RestoreTypeOK
<1>4. CASE RestoreRefused \/ RestoreComplete
  <2>1. /\ DegradeRestore(restore).pending = restore.pending
        /\ DegradeRestore(restore).restored = restore.restored
        /\ [restore EXCEPT !.done = TRUE].pending = restore.pending
        /\ [restore EXCEPT !.done = TRUE].restored = restore.restored
    BY DEF DegradeRestore, RestoreTypeOK
  <2> QED
    BY <1>1, <1>4, <2>1, CommitRestoreChoice DEF RestoreRefused, RestoreComplete
<1>5. CASE RestoreNextSource
  <2> DEFINE s == NextSource
  <2>1. s \in Remaining /\ s.job \in Job
    BY <1>5, RemainingType DEF RestoreNextSource, BackupInv
  <2>2. OneEach(Remaining) /\ Jobs(Remaining) \cap Jobs(restore.restored) = {}
    BY RemainingOnce
  <2>3. \/ restore' = AfterFailure /\ UNCHANGED recoveries
        \/ restore' = AfterRecovery /\ recoveries' = [recoveries EXCEPT ![s.job] = @ + 1]
    BY <1>5, CommitRestoreChoice DEF RestoreNextSource, Reported
  <2>4. CASE restore' = AfterFailure /\ UNCHANGED recoveries
    BY <2>2, <2>4, NextSourceWrites DEF OnceInv
  <2>5. CASE restore' = AfterRecovery /\ recoveries' = [recoveries EXCEPT ![s.job] = @ + 1]
    <3>1. /\ restore'.pending = Remaining \ {s}
          /\ restore'.restored = restore.restored \cup {s}
      BY <2>5, NextSourceWrites
    <3> HIDE DEF s
    <3>2. /\ Jobs(restore.restored \cup {s}) = Jobs(restore.restored) \cup {s.job}
          /\ Jobs(Remaining \ {s}) \subseteq Jobs(Remaining)
          /\ s.job \in Jobs(Remaining)
      BY <2>1 DEF Jobs
    <3>3. s.job \notin Jobs(Remaining \ {s})
      BY <2>1, <2>2 DEF OneEach, Jobs
    <3>4. OneEach(Remaining \ {s})
      BY <2>2 DEF OneEach
    <3>5. ASSUME NEW j \in Job
          PROVE  recoveries'[j] = IF j \in Jobs(restore.restored) \cup {s.job} THEN 1 ELSE 0
      <4>1. recoveries'[j] = IF j = s.job THEN recoveries[j] + 1 ELSE recoveries[j]
        BY <2>1, <2>5 DEF RestoreTypeOK
      <4>2. s.job \notin Jobs(restore.restored)
        BY <2>2, <3>2
      <4> QED
        BY <4>1, <4>2 DEF OnceInv
    <3> QED
      BY <2>2, <3>1, <3>2, <3>3, <3>4, <3>5 DEF OnceInv
  <2> QED
    BY <2>3, <2>4, <2>5
<1> QED
  BY <1>2, <1>3, <1>4, <1>5 DEF RestoreNext, RestoreReconcile, restoreVars

\* qdrantrestore_controller.go:38-41: no peer is restored twice, however many passes
\* are made and calls fail, whatever the backup does meanwhile, and whether the sources
\* are listed, one for each peer, or read from the backup.
THEOREM EachPeerRestoredOnce ==
    ASSUME Reported, OneEach(Sources)
    PROVE  RestoreSpec => []RestoredOnce
<1>1. ASSUME RestoreInit
      PROVE  OnceInv
  <2>1. restore.pending = {} /\ restore.restored = {} /\ recoveries = [j \in Job |-> 0]
    BY <1>1 DEF RestoreInit
  <2>2. Jobs({}) = {}
    BY DEF Jobs
  <2> QED
    BY <2>1, <2>2 DEF OnceInv, OneEach
<1>2. BackupInv /\ RestoreTypeOK /\ OnceInv /\ [RestoreNext]_restoreVars => OnceInv'
  BY NextOnce
<1>3. OnceInv => RestoredOnce
  BY DEF OnceInv, RestoredOnce
<1> QED
  BY <1>1, <1>2, <1>3, RestoreBackupInvariance, RestoreTypeCorrect, PTL DEF RestoreSpec

(***************************************************************************)
(* A whole generation is restored.  The restore is made for a backup that  *)
(* has been recorded, and that backup is made once, so that the record the *)
(* sources are read from is that of a finished generation.                 *)
(***************************************************************************)
RestoreJobs == {j \in Job : j[1] = RestoreCollection}

MadeOnce == ~ RestoreEarly /\ "cron" \notin Schedules

\* The record of a one-shot backup is final, and it is one of a whole generation: one
\* that has the collection to be restored on every peer, or, when it was not listed,
\* on none.
FinalInv ==
    /\ RestoreJobs \cap planned \in {{}, RestoreJobs}
    /\ recorded =>
          /\ status.successes >= 1 /\ ~ InProgress(status)
          /\ Jobs(status.snapshots) = planned /\ planned # {}

\* A pass that only changes the phase of a finished backup leaves its record.
LEMMA FinalCommit ==
    ASSUME FinalInv, NEW w, NEW n, Commit(w, n), w.active = status.active,
           w.pending = status.pending, w.phase # "Creating",
           w.snapshots = status.snapshots, w.successes = status.successes
    PROVE  FinalInv'
<1>1. status' \in {status, w} /\ UNCHANGED <<planned, recorded>>
  BY DEF Commit, Committed, history
<1> QED
  BY <1>1 DEF FinalInv, InProgress

\* A finished one-shot backup is neither carried on nor begun again.
LEMMA FinishedRests ==
    ASSUME BackupInv, FinalInv, MadeOnce, recorded
    PROVE  ~ Settle /\ ~ Issue /\ ~ Close /\ ~ Open
<1>1. status \in Status /\ spec.schedule # "cron"
  BY DEF BackupInv, TypeOK, MadeOnce
<1>2. /\ status.active = NoActive /\ status.pending = {} /\ status.phase # "Creating"
      /\ status.successes # 0
  <2>1. status.successes >= 1 /\ status.successes \in 0..MaxGenerations
    BY <1>1 DEF FinalInv, Status
  <2> QED
    BY <2>1 DEF FinalInv, InProgress
<1> QED
  BY <1>1, <1>2 DEF Settle, Issue, Close, JustFinished, Open, DueNow, OneShotDue

\* Around the passes, and in a pass that leaves a finished backup alone, nothing of
\* the record changes.
LEMMA FinalRecorded ==
    ASSUME BackupInv, FinalInv, MadeOnce, recorded, [Next]_vars
    PROVE  FinalInv'
<1>0. status \in Status
  BY DEF BackupInv, TypeOK
<1>2. ~ Settle /\ ~ Issue /\ ~ Close /\ ~ Open
  BY FinishedRests
<1>3. CASE Refuse
  <2>1. /\ Degrade(status).active = status.active /\ Degrade(status).pending = status.pending
        /\ Degrade(status).phase # "Creating" /\ Degrade(status).snapshots = status.snapshots
        /\ Degrade(status).successes = status.successes
    BY <1>0 DEF Degrade, Status
  <2> QED
    BY <1>3, <2>1, FinalCommit DEF Refuse
<1>4. CASE Rest
  <2> DEFINE w == [status EXCEPT !.phase = IF status.successes = 0 THEN "Idle" ELSE "Ready"]
  <2>1. /\ w.active = status.active /\ w.pending = status.pending
        /\ w.phase # "Creating" /\ w.snapshots = status.snapshots
        /\ w.successes = status.successes /\ Commit(w, 0)
    BY <1>0, <1>4 DEF Rest, Status
  <2> HIDE DEF w
  <2> QED
    BY <2>1, FinalCommit
<1>5. CASE \/ \E s \in running : FinishSnapshot(s) \/ LoseSnapshot(s)
           \/ \E j \in Job : ForeignSnapshot(j)
           \/ DeadlinePasses \/ CronTick
           \/ \E schedule \in Schedules, suspend \in BOOLEAN : Edit(schedule, suspend)
           \/ UNCHANGED vars
  <2>1. UNCHANGED <<status, planned, recorded>>
    BY <1>5 DEF FinishSnapshot, LoseSnapshot, ForeignSnapshot, DeadlinePasses, CronTick, Edit,
           history, vars
  <2> QED
    BY <2>1 DEF FinalInv
<1> QED
  BY <1>2, <1>3, <1>4, <1>5 DEF Next, Reconcile

\* A plan contains the collection to be restored on every peer, if it was listed.
LEMMA PlanWhole ==
    ASSUME NEW c \in Listings
    PROVE  RestoreJobs \cap PlanGeneration(c) \in {{}, RestoreJobs}
<1>1. ASSUME NEW j \in RestoreJobs
      PROVE  j \in PlanGeneration(c) <=> RestoreCollection \in c
  <2>1. j = <<j[1], j[2]>> /\ j[1] = RestoreCollection /\ j[2] \in 0..(Replicas - 1)
    BY DEF RestoreJobs, Job
  <2> QED
    BY <2>1 DEF PlanGeneration
<1> QED
  BY <1>1

LEMMA NextFinal ==
    ASSUME BackupInv, FinalInv, MadeOnce, [Next]_vars
    PROVE  FinalInv'
<1>0. status \in Status
  BY DEF BackupInv, TypeOK
<1>1. CASE recorded
  BY <1>1, FinalRecorded
<1>2. CASE ~ recorded /\ recorded'
  <2>1. Close
    BY <1>2, RecordedByClose
  <2>2. /\ status.active = NoActive /\ status.pending = {} /\ InProgress(status)
        /\ status.snapshots # {}
    BY <2>1 DEF Close, JustFinished, InProgress
  <2>3. Jobs(status.snapshots) = planned /\ planned # {}
    <3>1. Jobs(status.snapshots) = planned
      BY <2>2 DEF BackupInv, GoodStatus, ActiveJobs
    <3> QED
      BY <2>2, <3>1 DEF Jobs
  <2>4. /\ status' = [status EXCEPT !.phase = "Ready", !.degraded = FALSE, !.successes = @ + 1]
        /\ UNCHANGED planned
    BY <1>2, <2>1 DEF Close, Committed, history
  <2>5. /\ status'.active = NoActive /\ status'.pending = {} /\ status'.phase = "Ready"
        /\ status'.snapshots = status.snapshots
    BY <1>0, <2>2, <2>4 DEF Status
  <2>6. status'.successes >= 1
    <3>1. status'.successes = status.successes + 1 /\ status.successes \in 0..MaxGenerations
      BY <1>0, <2>4 DEF Status
    <3> QED
      BY <3>1
  <2> QED
    BY <2>3, <2>4, <2>5, <2>6 DEF FinalInv, InProgress
<1>3. CASE ~ recorded /\ ~ recorded'
  <2>1. ASSUME UNCHANGED planned
        PROVE  FinalInv'
    BY <1>3, <2>1 DEF FinalInv
  <2>2. CASE Open
    <3>1. \/ UNCHANGED planned
          \/ \E c \in Listings : c # {} /\ planned' = PlanGeneration(c)
      BY <2>2 DEF Open, Commit, history
    <3> QED
      BY <1>3, <2>1, <3>1, PlanWhole DEF FinalInv
  <2>3. CASE Refuse \/ Settle \/ Issue \/ Close \/ Rest
    BY <2>1, <2>3 DEF Refuse, Settle, Issue, Close, Rest, Commit, Requested, history
  <2>4. CASE \/ \E s \in running : FinishSnapshot(s) \/ LoseSnapshot(s)
             \/ \E j \in Job : ForeignSnapshot(j)
             \/ DeadlinePasses \/ CronTick
             \/ \E schedule \in Schedules, suspend \in BOOLEAN : Edit(schedule, suspend)
             \/ UNCHANGED vars
    BY <2>1, <2>4 DEF FinishSnapshot, LoseSnapshot, ForeignSnapshot, DeadlinePasses, CronTick,
           Edit, history, vars
  <2> QED
    BY <2>2, <2>3, <2>4 DEF Next, Reconcile
<1> QED
  BY <1>1, <1>2, <1>3

\* A restore that has begun to read its sources from the backup is made for every peer
\* of the collection, and is done when nothing is pending.
WholeInv ==
    /\ restore.created => recorded
    /\ Sources = {} /\ restore.pending \cup restore.restored # {} =>
           Jobs(restore.pending \cup restore.restored) = RestoreJobs
    /\ restore.done => restore.pending = {} /\ restore.restored # {}

\* What is read from the record of a whole generation.
LEMMA ResolvedWhole ==
    ASSUME BackupInv, FinalInv, recorded, Sources = {}, ResolveSources # {}
    PROVE  Jobs(ResolveSources) = RestoreJobs
<1>1. ResolveSources = {s \in status.snapshots : s.job[1] = RestoreCollection}
  BY DEF ResolveSources
<1>2. Jobs(status.snapshots) = planned /\ planned \subseteq Job
  BY DEF FinalInv, BackupInv, TypeOK
<1>3. Jobs(ResolveSources) = {j \in Jobs(status.snapshots) : j[1] = RestoreCollection}
  BY <1>1 DEF Jobs
<1>4. Jobs(ResolveSources) = RestoreJobs \cap planned /\ Jobs(ResolveSources) # {}
  BY <1>2, <1>3 DEF RestoreJobs, Jobs
<1> QED
  BY <1>4 DEF FinalInv

LEMMA NextWhole ==
    ASSUME BackupInv, RestoreTypeOK, FinalInv, WholeInv, MadeOnce, [RestoreNext]_restoreVars
    PROVE  WholeInv'
<1>1. CASE [Next]_vars /\ UNCHANGED <<restore, recoveries>>
  <2>1. recorded => recorded'
    <3>1. CASE Open
      BY <3>1, FinishedRests
    <3>2. CASE Refuse \/ Settle \/ Issue \/ Close \/ Rest
      BY <3>2 DEF Refuse, Settle, Issue, Close, Rest, Commit, Requested, history
    <3>3. CASE \/ \E s \in running : FinishSnapshot(s) \/ LoseSnapshot(s)
               \/ \E j \in Job : ForeignSnapshot(j)
               \/ DeadlinePasses \/ CronTick
               \/ \E schedule \in Schedules, suspend \in BOOLEAN : Edit(schedule, suspend)
               \/ UNCHANGED vars
      BY <3>3 DEF FinishSnapshot, LoseSnapshot, ForeignSnapshot, DeadlinePasses, CronTick,
             Edit, history, vars
    <3> QED
      BY <1>1, <3>1, <3>2, <3>3 DEF Next, Reconcile
  <2> QED
    BY <1>1, <2>1 DEF WholeInv
<1>2. CASE CreateRestore
  <2>1. /\ restore'.pending = restore.pending /\ restore'.restored = restore.restored
        /\ restore'.done = restore.done
    BY <1>2 DEF CreateRestore, RestoreTypeOK
  <2>2. recorded'
    BY <1>2 DEF CreateRestore, MadeOnce, vars, history
  <2> QED
    BY <2>1, <2>2 DEF WholeInv
<1>3. ASSUME RestoreReconcile
      PROVE  UNCHANGED recorded /\ recorded
  BY <1>3 DEF RestoreReconcile, RestoreRefused, RestoreNextSource, RestoreComplete, Restoring,
         backupOnly, history, WholeInv
<1>4. CASE RestoreRefused
  <2> DEFINE w == DegradeRestore(restore)
  <2>1. /\ w.pending = restore.pending /\ w.restored = restore.restored
        /\ w.done = restore.done
    BY DEF DegradeRestore, RestoreTypeOK
  <2>2. restore' \in {restore, w}
    BY <1>4, CommitRestoreChoice DEF RestoreRefused
  <2> HIDE DEF w
  <2> QED
    BY <1>3, <1>4, <2>1, <2>2 DEF WholeInv, RestoreReconcile
<1>5. CASE RestoreComplete
  <2> DEFINE w == [restore EXCEPT !.done = TRUE]
  <2>1. w.pending = restore.pending /\ w.restored = restore.restored
    BY DEF RestoreTypeOK
  <2>2. restore' \in {restore, w}
    BY <1>5, CommitRestoreChoice DEF RestoreComplete
  <2>3. restore.pending = {} /\ restore.restored # {}
    BY <1>5 DEF RestoreComplete, Remaining
  <2> HIDE DEF w
  <2> QED
    BY <1>3, <1>5, <2>1, <2>2, <2>3 DEF WholeInv, RestoreReconcile
<1>6. CASE RestoreNextSource
  <2>1. Remaining # {} /\ ~ restore.done /\ NextSource \in Remaining
    BY <1>6, RemainingType DEF RestoreNextSource, Restoring, BackupInv
  <2>2. restore' \in {restore, AfterFailure, AfterRecovery}
    BY <1>6, CommitRestoreChoice DEF RestoreNextSource
  <2>3. Sources = {} => Jobs(Remaining \cup restore.restored) = RestoreJobs
    <3>1. CASE restore.pending = {} /\ restore.restored = {}
      <4>1. Remaining = ResolveSources /\ Remaining \cup restore.restored = Remaining
        BY <3>1 DEF Remaining
      <4> QED
        BY <1>3, <1>6, <2>1, <4>1, ResolvedWhole DEF RestoreReconcile
    <3>2. CASE ~ (restore.pending = {} /\ restore.restored = {})
      <4>1. Remaining = restore.pending
        BY <3>2 DEF Remaining
      <4> QED
        BY <3>2, <4>1 DEF WholeInv
    <3> QED
      BY <3>1, <3>2
  <2>4. ASSUME restore' # restore
        PROVE  /\ restore'.pending \cup restore'.restored = Remaining \cup restore.restored
               /\ ~ restore'.done
    BY <2>1, <2>2, <2>4, NextSourceWrites
  <2>5. CASE restore' = restore
    BY <1>3, <1>6, <2>5 DEF WholeInv, RestoreReconcile
  <2>6. CASE restore' # restore
    BY <1>3, <1>6, <2>3, <2>4, <2>6 DEF WholeInv, RestoreReconcile
  <2> QED
    BY <2>5, <2>6
<1> QED
  BY <1>1, <1>2, <1>4, <1>5, <1>6 DEF RestoreNext, RestoreReconcile, restoreVars

\* qdrantrestore_types.go:29-30: a restore that was made from the record of a one-shot
\* backup has restored the collection on every peer when it is done, whichever calls,
\* answers and updates are lost and whatever retention has deleted.
THEOREM RestoreIsWhole ==
    ASSUME MadeOnce
    PROVE  RestoreSpec => []RestoreWhole
<1>1. ASSUME RestoreInit
      PROVE  FinalInv /\ WholeInv
  <2>1. planned = {} /\ ~ recorded
    BY <1>1 DEF RestoreInit, Init
  <2>2. restore.pending = {} /\ restore.restored = {} /\ ~ restore.created /\ ~ restore.done
    BY <1>1 DEF RestoreInit
  <2> QED
    BY <2>1, <2>2 DEF FinalInv, WholeInv
<1>2. ASSUME BackupInv, FinalInv, [RestoreNext]_restoreVars
      PROVE  FinalInv'
  <2>1. CASE [Next]_vars
    BY <1>2, <2>1, NextFinal
  <2>2. CASE CreateRestore \/ RestoreReconcile
    BY <1>2, <2>2, RestoreQuiet DEF FinalInv, BackupInv
  <2> QED
    BY <1>2, <2>1, <2>2 DEF RestoreNext, restoreVars
<1>3. BackupInv /\ RestoreTypeOK /\ FinalInv /\ WholeInv /\ [RestoreNext]_restoreVars => WholeInv'
  BY NextWhole
<1>4. ASSUME WholeInv
      PROVE  RestoreWhole
  <2> SUFFICES ASSUME restore.done, Sources = {}
               PROVE  Jobs(restore.restored) = RestoreJobs
    BY DEF RestoreWhole, Jobs, RestoreJobs
  <2>1. restore.pending \cup restore.restored = restore.restored /\ restore.restored # {}
    BY <1>4 DEF WholeInv
  <2> QED
    BY <1>4, <2>1 DEF WholeInv
<1> QED
  BY <1>1, <1>2, <1>3, <1>4, RestoreBackupInvariance, RestoreTypeCorrect, PTL DEF RestoreSpec

=============================================================================
