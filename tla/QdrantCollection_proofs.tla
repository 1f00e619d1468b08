---------------------- MODULE QdrantCollection_proofs ----------------------
(***************************************************************************)
(* Proofs about QdrantCollection for every set of points, page size, set   *)
(* of shard numbers, contents of the server and bound: the alias is kept,  *)
(* and the physical collections behind it implement one logical collection *)
(* (LogicalCollection).  The assumptions on the faults, the edits and the  *)
(* writes, where there are any, are part of each theorem.                  *)
(***************************************************************************)
EXTENDS QdrantCollection, NatChoice

(***************************************************************************)
(* Names, and the status that a pass writes.                               *)
(***************************************************************************)

\* The two names that are no shadow's.
LEMMA BaseName == /\ Base \in Name /\ Base # NoName /\ NoName \in Name
                  /\ Len(Base) = 0 /\ Len(NoName) = 1 /\ NoName[1] = 0
<1>1. Base \in Seq(Nat) /\ Len(Base) = 0
  BY DEF Base
<1>2. NoName \in Seq(Nat)
  BY DEF NoName
<1>3. Len(NoName) = 1 /\ NoName[1] = 0
  BY DEF NoName
<1>4. Base # NoName
  BY <1>1, <1>3
<1> QED
  BY <1>1, <1>2, <1>3, <1>4 DEF Name

\* The name of a shadow is a name of its own, and says where it comes from.
LEMMA ShadowName ==
    ASSUME NEW n \in Name, NEW g \in Nat \ {0}
    PROVE  /\ Append(n, g) \in Name /\ Append(n, g) # n /\ Append(n, g) # NoName
           /\ Len(Append(n, g)) = Len(n) + 1 /\ Len(n) \in Nat
<1>1. n \in Seq(Nat) /\ g \in Nat /\ g # 0 /\ Len(n) \in Nat
  BY DEF Name
<1>2. Append(n, g) \in Seq(Nat) /\ Len(Append(n, g)) = Len(n) + 1
  BY <1>1
<1>3. Append(n, g)[Len(n) + 1] = g
  BY <1>1
<1>4. Append(n, g) # NoName
  <2>1. CASE Len(n) = 0
    BY <1>1, <1>3, <2>1, BaseName
  <2>2. CASE Len(n) # 0
    BY <1>1, <1>2, <2>2, BaseName
  <2> QED
    BY <2>1, <2>2
<1> QED
  BY <1>1, <1>2, <1>4 DEF Name

LEMMA ShadowInjective ==
    ASSUME NEW n \in Name, NEW g \in Nat, NEW h \in Nat, Append(n, g) = Append(n, h)
    PROVE  g = h
<1>1. Append(n, g)[Len(n) + 1] = g /\ Append(n, h)[Len(n) + 1] = h
  BY DEF Name
<1> QED
  BY <1>1

\* physicalName is a name, and never the empty one.
LEMMA PhysicalName ==
    ASSUME status \in Status
    PROVE  Physical \in Name /\ Physical # NoName
BY BaseName DEF Physical, Status

LEMMA ReshardPhase ==
    /\ "None" \notin Phase /\ NoReshard.phase = "None"
    /\ \A r \in Reshard : r.phase \in Phase /\ r # NoReshard
BY DEF Phase, NoReshard, Reshard

LEMMA DegradeFields ==
    ASSUME NEW st \in Status, NEW reason \in Reason
    PROVE  /\ Degrade(st, reason) \in Status
           /\ Degrade(st, reason).active = st.active
           /\ Degrade(st, reason).reshard = st.reshard
BY DEF Degrade, Status

LEMMA SetReadyFields ==
    ASSUME NEW st \in Status
    PROVE  /\ SetReady(st) \in Status
           /\ SetReady(st).active = st.active /\ SetReady(st).reshard = st.reshard
BY DEF SetReady, Status, Reason

\* The workflow moves on to another phase.
LEMMA InPhaseFields ==
    ASSUME NEW st \in Status, st.reshard \in Reshard, NEW p \in Phase
    PROVE  /\ InPhase(p, st) \in Status /\ InPhase(p, st).reshard \in Reshard
           /\ InPhase(p, st).active = st.active
           /\ InPhase(p, st).reshard = [st.reshard EXCEPT !.phase = p]
<1> DEFINE r == [st.reshard EXCEPT !.phase = p]
<1>1. r \in Reshard
  BY DEF Reshard
<1>2. InPhase(p, st) = [st EXCEPT !.reshard = r]
  BY DEF InPhase, Status
<1> HIDE DEF r
<1>3. /\ [st EXCEPT !.reshard = r] \in Status /\ [st EXCEPT !.reshard = r].reshard = r
      /\ [st EXCEPT !.reshard = r].active = st.active
  BY <1>1 DEF Status
<1> QED
  BY <1>1, <1>2, <1>3 DEF r

LEMMA CursorFields ==
    ASSUME NEW st \in Status, st.reshard \in Reshard, NEW c \in Nat
    PROVE  /\ [st EXCEPT !.reshard.cursor = c] \in Status
           /\ [st EXCEPT !.reshard.cursor = c].active = st.active
           /\ [st EXCEPT !.reshard.cursor = c].reshard \in Reshard
           /\ [st EXCEPT !.reshard.cursor = c].reshard = [st.reshard EXCEPT !.cursor = c]
<1> DEFINE r == [st.reshard EXCEPT !.cursor = c]
<1>1. r \in Reshard
  BY DEF Reshard
<1>2. [st EXCEPT !.reshard.cursor = c] = [st EXCEPT !.reshard = r]
  BY DEF Status
<1> HIDE DEF r
<1>3. /\ [st EXCEPT !.reshard = r] \in Status /\ [st EXCEPT !.reshard = r].reshard = r
      /\ [st EXCEPT !.reshard = r].active = st.active
  BY <1>1 DEF Status
<1> QED
  BY <1>1, <1>2, <1>3 DEF r

\* Two workflows that differ in their phase and cursor at most.
SameWork(r, q) == r.source = q.source /\ r.shadow = q.shadow /\ r.target = q.target

\* The copy starts over, or the workflow has failed: the cursor is reset.
Restarted(p) == InPhase(p, [status EXCEPT !.reshard.cursor = 0])

LEMMA RestartedFields ==
    ASSUME status \in Status, rs \in Reshard, NEW p \in Phase
    PROVE  /\ Restarted(p) \in Status /\ Restarted(p).reshard \in Reshard
           /\ Restarted(p).active = status.active
           /\ SameWork(Restarted(p).reshard, rs)
           /\ Restarted(p).reshard.phase = p /\ Restarted(p).reshard.cursor = 0
<1> DEFINE s0 == [status EXCEPT !.reshard.cursor = 0]
           s1 == InPhase(p, s0)
<1>1. /\ s0 \in Status /\ s0.reshard \in Reshard /\ s0.active = status.active
      /\ s0.reshard = [rs EXCEPT !.cursor = 0]
  BY CursorFields DEF rs
<1>2. Restarted(p) = s1
  BY DEF Restarted
<1> HIDE DEF s0
<1>3. /\ s1 \in Status /\ s1.reshard \in Reshard /\ s1.active = status.active
      /\ s1.reshard = [s0.reshard EXCEPT !.phase = p]
  BY <1>1, InPhaseFields
<1> HIDE DEF s1
<1>4. SameWork(s0.reshard, rs) /\ s0.reshard.cursor = 0
  BY <1>1 DEF SameWork, Reshard
<1>5. s1.reshard.phase = p /\ s1.reshard.cursor = 0 /\ SameWork(s1.reshard, rs)
  BY <1>1, <1>3, <1>4 DEF SameWork, Reshard
<1> QED
  BY <1>2, <1>3, <1>5

\* The status update that ends a pass, made or failed.
LEMMA UpdateWrites ==
    ASSUME TypeOK, NEW w, NEW n \in Nat, UpdateStatus(w, n)
    PROVE  /\ status' \in {status, w}
           /\ budget' \in Budget /\ budget'.writes = budget.writes
<1>1. ASSUME NEW k \in Nat, Spend(k)
      PROVE  budget' \in Budget /\ budget'.writes = budget.writes
  <2>1. budget.faults \in 0..MaxFaults /\ budget \in Budget
    BY DEF TypeOK, Budget
  <2>2. budget.faults + k \in 0..MaxFaults
    BY <1>1, <2>1, ReshardBounds DEF Spend
  <2> QED
    BY <1>1, <2>1, <2>2 DEF Spend, Budget
<1> QED
  BY <1>1 DEF UpdateStatus

(***************************************************************************)
(* Type correctness.                                                       *)
(***************************************************************************)

\* The part of the state that the calls to the server change.
Served(c, a) ==
    /\ DOMAIN c \subseteq Name /\ c \in [DOMAIN c -> Collection]
    /\ a \in DOMAIN c \cup {NoName}

LEMMA WithServed ==
    ASSUME NEW c, NEW a, Served(c, a), NEW n \in Name, NEW r \in Collection
    PROVE  /\ Served(With(c, n, r), a) /\ Served(With(c, n, r), n)
           /\ DOMAIN With(c, n, r) = DOMAIN c \cup {n}
           /\ With(c, n, r)[n] = r
           /\ \A m \in DOMAIN c : m # n => With(c, n, r)[m] = c[m]
BY DEF Served, With

LEMMA WithoutServed ==
    ASSUME NEW c, NEW a, Served(c, a), NEW n
    PROVE  /\ Served(Without(c, n), AliasWithout(a, n))
           /\ DOMAIN Without(c, n) = DOMAIN c \ {n}
           /\ \A m \in DOMAIN c : m # n => Without(c, n)[m] = c[m]
BY DEF Served, Without, AliasWithout

\* Writing points to a collection changes no other one.
LEMMA PointsServed ==
    ASSUME NEW c, NEW a, Served(c, a), NEW n \in DOMAIN c, NEW S \in SUBSET Point
    PROVE  /\ Served([c EXCEPT ![n].points = S], a)
           /\ DOMAIN [c EXCEPT ![n].points = S] = DOMAIN c
           /\ [c EXCEPT ![n].points = S][n].points = S
           /\ [c EXCEPT ![n].points = S][n].shards = c[n].shards
           /\ \A m \in DOMAIN c : m # n => [c EXCEPT ![n].points = S][m] = c[m]
<1> DEFINE r == [c[n] EXCEPT !.points = S]
           d == [c EXCEPT ![n] = r]
<1>1. r \in Collection /\ r.points = S /\ r.shards = c[n].shards
  BY DEF Served, Collection
<1>2. [c EXCEPT ![n].points = S] = d
  OBVIOUS
<1> HIDE DEF r
<1>3. /\ DOMAIN d = DOMAIN c /\ d[n] = r /\ d \in [DOMAIN c -> Collection]
      /\ \A m \in DOMAIN c : m # n => d[m] = c[m]
  BY <1>1 DEF Served
<1> HIDE DEF d
<1> QED
  BY <1>1, <1>2, <1>3 DEF Served

LEMMA FreshType ==
    ASSUME NEW k \in Nat \ {0}
    PROVE  Fresh(k) \in Collection /\ Fresh(k).points = {} /\ Fresh(k).shards = k
BY DEF Fresh, Collection

LEMMA PointsType ==
    ASSUME TypeOK, NEW n
    PROVE  PointsOf(n) \in SUBSET Point /\ PointsOf(n) \in SUBSET (Nat \ {0})
           /\ Cardinality(PointsOf(n)) \in Nat
<1>1. PointsOf(n) \in SUBSET Point
  BY DEF TypeOK, PointsOf, Collection
<1>2. IsFiniteSet(PointsOf(n))
  BY <1>1, PointAssumption, FS_Subset
<1> QED
  BY <1>1, <1>2, PointAssumption, FS_CardinalityType

\* A page is part of its collection.  The cursor of the next page is the first point
\* that the page left out; there is none when it left out nothing.
LEMMA PageCursor ==
    ASSUME TypeOK, NEW n, NEW c \in Nat
    PROVE  /\ Page(n, c) \subseteq Remaining(n, c) /\ Remaining(n, c) \subseteq PointsOf(n)
           /\ NextPage(n, c) \in Nat
           /\ NextPage(n, c) = 0 => Remaining(n, c) \subseteq Page(n, c)
           /\ NextPage(n, c) # 0 =>
                  /\ NextPage(n, c) \in Remaining(n, c)
                  /\ \A p \in Remaining(n, c) : p < NextPage(n, c) => p \in Page(n, c)
<1> DEFINE R == Remaining(n, c)
           rest == R \ Page(n, c)
<1>1. Page(n, c) \subseteq R /\ R \subseteq PointsOf(n)
  BY DEF Page, Remaining
<1>2. rest \in SUBSET (Nat \ {0})
  BY <1>1, PointsType
<1>3. NextPage(n, c) = IF rest = {} THEN 0 ELSE Min(rest)
  BY DEF NextPage
<1> HIDE DEF R
<1>4. CASE rest = {}
  BY <1>1, <1>3, <1>4 DEF R
<1>5. CASE rest # {}
  <2>1. Min(rest) \in rest /\ \A y \in rest : Min(rest) <= y
    <3> HIDE DEF rest
    <3> QED
      BY <1>2, <1>5, MinLeast
  <2>2. NextPage(n, c) \in R /\ NextPage(n, c) \in Nat \ {0}
    BY <1>2, <1>3, <1>5, <2>1
  <2>3. ASSUME NEW p \in R, p < NextPage(n, c)
        PROVE  p \in Page(n, c)
    <3>1. SUFFICES ASSUME p \in rest
                   PROVE  FALSE
      BY <2>3
    <3>2. p \in Nat /\ NextPage(n, c) <= p
      BY <1>2, <1>3, <1>5, <2>1, <3>1
    <3> QED
      BY <2>2, <2>3, <3>2
  <2> QED
    BY <1>1, <2>2, <2>3 DEF R
<1> QED
  BY <1>4, <1>5

\* upsertPoints adds the page to the shadow, and touches nothing else.
LEMMA UpsertServed ==
    ASSUME TypeOK, rs \in Reshard,
           Page(rs.source, rs.cursor) = {} \/ rs.shadow \in DOMAIN colls
    PROVE  /\ Served(Upserted, alias) /\ DOMAIN Upserted = DOMAIN colls
           /\ \A m \in DOMAIN colls : m # rs.shadow => Upserted[m] = colls[m]
           /\ rs.shadow \in DOMAIN colls =>
                  /\ Upserted[rs.shadow].points =
                         PointsOf(rs.shadow) \cup Page(rs.source, rs.cursor)
                  /\ Upserted[rs.shadow].shards = colls[rs.shadow].shards
<1>1. Served(colls, alias)
  BY DEF Served, TypeOK
<1> DEFINE page == Page(rs.source, rs.cursor)
<1>2. CASE page = {}
  BY <1>1, <1>2 DEF Upserted, PointsOf
<1>3. CASE page # {}
  <2>1. rs.cursor \in Nat
    BY DEF Reshard
  <2>2. page \subseteq PointsOf(rs.source) /\ rs.shadow \in DOMAIN colls
    BY <1>3, <2>1, PageCursor
  <2> DEFINE S == colls[rs.shadow].points \cup page
  <2>3. S \in SUBSET Point /\ S = PointsOf(rs.shadow) \cup page
    BY <2>2, PointsType DEF PointsOf
  <2>4. Upserted = [colls EXCEPT ![rs.shadow].points = S]
    BY <1>3 DEF Upserted
  <2> DEFINE d == [colls EXCEPT ![rs.shadow].points = S]
  <2>5. /\ Served(d, alias) /\ DOMAIN d = DOMAIN colls /\ d[rs.shadow].points = S
        /\ d[rs.shadow].shards = colls[rs.shadow].shards
        /\ \A m \in DOMAIN colls : m # rs.shadow => d[m] = colls[m]
    <3> HIDE DEF S
    <3> QED
      BY <1>1, <2>2, <2>3, PointsServed
  <2>6. Upserted = d
    BY <2>4
  <2> HIDE DEF d
  <2> QED
    BY <2>3, <2>5, <2>6
<1> QED
  BY <1>2, <1>3

\* The outcomes of a pass that gives the shadow up.
LEMMA DiscardOutcome ==
    ASSUME TypeOK, NEW c, NEW a, NEW st, NEW n \in Nat, Served(c, a), Discard(c, a, st, n)
    PROVE  /\ Served(colls, alias)' /\ status' \in {status, st}
           /\ budget' \in Budget /\ budget'.writes = budget.writes
           /\ \/ colls' = c /\ alias' = a
              \/ colls' = Without(c, rs.shadow) /\ alias' = AliasWithout(a, rs.shadow)
<1>1. PICK kept \in BOOLEAN :
          /\ colls' = IF kept THEN c ELSE Without(c, rs.shadow)
          /\ alias' = IF kept THEN a ELSE AliasWithout(a, rs.shadow)
          /\ UpdateStatus(st, n + IF kept THEN 1 ELSE 0)
  BY DEF Discard
<1>2. n + (IF kept THEN 1 ELSE 0) \in Nat
  OBVIOUS
<1>3. /\ status' \in {status, st}
      /\ budget' \in Budget /\ budget'.writes = budget.writes
  <2> DEFINE k == n + IF kept THEN 1 ELSE 0
  <2>1. UpdateStatus(st, k) /\ k \in Nat
    BY <1>1, <1>2
  <2> HIDE DEF k
  <2> QED
    BY <2>1, UpdateWrites
<1>4. \/ colls' = c /\ alias' = a
      \/ colls' = Without(c, rs.shadow) /\ alias' = AliasWithout(a, rs.shadow)
  BY <1>1
<1>5. Served(Without(c, rs.shadow), AliasWithout(a, rs.shadow))
  BY WithoutServed
<1>6. Served(colls, alias)'
  BY <1>4, <1>5 DEF Served
<1> QED
  BY <1>3, <1>4, <1>6

(***************************************************************************)
(* What each pass does to the state, action by action.                     *)
(***************************************************************************)

\* What no pass touches.
Budgeted == budget' \in Budget /\ budget'.writes = budget.writes

\* The status still speaks of the same collection and the same workflow.
SameStatus ==
    /\ status' \in Status /\ Physical' = Physical
    /\ status'.reshard = status.reshard

LEMMA SamePhysical ==
    ASSUME status \in Status, status' \in Status, status'.active \in {status.active, Physical}
    PROVE  Physical' = Physical
<1>1. Physical # NoName
  BY PhysicalName
<1> QED
  BY <1>1 DEF Physical

\* A pass that only reports.
LEMMA NotedOutcome ==
    ASSUME TypeOK, NEW reason \in Reason, NEW n \in Nat,
           UpdateStatus(Degrade(status, reason), n)
    PROVE  SameStatus /\ Budgeted
<1>1. status \in Status
  BY DEF TypeOK
<1>2. status' \in {status, Degrade(status, reason)} /\ Budgeted
  BY UpdateWrites DEF Budgeted
<1>3. /\ status' \in Status /\ status'.active = status.active
      /\ status'.reshard = status.reshard
  BY <1>1, <1>2, DegradeFields
<1> QED
  BY <1>1, <1>2, <1>3, SamePhysical DEF SameStatus

LEMMA ReportOutcome ==
    ASSUME TypeOK, ClusterNotFound \/ Unreachable \/ ReportMismatch
    PROVE  SameStatus /\ Budgeted /\ UNCHANGED <<spec, object, colls, alias, cluster>>
           /\ finalizer' \in BOOLEAN
<1>1. finalizer' \in BOOLEAN /\ UNCHANGED <<spec, object, colls, alias, cluster>>
  BY DEF ClusterNotFound, Unreachable, ReportMismatch, SteadyPass, LivePass, TypeOK
<1>2. \E reason \in Reason, n \in {0, 1} : UpdateStatus(Degrade(status, reason), n)
  <2>1. CASE ClusterNotFound
    BY <2>1 DEF ClusterNotFound, Reason
  <2>2. CASE Unreachable
    BY <2>2 DEF Unreachable, Reason
  <2>3. CASE ReportMismatch
    <3> DEFINE reason == IF Reshardable THEN "ReshardRequired" ELSE "ParamsMismatch"
    <3>1. reason \in Reason
      BY DEF Reason
    <3>2. UpdateStatus(Degrade(status, reason), 0)
      BY <2>3 DEF ReportMismatch
    <3> QED
      BY <3>1, <3>2
  <2> QED
    BY <2>1, <2>2, <2>3
<1>3. PICK reason \in Reason, n \in {0, 1} : UpdateStatus(Degrade(status, reason), n)
  BY <1>2
<1>4. n \in Nat
  OBVIOUS
<1> QED
  BY <1>1, <1>3, <1>4, NotedOutcome

\* ensureAlias may only move the alias to the physical collection.
LEMMA AliasOutcome ==
    ASSUME TypeOK, NEW st \in Status, st.active = Physical, st.reshard = status.reshard,
           NEW n \in Nat, EnsureAlias(st, n)
    PROVE  SameStatus /\ Budgeted /\ alias' \in {alias, Physical}
<1>1. status \in Status
  BY DEF TypeOK
<1>2. UpdateStatus(SetReady(st), n) \/ UpdateStatus(Degrade(st, "AliasFailed"), n + 1)
  BY DEF EnsureAlias
<1>3. PICK w \in {SetReady(st), Degrade(st, "AliasFailed")}, k \in {n, n + 1} :
          UpdateStatus(w, k)
  BY <1>2
<1>4. k \in Nat /\ w \in Status /\ w.active = Physical /\ w.reshard = status.reshard
  BY SetReadyFields, DegradeFields DEF Reason
<1>5. status' \in {status, w} /\ Budgeted
  BY <1>3, <1>4, UpdateWrites DEF Budgeted
<1>6. /\ status' \in Status /\ status'.active \in {status.active, Physical}
      /\ status'.reshard = status.reshard
  BY <1>1, <1>4, <1>5
<1>7. alias' \in {alias, Physical}
  BY DEF EnsureAlias
<1> QED
  BY <1>1, <1>5, <1>6, <1>7, SamePhysical DEF SameStatus

LEMMA ShardNumberType ==
    ASSUME TypeOK
    PROVE  ResolvedShardNumber \in Nat \ {0}
<1>1. spec.shards \in ShardNumber \cup {Unset} /\ ShardNumber \subseteq Nat \ {0}
  BY ReshardBounds DEF TypeOK, Resource
<1>2. Physical \in DOMAIN colls => colls[Physical].shards \in Nat \ {0}
  BY DEF TypeOK, Collection
<1>3. spec.shards # Unset => ResolvedShardNumber = spec.shards
  BY DEF ResolvedShardNumber
<1>4. spec.shards = Unset =>
          ResolvedShardNumber = IF Physical \in DOMAIN colls THEN colls[Physical].shards ELSE 1
  BY DEF ResolvedShardNumber
<1>5. 1 \in Nat \ {0} /\ Unset = 0
  BY DEF Unset
<1> QED
  BY <1>1, <1>2, <1>3, <1>4, <1>5

\* The collection that a pass creates is empty.
Created == With(colls, Physical, Fresh(ResolvedShardNumber))

LEMMA CreateOutcome ==
    ASSUME TypeOK, Create
    PROVE  /\ SameStatus /\ Budgeted /\ LivePass /\ status.reshard = NoReshard
           /\ Physical \notin DOMAIN colls
           /\ \/ colls' = Created /\ alias' \in {alias, Physical}
              \/ colls' = colls /\ alias' = alias
<1>1. LivePass /\ status.reshard = NoReshard /\ Physical \notin DOMAIN colls /\ status \in Status
  BY DEF Create, SteadyPass, TypeOK
<1>2. CASE /\ colls' = Created
           /\ EnsureAlias([status EXCEPT !.active = Physical, !.adopted = FALSE], 0)
  <2> DEFINE st == [status EXCEPT !.active = Physical, !.adopted = FALSE]
  <2>1. st \in Status /\ st.active = Physical /\ st.reshard = status.reshard
    BY <1>1, PhysicalName DEF Status
  <2>2. EnsureAlias(st, 0)
    BY <1>2
  <2> HIDE DEF st
  <2> QED
    BY <1>1, <1>2, <2>1, <2>2, AliasOutcome
<1>3. CASE /\ colls' \in {colls, Created}
           /\ UpdateStatus(Degrade(status, "CreateFailed"), 1)
           /\ alias' = alias
  BY <1>1, <1>3, NotedOutcome DEF Reason
<1> QED
  BY <1>2, <1>3 DEF Create, Created

LEMMA AdoptOutcome ==
    ASSUME TypeOK, Adopt
    PROVE  /\ SameStatus /\ Budgeted /\ LivePass /\ status.reshard = NoReshard
           /\ Physical \in DOMAIN colls /\ colls' = colls /\ alias' \in {alias, Physical}
<1>1. /\ LivePass /\ status.reshard = NoReshard /\ Physical \in DOMAIN colls
      /\ colls' = colls /\ status \in Status
  BY DEF Adopt, SteadyPass, TypeOK
<1> DEFINE st == [status EXCEPT !.active = Physical, !.adopted = @ \/ ~ status.ready]
<1>2. st \in Status /\ st.active = Physical /\ st.reshard = status.reshard
  BY <1>1, PhysicalName DEF Status
<1>3. EnsureAlias(st, 0)
  BY DEF Adopt
<1> HIDE DEF st
<1> QED
  BY <1>1, <1>2, <1>3, AliasOutcome

\* The workflow that a pass begins.
Begun ==
    [phase |-> "Preparing", source |-> Physical,
     shadow |-> Append(Physical, spec.generation), target |-> spec.shards,
     total |-> Cardinality(PointsOf(Physical)), cursor |-> 0]

LEMMA BeginOutcome ==
    ASSUME TypeOK, spec.generation # 0, BeginReshard
    PROVE  /\ LivePass /\ Budgeted /\ status.reshard = NoReshard /\ UNCHANGED <<colls, alias>>
           /\ status' \in Status /\ Physical' = Physical
           /\ Begun \in Reshard /\ spec.shards \in ShardNumber
           /\ status'.reshard \in {NoReshard, Begun}
<1>1. /\ LivePass /\ status.reshard = NoReshard /\ UNCHANGED <<colls, alias>>
      /\ status \in Status /\ spec.shards # Unset
  BY DEF BeginReshard, SteadyPass, TypeOK, Reshardable
<1>2. spec.shards \in ShardNumber /\ spec.shards \in Nat \ {0} /\ spec.generation \in Nat \ {0}
  BY <1>1, ReshardBounds DEF TypeOK, Resource
<1>3. Begun \in Reshard
  <2>1. /\ Physical \in Name /\ Append(Physical, spec.generation) \in Name
        /\ Cardinality(PointsOf(Physical)) \in Nat
    BY <1>1, <1>2, PhysicalName, ShadowName, PointsType
  <2> QED
    BY <1>2, <2>1 DEF Begun, Reshard, Phase
<1> DEFINE w == [status EXCEPT !.reshard = Begun]
<1>4. w \in Status /\ w.active = status.active /\ w.reshard = Begun
  BY <1>1, <1>3 DEF Status
<1>5. UpdateStatus(w, 0)
  BY DEF BeginReshard, Begun
<1> HIDE DEF w
<1>6. status' \in {status, w} /\ Budgeted
  BY <1>5, UpdateWrites DEF Budgeted
<1>7. status' \in Status /\ status'.active = status.active
  BY <1>1, <1>4, <1>6
<1>8. Physical' = Physical
  BY <1>1, <1>7, SamePhysical
<1> QED
  BY <1>1, <1>2, <1>3, <1>4, <1>6, <1>7, <1>8

\* The shadow is deleted, with the alias if that names it, or the call fails.
Discarded(c) ==
    \/ colls' = c /\ alias' = alias
    \/ colls' = Without(c, rs.shadow) /\ alias' = AliasWithout(alias, rs.shadow)

LEMMA RetargetOutcome ==
    ASSUME TypeOK, Retarget
    PROVE  /\ LivePass /\ Budgeted /\ rs \in Reshard /\ spec.shards # rs.target
           /\ Served(colls, alias)' /\ Discarded(colls)
           /\ status' \in Status /\ Physical' = Physical
           /\ rs' \in {rs, NoReshard}
<1>1. /\ LivePass /\ status \in Status /\ rs \in Reshard /\ spec.shards # rs.target
      /\ Served(colls, alias)
  BY DEF Retarget, ReshardPass, TypeOK, Status, rs, Served
<1> DEFINE w == [status EXCEPT !.reshard = NoReshard]
<1>2. w \in Status /\ w.active = status.active /\ w.reshard = NoReshard
  BY <1>1 DEF Status
<1>3. Discard(colls, alias, w, 0)
  BY DEF Retarget
<1> HIDE DEF w
<1>4. /\ Served(colls, alias)' /\ status' \in {status, w} /\ Budgeted /\ Discarded(colls)
  BY <1>1, <1>3, DiscardOutcome DEF Budgeted, Discarded
<1>5. status' \in Status /\ status'.active = status.active /\ rs' \in {rs, NoReshard}
  BY <1>1, <1>2, <1>4 DEF rs
<1>6. Physical' = Physical
  BY <1>1, <1>5, SamePhysical
<1> QED
  BY <1>1, <1>4, <1>5, <1>6

\* The workflow is the same one, in phase p and at cursor k if the status was updated.
Moved(p, k) ==
    /\ status' \in Status /\ Physical' = Physical
    /\ \/ rs' = rs
       \/ /\ rs' \in Reshard /\ SameWork(rs', rs)
          /\ rs'.phase = p /\ rs'.cursor = k

LEMMA FailOutcome ==
    ASSUME TypeOK, rs \in Reshard, NEW c, NEW a, Served(c, a), NEW reason \in Reason,
           NEW n \in Nat, FailReshard(c, a, reason, n)
    PROVE  /\ Moved("Failed", 0) /\ Budgeted /\ Served(colls, alias)'
           /\ \/ colls' = c /\ alias' = a
              \/ colls' = Without(c, rs.shadow) /\ alias' = AliasWithout(a, rs.shadow)
<1>1. status \in Status
  BY DEF TypeOK
<1>2. Discard(c, a, Degrade(Restarted("Failed"), reason), n)
  BY DEF FailReshard, Restarted
<1>3. /\ Served(colls, alias)' /\ status' \in {status, Degrade(Restarted("Failed"), reason)} /\ Budgeted
      /\ \/ colls' = c /\ alias' = a
         \/ colls' = Without(c, rs.shadow) /\ alias' = AliasWithout(a, rs.shadow)
  BY <1>2, DiscardOutcome DEF Budgeted
<1>4. /\ status' \in Status /\ status'.active = status.active
      /\ \/ rs' = rs
         \/ /\ rs' \in Reshard /\ SameWork(rs', rs)
            /\ rs'.phase = "Failed" /\ rs'.cursor = 0
  <2>1. CASE status' = status
    BY <1>1, <2>1 DEF rs
  <2>2. CASE status' = Degrade(Restarted("Failed"), reason)
    <3> DEFINE w == Restarted("Failed")
    <3>1. /\ w \in Status /\ w.reshard \in Reshard /\ w.active = status.active
          /\ SameWork(w.reshard, rs) /\ w.reshard.phase = "Failed" /\ w.reshard.cursor = 0
      BY <1>1, RestartedFields DEF Phase
    <3>2. status' = Degrade(w, reason)
      BY <2>2
    <3> HIDE DEF w
    <3>3. status' \in Status /\ status'.active = w.active /\ rs' = w.reshard
      BY <3>1, <3>2, DegradeFields DEF rs
    <3> QED
      BY <3>1, <3>3
  <2> QED
    BY <1>3, <2>1, <2>2
<1>5. Physical' = Physical
  BY <1>1, <1>4, SamePhysical
<1> QED
  BY <1>3, <1>4, <1>5 DEF Moved

LEMMA MovedOutcome ==
    ASSUME TypeOK, rs \in Reshard, NEW w \in Status, w.active = status.active,
           w.reshard \in Reshard, SameWork(w.reshard, rs), NEW n \in Nat, UpdateStatus(w, n)
    PROVE  Budgeted /\ Moved(w.reshard.phase, w.reshard.cursor)
<1>1. status \in Status
  BY DEF TypeOK
<1>2. status' \in {status, w} /\ Budgeted
  BY UpdateWrites DEF Budgeted
<1>3. status' \in Status /\ status'.active = status.active
  BY <1>1, <1>2
<1>4. Physical' = Physical
  BY <1>1, <1>3, SamePhysical
<1>5. rs' = rs \/ rs' = w.reshard
  BY <1>2 DEF rs
<1> QED
  BY <1>2, <1>3, <1>4, <1>5 DEF Moved

\* A pass that only moves the workflow to its next phase.
LEMMA PhaseOutcome ==
    ASSUME TypeOK, rs \in Reshard, NEW p \in Phase, NEW n \in Nat,
           UpdateStatus(InPhase(p, status), n)
    PROVE  Budgeted /\ Moved(p, rs.cursor)
<1> DEFINE w == InPhase(p, status)
<1>1. w \in Status /\ w.active = status.active /\ w.reshard = [rs EXCEPT !.phase = p]
  BY InPhaseFields DEF TypeOK, rs
<1>2. UpdateStatus(w, n)
  OBVIOUS
<1> HIDE DEF w
<1>3. /\ w.reshard \in Reshard /\ SameWork(w.reshard, rs)
      /\ w.reshard.phase = p /\ w.reshard.cursor = rs.cursor
  BY <1>1 DEF Reshard, SameWork
<1>4. Budgeted /\ Moved(w.reshard.phase, w.reshard.cursor)
  BY <1>1, <1>2, <1>3, MovedOutcome
<1> QED
  BY <1>3, <1>4

LEMMA RestartOutcome ==
    ASSUME TypeOK, rs \in Reshard, NEW n \in Nat, UpdateStatus(Restarted("Copying"), n)
    PROVE  Budgeted /\ Moved("Copying", 0)
<1> DEFINE w == Restarted("Copying")
<1>1. /\ w \in Status /\ w.reshard \in Reshard /\ w.active = status.active
      /\ SameWork(w.reshard, rs) /\ w.reshard.phase = "Copying" /\ w.reshard.cursor = 0
  BY RestartedFields DEF TypeOK, Phase
<1>2. UpdateStatus(w, n)
  OBVIOUS
<1> HIDE DEF w
<1>3. Budgeted /\ Moved(w.reshard.phase, w.reshard.cursor)
  BY <1>1, <1>2, MovedOutcome
<1> QED
  BY <1>1, <1>3

\* A pass that drives the workflow on.
LEMMA DrivenPass ==
    ASSUME TypeOK, NEW P, Driven(P)
    PROVE  /\ LivePass /\ rs \in Reshard /\ rs.phase \in P /\ spec.shards = rs.target
           /\ rs.source \in Name /\ rs.shadow \in Name /\ rs.target \in Nat \ {0}
           /\ rs.cursor \in Nat /\ Served(colls, alias)
<1>1. LivePass /\ rs \in Reshard /\ rs.phase \in P /\ spec.shards = rs.target
  BY DEF Driven, ReshardPass, TypeOK, Status, rs
<1> QED
  BY <1>1 DEF Reshard, Served, TypeOK

\* The shadow of the workflow, as a pass creates it.
Shadowed == With(colls, rs.shadow, Fresh(rs.target))

LEMMA PrepareOutcome ==
    ASSUME TypeOK, Prepare
    PROVE  /\ Budgeted /\ Served(colls, alias)'
           /\ \/ Moved("Failed", 0) /\ Discarded(colls)
              \/ /\ Moved("Copying", 0) /\ rs.shadow \notin DOMAIN colls
                 /\ colls' = Shadowed /\ alias' = alias
              \/ Moved("Blocked", rs.cursor) /\ UNCHANGED <<colls, alias>>
              \/ /\ Moved("Copying", 0) /\ rs.shadow \in DOMAIN colls
                 /\ colls[rs.shadow].shards = rs.target /\ UNCHANGED <<colls, alias>>
<1>1. /\ rs \in Reshard /\ Served(colls, alias) /\ rs.shadow \in Name
      /\ rs.target \in Nat \ {0} /\ rs = status.reshard /\ status \in Status
  BY DrivenPass DEF Prepare, rs, TypeOK
<1>2. CASE FailReshard(colls, alias, "ReshardFailed", 1)
  BY <1>1, <1>2, FailOutcome DEF Discarded, Reason
<1>3. CASE /\ rs.shadow \notin DOMAIN colls /\ colls' = Shadowed /\ alias' = alias
           /\ UpdateStatus(Restarted("Copying"), 0)
  <2>1. Budgeted /\ Moved("Copying", 0)
    BY <1>1, <1>3, RestartOutcome
  <2>2. Served(Shadowed, alias)
    BY <1>1, FreshType, WithServed DEF Shadowed
  <2>3. Served(colls, alias)'
    BY <1>3, <2>2 DEF Served
  <2> QED
    BY <1>3, <2>1, <2>3
<1>4. CASE /\ UpdateStatus(Degrade(InPhase("Blocked", status), "ShadowConflict"), 0)
           /\ UNCHANGED <<colls, alias>>
  <2> DEFINE w == Degrade(InPhase("Blocked", status), "ShadowConflict")
  <2>1. /\ w \in Status /\ w.active = status.active
        /\ w.reshard = [rs EXCEPT !.phase = "Blocked"]
    <3> DEFINE v == InPhase("Blocked", status)
    <3>1. v \in Status /\ v.active = status.active /\ v.reshard = [rs EXCEPT !.phase = "Blocked"]
      BY <1>1, InPhaseFields DEF Phase
    <3> HIDE DEF v
    <3>2. Degrade(v, "ShadowConflict") \in Status
          /\ Degrade(v, "ShadowConflict").active = v.active
          /\ Degrade(v, "ShadowConflict").reshard = v.reshard
      BY <3>1, DegradeFields DEF Reason
    <3> QED
      BY <3>1, <3>2 DEF v
  <2>2. UpdateStatus(w, 0)
    BY <1>4
  <2> HIDE DEF w
  <2>3. /\ w.reshard \in Reshard /\ SameWork(w.reshard, rs)
        /\ w.reshard.phase = "Blocked" /\ w.reshard.cursor = rs.cursor
    BY <1>1, <2>1 DEF Reshard, SameWork, Phase
  <2>4. Budgeted /\ Moved(w.reshard.phase, w.reshard.cursor)
    BY <1>1, <2>1, <2>2, <2>3, MovedOutcome
  <2> QED
    BY <1>1, <1>4, <2>3, <2>4 DEF Served
<1>5. CASE /\ rs.shadow \in DOMAIN colls /\ colls[rs.shadow].shards = rs.target
           /\ UpdateStatus(Restarted("Copying"), 0) /\ UNCHANGED <<colls, alias>>
  <2>1. Budgeted /\ Moved("Copying", 0)
    BY <1>1, <1>5, RestartOutcome
  <2> QED
    BY <1>1, <1>5, <2>1 DEF Served
<1> QED
  BY <1>2, <1>3, <1>4, <1>5 DEF Prepare, Restarted, Shadowed

\* The page can be written: it is empty, or the shadow is there.
Upsertable == Page(rs.source, rs.cursor) = {} \/ rs.shadow \in DOMAIN colls

LEMMA CopyOutcome ==
    ASSUME TypeOK, CopyStep
    PROVE  /\ Budgeted /\ Served(colls, alias)'
           /\ \/ /\ Moved("Failed", 0)
                 /\ Discarded(colls) \/ (Upsertable /\ Discarded(Upserted))
              \/ /\ Moved("Copying", NextPage(rs.source, rs.cursor)) /\ Upsertable
                 /\ NextPage(rs.source, rs.cursor) # 0
                 /\ colls' = Upserted /\ alias' = alias
              \/ /\ Moved("Swapping", rs.cursor) /\ Upsertable
                 /\ NextPage(rs.source, rs.cursor) = 0
                 /\ colls' = Upserted /\ alias' = alias
<1>1. /\ rs \in Reshard /\ Served(colls, alias) /\ rs.cursor \in Nat /\ rs.phase = "Copying"
      /\ rs = status.reshard /\ status \in Status
  BY DrivenPass DEF CopyStep, rs, TypeOK
<1> DEFINE page == Page(rs.source, rs.cursor)
           next == NextPage(rs.source, rs.cursor)
           lost == page # {} /\ rs.shadow \notin DOMAIN colls
<1>2. ~ lost <=> Upsertable
  BY DEF Upsertable
<1>3. Upsertable => Served(Upserted, alias)
  BY <1>1, UpsertServed DEF Upsertable
<1>4. next \in Nat
  BY <1>1, PageCursor
<1>5. CASE \E c \in {colls, IF lost THEN colls ELSE Upserted} :
              FailReshard(c, alias, "ReshardFailed", 1)
  <2>1. PICK c \in {colls, IF lost THEN colls ELSE Upserted} :
            FailReshard(c, alias, "ReshardFailed", 1)
    BY <1>5
  <2>2. c = colls \/ (Upsertable /\ c = Upserted)
    BY <1>2
  <2>3. Served(c, alias)
    BY <1>1, <1>3, <2>2
  <2> QED
    BY <1>1, <2>1, <2>2, <2>3, FailOutcome DEF Discarded, Reason
<1>6. CASE FailReshard(colls, alias, "ReshardFailed", 0)
  BY <1>1, <1>6, FailOutcome DEF Discarded, Reason
<1>7. CASE /\ ~ lost /\ next # 0 /\ colls' = Upserted /\ alias' = alias
           /\ UpdateStatus([status EXCEPT !.reshard.cursor = next], 0)
  <2> DEFINE w == [status EXCEPT !.reshard.cursor = next]
  <2>1. /\ w \in Status /\ w.active = status.active
        /\ w.reshard = [rs EXCEPT !.cursor = next]
    <3> HIDE DEF next
    <3> QED
      BY <1>1, <1>4, CursorFields
  <2>2. UpdateStatus(w, 0)
    BY <1>7
  <2> HIDE DEF w
  <2>3. /\ w.reshard \in Reshard /\ SameWork(w.reshard, rs)
        /\ w.reshard.phase = "Copying" /\ w.reshard.cursor = next
    <3> HIDE DEF next
    <3> QED
      BY <1>1, <1>4, <2>1 DEF Reshard, SameWork
  <2>4. Budgeted /\ Moved(w.reshard.phase, w.reshard.cursor)
    BY <1>1, <2>1, <2>2, <2>3, MovedOutcome
  <2>5. Budgeted /\ Moved("Copying", next)
    BY <2>3, <2>4
  <2> QED
    BY <1>2, <1>3, <1>7, <2>5 DEF Served
<1>8. CASE ~ lost /\ FailReshard(Upserted, alias, "SourceMutated", 0)
  BY <1>1, <1>2, <1>3, <1>8, FailOutcome DEF Discarded, Reason
<1>9. CASE /\ ~ lost /\ next = 0 /\ colls' = Upserted /\ alias' = alias
           /\ UpdateStatus(InPhase("Swapping", status), 0)
  <2>1. Budgeted /\ Moved("Swapping", rs.cursor)
    BY <1>1, <1>9, PhaseOutcome DEF Phase
  <2> QED
    BY <1>2, <1>3, <1>9, <2>1 DEF Served
<1> QED
  BY <1>5, <1>6, <1>7, <1>8, <1>9 DEF CopyStep

LEMMA SwapOutcome ==
    ASSUME TypeOK, Swap
    PROVE  /\ Budgeted /\ Served(colls, alias)'
           /\ \/ /\ Moved("Finalizing", rs.cursor) /\ rs.shadow \in DOMAIN colls
                 /\ alias' = rs.shadow /\ colls' = colls
              \/ Moved("Failed", 0) /\ rs.shadow \notin DOMAIN colls /\ Discarded(colls)
              \/ Moved("Failed", 0) /\ "aliasCallFails" \in Faults
<1>1. rs \in Reshard /\ Served(colls, alias)
  BY DrivenPass DEF Swap
<1>2. CASE /\ rs.shadow \in DOMAIN colls /\ alias' = rs.shadow /\ colls' = colls
           /\ UpdateStatus(InPhase("Finalizing", status), 0)
  <2>1. Budgeted /\ Moved("Finalizing", rs.cursor)
    BY <1>1, <1>2, PhaseOutcome DEF Phase
  <2> QED
    BY <1>1, <1>2, <2>1 DEF Served
<1>3. CASE rs.shadow \notin DOMAIN colls /\ FailReshard(colls, alias, "ReshardFailed", 0)
  BY <1>1, <1>3, FailOutcome DEF Discarded, Reason
<1>4. CASE /\ "aliasCallFails" \in Faults
           /\ \E a \in {alias} \cup {n \in DOMAIN colls : n = rs.shadow} :
                  FailReshard(colls, a, "ReshardFailed", 1)
  <2>1. PICK a \in {alias} \cup {n \in DOMAIN colls : n = rs.shadow} :
            FailReshard(colls, a, "ReshardFailed", 1)
    BY <1>4
  <2>2. Served(colls, a)
    BY <1>1 DEF Served
  <2> QED
    BY <1>1, <1>4, <2>1, <2>2, FailOutcome DEF Reason
<1> QED
  BY <1>2, <1>3, <1>4 DEF Swap

LEMMA FinalizeOutcome ==
    ASSUME TypeOK, Finalize
    PROVE  /\ Budgeted /\ Served(colls, alias)' /\ status' \in Status
           /\ \/ UNCHANGED <<colls, alias>>
              \/ colls' = Without(colls, rs.source) /\ alias' = AliasWithout(alias, rs.source)
           /\ \/ rs' = rs /\ Physical' = Physical
              \/ rs' = NoReshard /\ status'.active = rs.shadow
<1>1. rs \in Reshard /\ Served(colls, alias) /\ rs.shadow \in Name /\ status \in Status
  BY DrivenPass DEF Finalize, TypeOK
<1>2. \/ UNCHANGED <<colls, alias>>
      \/ colls' = Without(colls, rs.source) /\ alias' = AliasWithout(alias, rs.source)
  BY DEF Finalize
<1>3. Served(Without(colls, rs.source), AliasWithout(alias, rs.source))
  BY <1>1, WithoutServed
<1>4. Served(colls, alias)'
  BY <1>1, <1>2, <1>3 DEF Served
<1> DEFINE v == [status EXCEPT !.active = rs.shadow, !.reshard = NoReshard]
           w == SetReady(v)
<1>5. v \in Status /\ v.active = rs.shadow /\ v.reshard = NoReshard
  BY <1>1 DEF Status
<1>6. UpdateStatus(w, 0)
  BY DEF Finalize
<1> HIDE DEF v
<1>7. w \in Status /\ w.active = rs.shadow /\ w.reshard = NoReshard
  BY <1>5, SetReadyFields
<1> HIDE DEF w
<1>8. status' \in {status, w} /\ Budgeted
  BY <1>6, UpdateWrites DEF Budgeted
<1>9. CASE status' = status
  <2>1. rs' = rs /\ Physical' = Physical /\ status' \in Status
    BY <1>1, <1>9 DEF rs, Physical
  <2> QED
    BY <1>2, <1>4, <1>8, <2>1
<1>10. CASE status' = w
  <2>1. rs' = NoReshard /\ status'.active = rs.shadow /\ status' \in Status
    BY <1>7, <1>10 DEF rs
  <2> QED
    BY <1>2, <1>4, <1>8, <2>1
<1> QED
  BY <1>8, <1>9, <1>10

LEMMA FinalizeObjectOutcome ==
    ASSUME TypeOK, FinalizeObject
    PROVE  /\ Budgeted /\ Served(colls, alias)' /\ UNCHANGED <<spec, status, cluster>>
           /\ object = "deleting" /\ object' \in {"deleting", "gone"} /\ finalizer' \in BOOLEAN
           /\ \/ UNCHANGED <<colls, alias>>
              \/ colls' = Without(colls, Physical) /\ alias' = AliasWithout(alias, Physical)
<1>1. /\ object = "deleting" /\ object' \in {"deleting", "gone"} /\ finalizer' \in BOOLEAN
      /\ UNCHANGED <<spec, status, cluster>>
  BY DEF FinalizeObject, TypeOK
<1>2. \/ UNCHANGED <<colls, alias>>
      \/ colls' = Without(colls, Physical) /\ alias' = AliasWithout(alias, Physical)
  BY DEF FinalizeObject
<1>3. UpdateStatus(status, 0) \/ UpdateStatus(status, 1)
  BY <1>1 DEF FinalizeObject, UpdateStatus
<1>4. Budgeted
  BY <1>3, UpdateWrites DEF Budgeted
<1>5. Served(colls, alias)
  BY DEF TypeOK, Served
<1>6. Served(Without(colls, Physical), AliasWithout(alias, Physical))
  BY <1>5, WithoutServed
<1>7. Served(colls, alias)'
  BY <1>2, <1>5, <1>6 DEF Served
<1> QED
  BY <1>1, <1>2, <1>4, <1>7

\* An edit of the resource: a new generation, nothing else.
LEMMA EditOutcome ==
    ASSUME TypeOK, NEW n \in ShardNumber \cup {Unset}, NEW d \in {"Retain", "Delete"},
           SetSpec(n, d)
    PROVE  /\ rs.phase \in EditPhases /\ object = "live"
           /\ UNCHANGED <<object, finalizer, status, colls, alias, cluster>>
           /\ spec'.generation = spec.generation + 1 /\ spec.generation \in Nat
           /\ spec' \in Resource
           /\ Budgeted
<1>1. /\ rs.phase \in EditPhases /\ object = "live"
      /\ UNCHANGED <<object, finalizer, status, colls, alias, cluster>>
  BY DEF SetSpec
<1>2. /\ spec'.generation = spec.generation + 1 /\ spec.generation \in Nat
      /\ spec' \in Resource
  <2>1. /\ spec \in Resource /\ spec.generation \in Nat /\ spec.generation + 1 \in Nat
        /\ spec' = [spec EXCEPT !.shards = n, !.onDelete = d,
                                !.generation = spec.generation + 1]
    BY DEF SetSpec, TypeOK, Resource
  <2> QED
    BY <2>1 DEF Resource
<1>3. Budgeted
  <2>1. budget.edits \in 0..MaxEdits /\ budget.edits < MaxEdits /\ budget \in Budget
    BY DEF SetSpec, TypeOK, Budget
  <2>2. budget.edits + 1 \in 0..MaxEdits
    BY <2>1, ReshardBounds
  <2> QED
    BY <2>1, <2>2 DEF SetSpec, Budget, Budgeted
<1> QED
  BY <1>1, <1>2, <1>3

\* A write of a client: the points of the collection it finds under the name.
LEMMA WriteOutcome ==
    ASSUME TypeOK, NEW pts \in SUBSET Point, Write(pts)
    PROVE  /\ UNCHANGED <<spec, object, finalizer, status, alias, cluster>>
           /\ rs.phase \in WritePhases /\ Named \in DOMAIN colls
           /\ budget' \in Budget /\ budget'.writes = budget.writes + 1
           /\ Served(colls, alias)' /\ DOMAIN colls' = DOMAIN colls
           /\ colls'[Named].points = pts /\ colls'[Named].shards = colls[Named].shards
           /\ \A m \in DOMAIN colls : m # Named => colls'[m] = colls[m]
<1>1. /\ UNCHANGED <<spec, object, finalizer, status, alias, cluster>>
      /\ rs.phase \in WritePhases /\ Named \in DOMAIN colls
      /\ colls' = [colls EXCEPT ![Named].points = pts]
      /\ Served(colls, alias)
  BY DEF Write, TypeOK, Served
<1>2. budget' \in Budget /\ budget'.writes = budget.writes + 1
  <2>1. budget.writes \in 0..MaxWrites /\ budget.writes < MaxWrites /\ budget \in Budget
    BY DEF Write, TypeOK, Budget
  <2>2. budget.writes + 1 \in 0..MaxWrites
    BY <2>1, ReshardBounds
  <2> QED
    BY <2>1, <2>2 DEF Write, Budget
<1> DEFINE d == [colls EXCEPT ![Named].points = pts]
<1>3. /\ Served(d, alias) /\ DOMAIN d = DOMAIN colls
      /\ d[Named].points = pts /\ d[Named].shards = colls[Named].shards
      /\ \A m \in DOMAIN colls : m # Named => d[m] = colls[m]
  BY <1>1, PointsServed
<1>4. colls' = d
  BY <1>1
<1> HIDE DEF d
<1>5. Served(colls, alias)'
  BY <1>1, <1>3, <1>4 DEF Served
<1> QED
  BY <1>1, <1>2, <1>3, <1>4, <1>5

\* The clients of the alias and the cluster.
LEMMA ClusterOutcome ==
    ASSUME TypeOK, ClusterBusy \/ ClusterIdle \/ ClusterGone
    PROVE  /\ UNCHANGED <<spec, object, finalizer, status, colls, alias>> /\ Budgeted
           /\ cluster' \in {"idle", "moving", "gone"}
<1>1. /\ UNCHANGED <<spec, object, finalizer, status, colls, alias>>
      /\ cluster' \in {"idle", "moving", "gone"}
  BY DEF ClusterBusy, ClusterIdle, ClusterGone
<1>2. CASE ClusterBusy
  <2>1. budget.moves \in 0..MaxMoves /\ budget.moves < MaxMoves /\ budget \in Budget
    BY <1>2 DEF ClusterBusy, TypeOK, Budget
  <2>2. budget.moves + 1 \in 0..MaxMoves
    BY <2>1, ReshardBounds
  <2> QED
    BY <1>1, <1>2, <2>1, <2>2 DEF ClusterBusy, Budget, Budgeted
<1>3. CASE ClusterIdle
  BY <1>1, <1>3 DEF ClusterIdle, TypeOK, Budgeted
<1>4. CASE ClusterGone
  <2>1. UpdateStatus(status, 1)
    BY <1>1, <1>4 DEF ClusterGone, UpdateStatus
  <2> QED
    BY <1>1, <2>1, UpdateWrites DEF Budgeted
<1> QED
  BY <1>2, <1>3, <1>4

\* A pass over a live resource leaves the rest of the state alone.
LEMMA PassType ==
    ASSUME TypeOK, LivePass, status' \in Status, Served(colls, alias)', Budgeted
    PROVE  TypeOK'
<1>1. finalizer' \in BOOLEAN /\ UNCHANGED <<spec, object, cluster>>
  BY DEF LivePass
<1> QED
  BY <1>1 DEF TypeOK, Served, Budgeted

LEMMA CreatedServed ==
    ASSUME TypeOK
    PROVE  /\ Served(Created, alias) /\ Served(Created, Physical)
           /\ DOMAIN Created = DOMAIN colls \cup {Physical}
           /\ Created[Physical].points = {}
           /\ \A m \in DOMAIN colls : m # Physical => Created[m] = colls[m]
<1>1. Served(colls, alias) /\ Physical \in Name
  BY PhysicalName DEF TypeOK, Served
<1>2. /\ Fresh(ResolvedShardNumber) \in Collection
      /\ Fresh(ResolvedShardNumber).points = {}
  BY ShardNumberType, FreshType
<1> QED
  BY <1>1, <1>2, WithServed DEF Created

LEMMA NextType ==
    ASSUME TypeOK, spec.generation # 0, [Next]_vars
    PROVE  TypeOK' /\ spec'.generation # 0
<1>0. Served(colls, alias)
  BY DEF TypeOK, Served
<1>1. ASSUME UNCHANGED spec
      PROVE  spec'.generation # 0
  BY <1>1
<1>2. CASE ClusterNotFound \/ Unreachable \/ ReportMismatch
  <2>1. /\ SameStatus /\ Budgeted /\ UNCHANGED <<spec, object, colls, alias, cluster>>
        /\ finalizer' \in BOOLEAN
    BY <1>2, ReportOutcome
  <2> QED
    BY <1>1, <2>1 DEF SameStatus, Budgeted, TypeOK
<1>3. CASE Create
  <2>1. Served(Created, alias) /\ Served(Created, Physical)
    BY CreatedServed
  <2>2. Served(colls, alias)'
    BY <1>0, <1>3, <2>1, CreateOutcome DEF Served
  <2> QED
    BY <1>1, <1>3, <2>2, CreateOutcome, PassType DEF SameStatus, LivePass
<1>4. CASE Adopt
  <2>1. Served(colls, alias)'
    BY <1>0, <1>4, AdoptOutcome DEF Served
  <2> QED
    BY <1>1, <1>4, <2>1, AdoptOutcome, PassType DEF SameStatus, LivePass
<1>5. CASE BeginReshard
  <2>1. Served(colls, alias)'
    BY <1>0, <1>5, BeginOutcome DEF Served
  <2> QED
    BY <1>1, <1>5, <2>1, BeginOutcome, PassType DEF LivePass
<1>6. CASE Retarget
  BY <1>1, <1>6, RetargetOutcome, PassType DEF LivePass
<1>7. ASSUME Prepare \/ CopyStep \/ Swap \/ Finalize
      PROVE  LivePass
  BY <1>7 DEF Prepare, CopyStep, Swap, Finalize, Driven, ReshardPass
<1>8. CASE Prepare
  BY <1>1, <1>7, <1>8, PrepareOutcome, PassType DEF Moved, LivePass
<1>9. CASE CopyStep
  BY <1>1, <1>7, <1>9, CopyOutcome, PassType DEF Moved, LivePass
<1>10. CASE Swap
  BY <1>1, <1>7, <1>10, SwapOutcome, PassType DEF Moved, LivePass
<1>11. CASE Finalize
  BY <1>1, <1>7, <1>11, FinalizeOutcome, PassType DEF LivePass
<1>12. CASE Wait
  <2>1. LivePass /\ UNCHANGED <<status, colls, alias, budget>>
    BY <1>12 DEF Wait, SteadyPass, Driven, ReshardPass
  <2> QED
    BY <1>1, <2>1 DEF LivePass, TypeOK
<1>13. CASE FinalizeObject
  BY <1>1, <1>13, FinalizeObjectOutcome DEF TypeOK, Served, Budgeted
<1>14. CASE DeleteObject
  BY <1>1, <1>14 DEF DeleteObject, TypeOK
<1>15. CASE \E n \in ShardNumber \cup {Unset}, d \in {"Retain", "Delete"} : SetSpec(n, d)
  <2>1. PICK n \in ShardNumber \cup {Unset}, d \in {"Retain", "Delete"} : SetSpec(n, d)
    BY <1>15
  <2>2. /\ UNCHANGED <<object, finalizer, status, colls, alias, cluster>>
        /\ spec'.generation = spec.generation + 1 /\ spec.generation \in Nat
        /\ spec' \in Resource /\ Budgeted
    BY <2>1, EditOutcome
  <2>3. spec'.generation # 0
    BY <2>2
  <2> QED
    BY <2>2, <2>3 DEF TypeOK, Budgeted
<1>16. CASE \E p \in Point : Put(p) \/ Remove(p)
  <2>1. \E pts \in SUBSET Point : Write(pts)
    BY <1>16, PointsType DEF Put, Remove
  <2> QED
    BY <1>1, <2>1, WriteOutcome DEF TypeOK, Served
<1>17. CASE ClusterBusy \/ ClusterIdle \/ ClusterGone
  BY <1>1, <1>17, ClusterOutcome DEF TypeOK, Budgeted
<1>18. CASE UNCHANGED vars
  BY <1>1, <1>18 DEF vars, TypeOK
<1> QED
  BY <1>2, <1>3, <1>4, <1>5, <1>6, <1>8, <1>9, <1>10, <1>11, <1>12, <1>13, <1>14, <1>15,
     <1>16, <1>17, <1>18 DEF Next, Reconcile

\* The type invariant is inductive together with this fact about the generation.
TypeInv == TypeOK /\ spec.generation # 0

LEMMA InitType ==
    ASSUME Init
    PROVE  TypeInv
<1>1. spec \in Resource /\ spec.generation # 0
  BY DEF Init, Resource
<1>2. status \in Status
  BY BaseName DEF Init, Status, Reason
<1>3. DOMAIN colls \subseteq Name /\ colls \in [DOMAIN colls -> Collection]
  BY ServerAssumption DEF Init
<1>4. budget \in Budget
  BY ReshardBounds DEF Init, Budget
<1> QED
  BY <1>1, <1>2, <1>3, <1>4 DEF Init, TypeOK, TypeInv

\* The state of the resource and of the server is of its type in every execution,
\* whichever calls fail: the alias names a collection that is there.
THEOREM CollectionTypeCorrect == Spec => []TypeOK
<1>1. Init => TypeInv
  BY InitType
<1>2. TypeInv /\ [Next]_vars => TypeInv'
  BY NextType DEF TypeInv
<1>3. TypeInv => TypeOK
  BY DEF TypeInv
<1> QED
  BY <1>1, <1>2, <1>3, PTL DEF Spec

(***************************************************************************)
(* The alias, when its own calls do not fail and the resource is not       *)
(* edited while it is swapped.                                             *)
(***************************************************************************)
Orderly ==
    /\ "aliasCallFails" \notin Faults
    /\ "Swapping" \notin EditPhases /\ "Finalizing" \notin EditPhases

\* The alias names the physical collection, or already its successor.
Switching == rs.phase \in {"Swapping", "Finalizing"}

AliasInv ==
    /\ rs # NoReshard => rs.source = Physical /\ rs.shadow # NoName /\ rs.shadow # Physical
    /\ Switching => spec.shards = rs.target
    /\ alias \in {NoName, Physical} \/ (Switching /\ alias = rs.shadow)
    /\ rs.phase = "Finalizing" => alias = rs.shadow

LEMMA IdleAlias ==
    ASSUME AliasInv, rs = NoReshard \/ ~ Switching
    PROVE  alias \in {NoName, Physical} /\ ~ Switching /\ rs.phase # "Finalizing"
BY DEF AliasInv, Switching, NoReshard

LEMMA SameAlias ==
    ASSUME AliasInv, rs' = rs, Physical' = Physical, UNCHANGED <<spec, alias>>
    PROVE  AliasInv'
BY DEF AliasInv, Switching

\* A shadow that the alias does not name is deleted without it.
LEMMA DiscardedAlias ==
    ASSUME TypeOK, AliasInv, rs \in Reshard, NEW c, Discarded(c),
           ~ Switching \/ rs.shadow \notin DOMAIN colls
    PROVE  alias' = alias /\ alias \in {NoName, Physical}
<1>1. rs.shadow # NoName /\ rs.shadow # Physical
  BY ReshardPhase DEF AliasInv
<1>2. alias # rs.shadow /\ alias \in {NoName, Physical}
  BY <1>1 DEF AliasInv, TypeOK
<1> QED
  BY <1>2 DEF Discarded, AliasWithout

\* The workflow moves on, and the alias stays with the physical collection.
LEMMA MovedAlias ==
    ASSUME AliasInv, rs \in Reshard, UNCHANGED spec, alias' = alias,
           NEW p \in Phase, NEW k, Moved(p, k), p # "Finalizing",
           p = "Swapping" => spec.shards = rs.target,
           alias \in {NoName, Physical}
    PROVE  AliasInv'
<1>1. CASE rs' = rs
  BY <1>1, SameAlias DEF Moved
<1>2. CASE rs' # rs
  <2>1. /\ rs' \in Reshard /\ rs'.source = rs.source /\ rs'.shadow = rs.shadow
        /\ rs'.target = rs.target /\ rs'.phase = p /\ Physical' = Physical
    BY <1>2 DEF Moved, SameWork
  <2>2. rs.source = Physical /\ rs.shadow # NoName /\ rs.shadow # Physical
    BY ReshardPhase DEF AliasInv
  <2> QED
    BY <2>1, <2>2 DEF AliasInv, Switching
<1> QED
  BY <1>1, <1>2

LEMMA NextAlias ==
    ASSUME TypeOK, spec.generation # 0, AliasInv, Orderly, [Next]_vars
    PROVE  AliasInv' /\ (alias # NoName /\ object = "live" => alias' # NoName)
<1>0. status \in Status /\ Physical # NoName
  BY PhysicalName DEF TypeOK
<1>1. CASE ClusterNotFound \/ Unreachable \/ ReportMismatch
  BY <1>1, ReportOutcome, SameAlias DEF SameStatus, rs
<1>2. CASE Create \/ Adopt
  <2>1. /\ UNCHANGED spec /\ rs' = rs /\ rs = NoReshard /\ Physical' = Physical
        /\ alias' \in {alias, Physical}
    BY <1>2, CreateOutcome, AdoptOutcome DEF SameStatus, LivePass, rs
  <2>2. alias \in {NoName, Physical} /\ ~ Switching /\ rs.phase # "Finalizing"
    BY <2>1, IdleAlias
  <2> QED
    BY <1>0, <2>1, <2>2 DEF AliasInv, Switching
<1>3. CASE BeginReshard
  <2>1. /\ UNCHANGED <<spec, alias>> /\ rs = NoReshard /\ Physical' = Physical
        /\ rs' \in {NoReshard, Begun}
    BY <1>3, BeginOutcome DEF LivePass, rs
  <2>2. alias \in {NoName, Physical}
    BY <2>1, IdleAlias
  <2>3. CASE rs' = NoReshard
    BY <2>1, <2>3, SameAlias
  <2>4. CASE rs' = Begun
    <3>1. spec.generation \in Nat \ {0} /\ Physical \in Name
      BY <1>0, PhysicalName DEF TypeOK, Resource
    <3>2. Append(Physical, spec.generation) # NoName
          /\ Append(Physical, spec.generation) # Physical
      BY <3>1, ShadowName
    <3>3. /\ rs'.phase = "Preparing" /\ rs'.source = Physical
          /\ rs'.shadow = Append(Physical, spec.generation)
      BY <2>4 DEF Begun
    <3> QED
      BY <2>1, <2>2, <3>2, <3>3 DEF AliasInv, Switching
  <2> QED
    BY <2>1, <2>3, <2>4
<1>4. CASE Retarget
  <2>1. /\ UNCHANGED spec /\ rs \in Reshard /\ spec.shards # rs.target /\ Physical' = Physical
        /\ rs' \in {rs, NoReshard} /\ Discarded(colls)
    BY <1>4, RetargetOutcome DEF LivePass
  <2>2. alias' = alias /\ alias \in {NoName, Physical}
    BY <2>1, DiscardedAlias DEF AliasInv
  <2>3. CASE rs' = rs
    BY <2>1, <2>2, <2>3, SameAlias
  <2>4. CASE rs' = NoReshard
    BY <2>1, <2>2, <2>4, ReshardPhase DEF AliasInv, Switching
  <2> QED
    BY <2>1, <2>2, <2>3, <2>4
<1>5. CASE Prepare
  <2>1. rs \in Reshard /\ rs.phase \in {"Preparing", "Failed"} /\ UNCHANGED spec
    BY <1>5, DrivenPass DEF Prepare, LivePass
  <2>2. ~ Switching /\ alias \in {NoName, Physical}
    BY <2>1, IdleAlias DEF Switching
  <2>3. alias' = alias
    BY <1>5, <2>1, <2>2, PrepareOutcome, DiscardedAlias
  <2>4. \E p \in {"Failed", "Copying", "Blocked"}, k \in {0, rs.cursor} : Moved(p, k)
    BY <1>5, PrepareOutcome
  <2> QED
    BY <2>1, <2>2, <2>3, <2>4, MovedAlias DEF Phase
<1>6. CASE CopyStep
  <2>1. /\ rs \in Reshard /\ rs.phase = "Copying" /\ spec.shards = rs.target
        /\ UNCHANGED spec
    BY <1>6, DrivenPass DEF CopyStep, LivePass
  <2>2. ~ Switching /\ alias \in {NoName, Physical}
    BY <2>1, IdleAlias DEF Switching
  <2>3. alias' = alias
    BY <1>6, <2>1, <2>2, CopyOutcome, DiscardedAlias
  <2>4. \E p \in {"Failed", "Copying", "Swapping"},
           k \in {0, NextPage(rs.source, rs.cursor), rs.cursor} : Moved(p, k)
    BY <1>6, CopyOutcome
  <2> QED
    BY <2>1, <2>2, <2>3, <2>4, MovedAlias DEF Phase
<1>7. CASE Swap
  <2>1. /\ rs \in Reshard /\ rs.phase = "Swapping" /\ spec.shards = rs.target
        /\ UNCHANGED spec
    BY <1>7, DrivenPass DEF Swap, LivePass
  <2>2. rs.source = Physical /\ rs.shadow # NoName /\ rs.shadow # Physical
    BY <2>1, ReshardPhase DEF AliasInv
  <2>3. CASE Moved("Finalizing", rs.cursor) /\ alias' = rs.shadow
    <3>1. CASE rs' = rs
      BY <2>1, <2>2, <2>3, <3>1 DEF Moved, AliasInv, Switching
    <3>2. CASE rs' # rs
      <4>1. /\ rs'.source = rs.source /\ rs'.shadow = rs.shadow /\ rs'.target = rs.target
            /\ rs'.phase = "Finalizing" /\ Physical' = Physical
        BY <2>3, <3>2 DEF Moved, SameWork
      <4> QED
        BY <2>1, <2>2, <2>3, <4>1 DEF AliasInv, Switching
    <3> QED
      BY <3>1, <3>2
  <2>4. CASE Moved("Failed", 0) /\ rs.shadow \notin DOMAIN colls /\ Discarded(colls)
    <3>1. alias' = alias /\ alias \in {NoName, Physical}
      BY <2>1, <2>4, DiscardedAlias
    <3> QED
      BY <2>1, <2>4, <3>1, MovedAlias DEF Phase
  <2> QED
    BY <1>7, <2>3, <2>4, SwapOutcome DEF Orderly
<1>8. CASE Finalize
  <2>1. rs \in Reshard /\ rs.phase = "Finalizing" /\ UNCHANGED spec
    BY <1>8, DrivenPass DEF Finalize, LivePass
  <2>2. /\ rs.source = Physical /\ rs.shadow # NoName /\ rs.shadow # Physical
        /\ alias = rs.shadow
    BY <2>1, ReshardPhase DEF AliasInv
  <2>3. alias' = alias
    BY <1>8, <2>2, FinalizeOutcome DEF AliasWithout
  <2>4. CASE rs' = rs /\ Physical' = Physical
    BY <2>1, <2>3, <2>4, SameAlias
  <2>5. CASE rs' = NoReshard /\ status'.active = rs.shadow
    <3>1. Physical' = rs.shadow
      BY <2>2, <2>5 DEF Physical
    <3> QED
      BY <2>2, <2>3, <2>5, <3>1 DEF AliasInv, Switching, NoReshard
  <2> QED
    BY <1>8, <2>2, <2>3, <2>4, <2>5, FinalizeOutcome
<1>9. CASE FinalizeObject
  <2>1. /\ UNCHANGED <<spec, status>> /\ object = "deleting"
        /\ alias' = alias \/ alias' = AliasWithout(alias, Physical)
    BY <1>9, FinalizeObjectOutcome
  <2>2. rs' = rs /\ Physical' = Physical
    BY <2>1 DEF rs, Physical
  <2>3. rs.phase = "Finalizing" => alias = rs.shadow /\ rs.shadow # Physical
    BY ReshardPhase DEF AliasInv, NoReshard
  <2> QED
    BY <2>1, <2>2, <2>3 DEF AliasInv, Switching, AliasWithout
<1>10. CASE \E n \in ShardNumber \cup {Unset}, d \in {"Retain", "Delete"} : SetSpec(n, d)
  <2>1. rs.phase \in EditPhases /\ UNCHANGED <<status, alias>>
    BY <1>10, EditOutcome
  <2>2. rs' = rs /\ Physical' = Physical /\ ~ Switching
    BY <2>1 DEF rs, Physical, Switching, Orderly
  <2> QED
    BY <2>1, <2>2 DEF AliasInv, Switching
<1>11. CASE \/ Wait \/ DeleteObject \/ ClusterBusy \/ ClusterIdle \/ ClusterGone
            \/ (\E p \in Point : Put(p) \/ Remove(p)) \/ UNCHANGED vars
  <2>1. UNCHANGED <<spec, status, alias>>
    BY <1>11 DEF Wait, SteadyPass, Driven, ReshardPass, LivePass, DeleteObject, ClusterBusy,
           ClusterIdle, ClusterGone, Put, Remove, Write, vars
  <2>2. rs' = rs /\ Physical' = Physical
    BY <2>1 DEF rs, Physical
  <2> QED
    BY <2>1, <2>2, SameAlias
<1> QED
  BY <1>1, <1>2, <1>3, <1>4, <1>5, <1>6, <1>7, <1>8, <1>9, <1>10, <1>11 DEF Next, Reconcile

LEMMA InitAlias ==
    ASSUME Init
    PROVE  AliasInv
<1>1. alias = NoName /\ rs = NoReshard
  BY DEF Init, rs
<1> QED
  BY <1>1 DEF AliasInv, Switching, NoReshard

\* reshard.go:192: while the resource lives, no pass takes the alias away, whichever
\* calls to delete a shadow, status updates and other calls fail, and whatever the
\* server held: the edit that the proof must exclude is one between the swap of the
\* alias and the end of the workflow.
THEOREM AliasIsKept ==
    ASSUME Orderly
    PROVE  Spec => AliasKept
<1>1. Init => TypeInv /\ AliasInv
  BY InitType, InitAlias
<1>2. TypeInv /\ AliasInv /\ [Next]_vars => TypeInv' /\ AliasInv'
  BY NextType, NextAlias DEF TypeInv
<1>3. TypeInv /\ AliasInv /\ [Next]_vars =>
          [alias # NoName /\ object = "live" => alias' # NoName]_vars
  BY NextAlias DEF TypeInv
<1> QED
  BY <1>1, <1>2, <1>3, PTL DEF Spec, AliasKept

(***************************************************************************)
(* Names.  A shadow whose shard number is the target is the workflow's     *)
(* own: the server held no other collection that could be taken for it,    *)
(* and a shadow that was left behind has the name of an earlier            *)
(* generation.                                                             *)
(***************************************************************************)
Undisputed ==
    \A c \in InitColls : \A n \in DOMAIN c : n = Base \/ c[n].shards \notin ShardNumber

ShadowNamed ==
    rs # NoReshard =>
        \E g \in 1..spec.generation :
            /\ rs.shadow = Append(Physical, g)
            /\ spec.shards # rs.target => g # spec.generation

Accounted(n) ==
    \/ Len(n) <= Len(Physical)
    \/ \E g \in 1..(spec.generation - 1) : n = Append(Physical, g)
    \/ rs # NoReshard /\ n = rs.shadow

NamesInv ==
    /\ ShadowNamed
    /\ \A n \in DOMAIN colls : colls[n].shards \in ShardNumber => Accounted(n)

\* The collections that a step may add.
Added ==
    \A n \in DOMAIN colls' :
        \/ n = Physical \/ (rs # NoReshard /\ n = rs.shadow)
        \/ n \in DOMAIN colls /\ colls'[n].shards = colls[n].shards

LEMMA SameNames ==
    ASSUME TypeOK, NamesInv, Added, UNCHANGED spec, Physical' = Physical,
           rs' = rs \/ (rs \in Reshard /\ rs' \in Reshard /\ SameWork(rs', rs))
    PROVE  NamesInv'
<1>1. (rs' # NoReshard <=> rs # NoReshard) /\ (rs # NoReshard => SameWork(rs', rs))
  BY ReshardPhase DEF SameWork
<1>2. ShadowNamed'
  BY <1>1 DEF NamesInv, ShadowNamed, SameWork
<1>3. ASSUME NEW n \in DOMAIN colls', colls'[n].shards \in ShardNumber
      PROVE  Accounted(n)'
  <2>1. Len(Physical) \in Nat
    BY PhysicalName DEF TypeOK, Name
  <2>2. Accounted(n)
    BY <1>3, <2>1 DEF Added, NamesInv, Accounted
  <2> QED
    BY <1>1, <2>2 DEF Accounted, SameWork
<1> QED
  BY <1>2, <1>3 DEF NamesInv

\* The collections that a workflow and a deletion leave are the ones that were there.
LEMMA WithoutAdded ==
    ASSUME NEW c, NEW a, Served(c, a), NEW n, colls' = Without(c, n),
           DOMAIN c = DOMAIN colls,
           \A m \in DOMAIN colls : c[m].shards = colls[m].shards
    PROVE  Added
<1>1. /\ DOMAIN Without(c, n) = DOMAIN c \ {n}
      /\ \A m \in DOMAIN c : m # n => Without(c, n)[m] = c[m]
  BY WithoutServed
<1>2. ASSUME NEW m \in DOMAIN colls'
      PROVE  m \in DOMAIN colls /\ colls'[m].shards = colls[m].shards
  BY <1>1
<1> QED
  BY <1>2 DEF Added

LEMMA PassAdded ==
    ASSUME TypeOK, \/ Create \/ Adopt \/ Retarget \/ Prepare \/ CopyStep \/ Finalize
                   \/ (Swap /\ "aliasCallFails" \notin Faults)
    PROVE  Added
<1>0. Served(colls, alias)
  BY DEF Served, TypeOK
<1>1. ASSUME colls' = colls
      PROVE  Added
  BY <1>1 DEF Added
<1>2. ASSUME Discarded(colls)
      PROVE  Added
  BY <1>0, <1>1, <1>2, WithoutAdded DEF Discarded
<1>3. CASE Create
  BY <1>1, <1>3, CreateOutcome, CreatedServed DEF Added
<1>4. CASE Adopt
  BY <1>1, <1>4, AdoptOutcome
<1>5. CASE Retarget
  BY <1>2, <1>5, RetargetOutcome
<1>6. CASE Prepare
  <2>1. /\ rs \in Reshard /\ rs # NoReshard /\ rs.shadow \in Name /\ rs.target \in Nat \ {0}
    BY <1>6, DrivenPass, ReshardPhase DEF Prepare
  <2>2. ASSUME colls' = Shadowed
        PROVE  Added
    <3>1. /\ DOMAIN Shadowed = DOMAIN colls \cup {rs.shadow}
          /\ \A m \in DOMAIN colls : m # rs.shadow => Shadowed[m] = colls[m]
      BY <1>0, <2>1, FreshType, WithServed DEF Shadowed
    <3> QED
      BY <2>1, <2>2, <3>1 DEF Added
  <2> QED
    BY <1>1, <1>2, <1>6, <2>2, PrepareOutcome
<1>7. CASE CopyStep
  <2>1. rs \in Reshard
    BY <1>7, DrivenPass DEF CopyStep
  <2>2. ASSUME Upsertable
        PROVE  /\ Served(Upserted, alias) /\ DOMAIN Upserted = DOMAIN colls
               /\ \A m \in DOMAIN colls : Upserted[m].shards = colls[m].shards
    BY <2>1, <2>2, UpsertServed DEF Upsertable
  <2>3. ASSUME Upsertable, Discarded(Upserted) \/ colls' = Upserted
        PROVE  Added
    <3>1. CASE colls' = Upserted
      BY <2>2, <2>3, <3>1 DEF Added
    <3>2. CASE colls' = Without(Upserted, rs.shadow)
      BY <2>2, <2>3, <3>2, WithoutAdded
    <3> QED
      BY <2>3, <3>1, <3>2 DEF Discarded
  <2> QED
    BY <1>2, <1>7, <2>3, CopyOutcome
<1>8. CASE Finalize
  BY <1>0, <1>1, <1>8, FinalizeOutcome, WithoutAdded
<1>9. CASE Swap /\ "aliasCallFails" \notin Faults
  BY <1>1, <1>2, <1>9, SwapOutcome
<1> QED
  BY <1>3, <1>4, <1>5, <1>6, <1>7, <1>8, <1>9

\* The name that a new workflow chooses is not that of a collection it could fill.
LEMMA NewShadow ==
    ASSUME TypeInv, NamesInv, rs = NoReshard, Append(Physical, spec.generation) \in DOMAIN colls
    PROVE  colls[Append(Physical, spec.generation)].shards \notin ShardNumber
<1>1. Physical \in Name /\ spec.generation \in Nat \ {0}
  BY PhysicalName DEF TypeInv, TypeOK, Resource
<1> DEFINE n == Append(Physical, spec.generation)
<1>2. Len(n) = Len(Physical) + 1 /\ Len(Physical) \in Nat
  BY <1>1, ShadowName
<1>3. ASSUME NEW g \in 1..(spec.generation - 1)
      PROVE  n # Append(Physical, g)
  <2>1. g \in Nat /\ g # spec.generation
    BY <1>1
  <2> QED
    BY <1>1, <2>1, ShadowInjective
<1>4. ~ Accounted(n)
  BY <1>2, <1>3 DEF Accounted
<1> QED
  BY <1>4 DEF NamesInv

LEMMA NextNames ==
    ASSUME TypeInv, AliasInv, NamesInv, Orderly, [Next]_vars
    PROVE  NamesInv'
<1>0. /\ TypeOK /\ Physical \in Name /\ Physical # NoName /\ spec.generation \in Nat \ {0}
      /\ Len(Physical) \in Nat
  BY PhysicalName DEF TypeInv, TypeOK, Resource, Name
<1>1. CASE ClusterNotFound \/ Unreachable \/ ReportMismatch
  <2>1. SameStatus /\ UNCHANGED <<spec, colls>>
    BY <1>0, <1>1, ReportOutcome
  <2> QED
    BY <1>0, <2>1, SameNames DEF SameStatus, rs, Added
<1>2. CASE Create \/ Adopt
  <2>1. UNCHANGED spec /\ rs' = rs /\ Physical' = Physical
    BY <1>0, <1>2, CreateOutcome, AdoptOutcome DEF SameStatus, LivePass, rs
  <2> QED
    BY <1>0, <1>2, <2>1, PassAdded, SameNames
<1>3. CASE BeginReshard
  <2>1. /\ UNCHANGED <<spec, colls>> /\ rs = NoReshard /\ Physical' = Physical
        /\ rs' \in {NoReshard, Begun}
    BY <1>0, <1>3, BeginOutcome DEF LivePass, rs, TypeInv
  <2>2. CASE rs' = NoReshard
    BY <1>0, <2>1, <2>2, SameNames DEF Added
  <2>3. CASE rs' = Begun
    <3>1. rs'.shadow = Append(Physical, spec.generation) /\ rs'.target = spec.shards
      BY <2>3 DEF Begun
    <3>2. ShadowNamed'
      BY <1>0, <2>1, <3>1 DEF ShadowNamed
    <3>3. ASSUME NEW n \in DOMAIN colls', colls'[n].shards \in ShardNumber
          PROVE  Accounted(n)'
      BY <2>1, <3>3 DEF NamesInv, Accounted
    <3> QED
      BY <3>2, <3>3 DEF NamesInv
  <2> QED
    BY <2>1, <2>2, <2>3
<1>4. CASE Retarget
  <2>1. /\ UNCHANGED spec /\ rs \in Reshard /\ spec.shards # rs.target /\ Physical' = Physical
        /\ rs' \in {rs, NoReshard} /\ Discarded(colls) /\ Added
    BY <1>0, <1>4, RetargetOutcome, PassAdded DEF LivePass
  <2>2. CASE rs' = rs
    BY <1>0, <2>1, <2>2, SameNames
  <2>3. CASE rs' = NoReshard
    <3>1. PICK g \in 1..spec.generation : rs.shadow = Append(Physical, g) /\ g # spec.generation
      BY <2>1, ReshardPhase DEF NamesInv, ShadowNamed
    <3>2. g \in 1..(spec.generation - 1)
      BY <1>0, <3>1
    <3>3. ASSUME NEW n \in DOMAIN colls', colls'[n].shards \in ShardNumber
          PROVE  Accounted(n)'
      <4>1. Accounted(n)
        BY <1>0, <2>1, <3>3 DEF Added, NamesInv, Accounted
      <4> QED
        BY <2>1, <3>1, <3>2, <4>1 DEF Accounted
    <3> QED
      BY <2>3, <3>3 DEF NamesInv, ShadowNamed
  <2> QED
    BY <2>1, <2>2, <2>3
<1>5. CASE Prepare \/ CopyStep \/ Swap
  <2>1. UNCHANGED spec /\ rs \in Reshard
    BY <1>0, <1>5, DrivenPass DEF Prepare, CopyStep, Swap, LivePass
  <2>2. \E p, k : Moved(p, k)
    BY <1>0, <1>5, PrepareOutcome, CopyOutcome, SwapOutcome
  <2>3. Physical' = Physical /\ (rs' = rs \/ (rs' \in Reshard /\ SameWork(rs', rs)))
    BY <2>2 DEF Moved
  <2> QED
    BY <1>0, <1>5, <2>1, <2>3, PassAdded, SameNames DEF Orderly
<1>6. CASE Finalize
  <2>1. UNCHANGED spec /\ rs \in Reshard /\ Added
    BY <1>0, <1>6, DrivenPass, PassAdded DEF Finalize, LivePass
  <2>2. CASE rs' = rs /\ Physical' = Physical
    BY <1>0, <2>1, <2>2, SameNames
  <2>3. CASE rs' = NoReshard /\ status'.active = rs.shadow
    <3>1. rs.shadow # NoName /\ rs # NoReshard
      BY <2>1, ReshardPhase DEF AliasInv
    <3>2. Physical' = rs.shadow
      BY <2>3, <3>1 DEF Physical
    <3>3. PICK g \in 1..spec.generation : rs.shadow = Append(Physical, g)
      BY <3>1 DEF NamesInv, ShadowNamed
    <3>4. \A h \in 1..spec.generation : Len(Append(Physical, h)) = Len(Physical) + 1
      BY <1>0, ShadowName
    <3>5. ASSUME NEW n \in DOMAIN colls', colls'[n].shards \in ShardNumber
          PROVE  Accounted(n)'
      <4>1. Accounted(n)
        BY <1>0, <2>1, <3>5 DEF Added, NamesInv, Accounted
      <4>2. Len(n) <= Len(Physical) \/ Len(n) = Len(Physical) + 1
        <5>1. \A h \in 1..(spec.generation - 1) : h \in 1..spec.generation
          BY <1>0
        <5> QED
          BY <3>3, <3>4, <4>1, <5>1 DEF Accounted
      <4>3. Len(n) \in Nat
        BY <1>0, <1>6, <3>5, FinalizeOutcome DEF Served, Name
      <4>4. Len(n) <= Len(Physical')
        BY <1>0, <3>2, <3>3, <3>4, <4>2, <4>3
      <4> QED
        BY <4>4 DEF Accounted
    <3> QED
      BY <2>3, <3>5 DEF NamesInv, ShadowNamed
  <2> QED
    BY <1>0, <1>6, <2>2, <2>3, FinalizeOutcome
<1>7. CASE FinalizeObject
  <2>1. /\ UNCHANGED <<spec, status>>
        /\ colls' = colls \/ colls' = Without(colls, Physical)
    BY <1>0, <1>7, FinalizeObjectOutcome
  <2>2. rs' = rs /\ Physical' = Physical
    BY <2>1 DEF rs, Physical
  <2>3. Served(colls, alias)
    BY <1>0 DEF TypeOK, Served
  <2>4. Added
    BY <2>1, <2>3, WithoutAdded DEF Added
  <2> QED
    BY <1>0, <2>1, <2>2, <2>4, SameNames
<1>8. CASE \E n \in ShardNumber \cup {Unset}, d \in {"Retain", "Delete"} : SetSpec(n, d)
  <2>1. UNCHANGED <<status, colls>> /\ spec'.generation = spec.generation + 1
    BY <1>0, <1>8, EditOutcome
  <2>2. rs' = rs /\ Physical' = Physical
    BY <2>1 DEF rs, Physical
  <2>3. ShadowNamed'
    <3>1. ASSUME NEW g \in 1..spec.generation
          PROVE  g \in 1..spec'.generation /\ g # spec'.generation
      BY <1>0, <2>1
    <3> QED
      BY <2>2, <3>1 DEF NamesInv, ShadowNamed
  <2>4. ASSUME NEW n \in DOMAIN colls', colls'[n].shards \in ShardNumber
        PROVE  Accounted(n)'
    <3>1. Accounted(n)
      BY <2>1, <2>4 DEF NamesInv
    <3>2. \A g \in 1..(spec.generation - 1) : g \in 1..(spec'.generation - 1)
      BY <1>0, <2>1
    <3> QED
      BY <2>2, <3>1, <3>2 DEF Accounted
  <2> QED
    BY <2>3, <2>4 DEF NamesInv
<1>9. CASE \E p \in Point : Put(p) \/ Remove(p)
  <2>1. \E pts \in SUBSET Point : Write(pts)
    BY <1>0, <1>9, PointsType DEF Put, Remove
  <2>2. /\ UNCHANGED <<spec, status>> /\ DOMAIN colls' = DOMAIN colls
        /\ \A m \in DOMAIN colls : colls'[m].shards = colls[m].shards
    BY <1>0, <2>1, WriteOutcome
  <2>3. rs' = rs /\ Physical' = Physical
    BY <2>2 DEF rs, Physical
  <2> QED
    BY <1>0, <2>2, <2>3, SameNames DEF Added
<1>10. CASE \/ Wait \/ DeleteObject \/ ClusterBusy \/ ClusterIdle \/ ClusterGone
            \/ UNCHANGED vars
  <2>1. UNCHANGED <<spec, status, colls>>
    BY <1>10 DEF Wait, SteadyPass, Driven, ReshardPass, LivePass, DeleteObject, ClusterBusy,
           ClusterIdle, ClusterGone, vars
  <2>2. rs' = rs /\ Physical' = Physical
    BY <2>1 DEF rs, Physical
  <2> QED
    BY <1>0, <2>1, <2>2, SameNames DEF Added
<1> QED
  BY <1>1, <1>2, <1>3, <1>4, <1>5, <1>6, <1>7, <1>8, <1>9, <1>10 DEF Next, Reconcile

(***************************************************************************)
(* The copy.  From the first page to the swap no client writes to the      *)
(* source: the shadow, empty before, holds a part of it, every point       *)
(* before the cursor, and all of it once the alias may be swapped.         *)
(***************************************************************************)
ReadOnly == WritePhases \subseteq {"None", "Preparing", "Finalizing"}

PointsIn(c, n) == IF n \in DOMAIN c THEN c[n].points ELSE {}
From(c, r) == {p \in PointsIn(c, r.source) : p >= r.cursor}

Copied(r, c) ==
    /\ r.target \in ShardNumber
    /\ r.phase # "Finalizing" /\ r.shadow \in DOMAIN c /\ c[r.shadow].shards \in ShardNumber =>
           PointsIn(c, r.shadow) \subseteq PointsIn(c, r.source)
    /\ r.phase = "Preparing" /\ r.shadow \in DOMAIN c /\ c[r.shadow].shards \in ShardNumber =>
           PointsIn(c, r.shadow) = {}
    /\ r.phase \in {"Copying", "Swapping"} /\ r.shadow \in DOMAIN c =>
           c[r.shadow].shards = r.target
    /\ r.phase = "Copying" /\ r.cursor # 0 => From(c, r) # {}
    /\ r.phase = "Copying" /\ r.shadow \in DOMAIN c =>
           PointsIn(c, r.source) \ From(c, r) \subseteq PointsIn(c, r.shadow)
    /\ r.phase = "Swapping" /\ r.shadow \in DOMAIN c =>
           PointsIn(c, r.source) \subseteq PointsIn(c, r.shadow)

CopyInv == object = "live" /\ rs # NoReshard => Copied(rs, colls)

\* The source is as it was, and the shadow gone, or grown by points of the source.
GrownTo(r, c, d) ==
    /\ PointsIn(d, r.source) = PointsIn(c, r.source)
    /\ r.shadow \in DOMAIN d =>
           /\ r.shadow \in DOMAIN c /\ d[r.shadow].shards = c[r.shadow].shards
           /\ PointsIn(c, r.shadow) \subseteq PointsIn(d, r.shadow)
           /\ PointsIn(d, r.shadow) \subseteq PointsIn(c, r.shadow) \cup PointsIn(c, r.source)
           /\ r.phase = "Preparing" => PointsIn(d, r.shadow) = PointsIn(c, r.shadow)

LEMMA CopiedOn ==
    ASSUME NEW r, NEW c, NEW d, Copied(r, c), GrownTo(r, c, d)
    PROVE  Copied(r, d)
<1>1. From(d, r) = From(c, r)
  BY DEF From, GrownTo
<1> QED
  BY <1>1 DEF Copied, GrownTo

\* Away from the copy and the swap, only what the shadow holds matters.
LEMMA CopiedAside ==
    ASSUME NEW r, NEW q, NEW c, NEW d, Copied(r, c), GrownTo(r, c, d), SameWork(q, r),
           r.phase # "Finalizing", q.phase \notin {"Preparing", "Copying", "Swapping"}
    PROVE  Copied(q, d)
BY DEF Copied, GrownTo, SameWork

LEMMA GrownSame ==
    ASSUME NEW r, NEW c
    PROVE  GrownTo(r, c, c)
BY DEF GrownTo

LEMMA GrownWithout ==
    ASSUME NEW r, NEW c, NEW d, NEW a, Served(d, a), GrownTo(r, c, d), r.shadow # r.source
    PROVE  GrownTo(r, c, Without(d, r.shadow))
<1> DEFINE e == Without(d, r.shadow)
<1>1. /\ DOMAIN e = DOMAIN d \ {r.shadow}
      /\ \A m \in DOMAIN d : m # r.shadow => e[m] = d[m]
  BY WithoutServed
<1> HIDE DEF e
<1>2. PointsIn(e, r.source) = PointsIn(d, r.source)
  BY <1>1 DEF PointsIn
<1> QED
  BY <1>1, <1>2 DEF GrownTo, e

LEMMA GrownUpserted ==
    ASSUME TypeOK, rs \in Reshard, rs.shadow # rs.source, rs.phase = "Copying", Upsertable
    PROVE  GrownTo(rs, colls, Upserted)
<1> DEFINE page == Page(rs.source, rs.cursor)
<1>1. /\ DOMAIN Upserted = DOMAIN colls
      /\ \A m \in DOMAIN colls : m # rs.shadow => Upserted[m] = colls[m]
      /\ rs.shadow \in DOMAIN colls =>
             /\ Upserted[rs.shadow].points = PointsOf(rs.shadow) \cup page
             /\ Upserted[rs.shadow].shards = colls[rs.shadow].shards
  BY UpsertServed DEF Upsertable
<1>2. page \subseteq PointsOf(rs.source)
  <2>1. rs.cursor \in Nat
    BY DEF Reshard
  <2> QED
    BY <2>1, PageCursor
<1> HIDE DEF page
<1>3. PointsIn(Upserted, rs.source) = PointsIn(colls, rs.source)
  BY <1>1 DEF PointsIn
<1>4. rs.shadow \in DOMAIN colls =>
          PointsIn(Upserted, rs.shadow) = PointsIn(colls, rs.shadow) \cup page
  BY <1>1 DEF PointsIn, PointsOf
<1>5. page \subseteq PointsIn(colls, rs.source)
  BY <1>2 DEF PointsIn, PointsOf
<1> QED
  BY <1>1, <1>3, <1>4, <1>5 DEF GrownTo

\* A pass that gives up, after the upsert or before it.
LEMMA GrownDiscarded ==
    ASSUME NEW c, NEW a, Served(c, a), GrownTo(rs, colls, c), rs.shadow # rs.source,
           Discarded(c)
    PROVE  GrownTo(rs, colls, colls')
<1>1. CASE colls' = c
  BY <1>1
<1>2. CASE colls' = Without(c, rs.shadow)
  <2>1. GrownTo(rs, colls, Without(c, rs.shadow))
    BY GrownWithout
  <2> QED
    BY <1>2, <2>1
<1> QED
  BY <1>1, <1>2 DEF Discarded

\* What a pass that drives the workflow may rely on.
LEMMA DrivenCopy ==
    ASSUME TypeInv, AliasInv, CopyInv, NEW P, Driven(P)
    PROVE  /\ rs \in Reshard /\ rs.phase \in P /\ rs.shadow # rs.source /\ rs.source = Physical
           /\ Copied(rs, colls) /\ object = "live" /\ object' = "live" /\ TypeOK
           /\ rs.cursor \in Nat
           /\ rs.shadow \in Name /\ rs.target \in Nat \ {0} /\ Served(colls, alias)
<1>1. /\ LivePass /\ rs \in Reshard /\ rs.phase \in P /\ TypeOK /\ rs.cursor \in Nat
      /\ rs.shadow \in Name /\ rs.target \in Nat \ {0} /\ Served(colls, alias)
  BY DrivenPass DEF TypeInv
<1>2. rs # NoReshard
  BY <1>1, ReshardPhase
<1> QED
  BY <1>1, <1>2 DEF AliasInv, CopyInv, LivePass

\* From the first cursor nothing has been copied yet.
LEMMA FromZero ==
    ASSUME NEW c, NEW q, q.cursor = 0, PointsIn(c, q.source) \subseteq Nat
    PROVE  From(c, q) = PointsIn(c, q.source)
BY DEF From

LEMMA PrepareCopied ==
    ASSUME TypeInv, AliasInv, CopyInv, Prepare
    PROVE  CopyInv'
<1>1. /\ rs \in Reshard /\ rs.phase \in {"Preparing", "Failed"} /\ rs.shadow # rs.source
      /\ Copied(rs, colls) /\ TypeOK /\ rs.shadow \in Name /\ rs.target \in Nat \ {0}
      /\ Served(colls, alias)
  BY DrivenCopy DEF Prepare
<1>2. PointsIn(colls, rs.source) \subseteq Nat
  BY <1>1, PointsType DEF PointsIn, PointsOf
<1>3. ASSUME GrownTo(rs, colls, colls'), NEW p, NEW k, Moved(p, k),
             p \notin {"Preparing", "Copying", "Swapping"}
      PROVE  CopyInv'
  <2>1. CASE rs' = rs
    BY <1>1, <1>3, <2>1, CopiedOn DEF CopyInv
  <2>2. CASE rs' # rs
    BY <1>1, <1>3, <2>2, CopiedAside DEF CopyInv, Moved
  <2> QED
    BY <2>1, <2>2
<1>4. CASE Moved("Failed", 0) /\ Discarded(colls)
  <2>1. GrownTo(rs, colls, colls')
    BY <1>1, <1>4, GrownSame, GrownDiscarded
  <2> QED
    BY <1>3, <1>4, <2>1
<1>5. CASE Moved("Blocked", rs.cursor) /\ UNCHANGED <<colls, alias>>
  <2>1. GrownTo(rs, colls, colls')
    BY <1>5, GrownSame
  <2> QED
    BY <1>3, <1>5, <2>1
<1>6. CASE Moved("Copying", 0) /\ colls' = Shadowed
  <2>1. /\ DOMAIN Shadowed = DOMAIN colls \cup {rs.shadow}
        /\ Shadowed[rs.shadow] = Fresh(rs.target)
        /\ \A m \in DOMAIN colls : m # rs.shadow => Shadowed[m] = colls[m]
    BY DEF Shadowed, With
  <2>2. /\ Shadowed[rs.shadow].shards = rs.target
        /\ PointsIn(Shadowed, rs.shadow) = {}
        /\ PointsIn(Shadowed, rs.source) = PointsIn(colls, rs.source)
    BY <1>1, <2>1, FreshType DEF PointsIn
  <2>3. CASE rs' = rs
    <3>1. Copied(rs, Shadowed)
      BY <1>1, <2>2 DEF Copied
    <3> QED
      BY <1>6, <2>3, <3>1 DEF CopyInv
  <2>4. CASE rs' # rs
    <3>1. SameWork(rs', rs) /\ rs'.phase = "Copying" /\ rs'.cursor = 0
      BY <1>6, <2>4 DEF Moved
    <3>2. From(Shadowed, rs') = PointsIn(Shadowed, rs'.source)
      BY <1>2, <2>2, <3>1, FromZero DEF SameWork
    <3>3. Copied(rs', Shadowed)
      BY <1>1, <2>2, <3>1, <3>2 DEF Copied, SameWork
    <3> QED
      BY <1>6, <3>3 DEF CopyInv
  <2> QED
    BY <2>3, <2>4
<1>7. CASE /\ Moved("Copying", 0) /\ rs.shadow \in DOMAIN colls
           /\ colls[rs.shadow].shards = rs.target /\ UNCHANGED <<colls, alias>>
  <2>1. CASE rs' = rs
    BY <1>1, <1>7, <2>1 DEF CopyInv
  <2>2. CASE rs' # rs
    <3>1. SameWork(rs', rs) /\ rs'.phase = "Copying" /\ rs'.cursor = 0
      BY <1>7, <2>2 DEF Moved
    <3>2. From(colls, rs') = PointsIn(colls, rs'.source)
      BY <1>2, <3>1, FromZero DEF SameWork
    <3>3. Copied(rs', colls)
      BY <1>1, <1>7, <3>1, <3>2 DEF Copied, SameWork
    <3> QED
      BY <1>7, <3>3 DEF CopyInv
  <2> QED
    BY <2>1, <2>2
<1> QED
  BY <1>1, <1>4, <1>5, <1>6, <1>7, PrepareOutcome

LEMMA CopyCopied ==
    ASSUME TypeInv, AliasInv, CopyInv, CopyStep
    PROVE  CopyInv'
<1>1. /\ rs \in Reshard /\ rs.phase = "Copying" /\ rs.shadow # rs.source
      /\ Copied(rs, colls) /\ TypeOK /\ Served(colls, alias) /\ rs.cursor \in Nat
  BY DrivenCopy DEF CopyStep
<1> DEFINE page == Page(rs.source, rs.cursor)
           next == NextPage(rs.source, rs.cursor)
           src == PointsIn(colls, rs.source)
<1>2. /\ page \subseteq From(colls, rs) /\ next \in Nat /\ src \subseteq Nat
      /\ next = 0 => From(colls, rs) \subseteq page
      /\ next # 0 => next \in From(colls, rs) /\ \A p \in From(colls, rs) : p < next => p \in page
  <2>1. From(colls, rs) = Remaining(rs.source, rs.cursor) /\ src = PointsOf(rs.source)
    BY DEF From, Remaining, PointsIn, PointsOf
  <2> QED
    BY <1>1, <2>1, PageCursor, PointsType
<1>3. Upsertable => Served(Upserted, alias) /\ GrownTo(rs, colls, Upserted)
  BY <1>1, UpsertServed, GrownUpserted DEF Upsertable
<1>4. ASSUME Upsertable, rs.shadow \in DOMAIN Upserted
      PROVE  /\ PointsIn(Upserted, rs.shadow) = PointsIn(colls, rs.shadow) \cup page
             /\ rs.shadow \in DOMAIN colls
             /\ Upserted[rs.shadow].shards = colls[rs.shadow].shards
  <2>1. /\ DOMAIN Upserted = DOMAIN colls
        /\ Upserted[rs.shadow].points = PointsOf(rs.shadow) \cup page
        /\ Upserted[rs.shadow].shards = colls[rs.shadow].shards
    BY <1>1, <1>4, UpsertServed DEF Upsertable
  <2> QED
    BY <1>4, <2>1 DEF PointsIn, PointsOf
<1> HIDE DEF page, next, src
<1>5. ASSUME rs' = rs, GrownTo(rs, colls, colls')
      PROVE  CopyInv'
  BY <1>1, <1>5, CopiedOn DEF CopyInv
<1>6. CASE /\ Moved("Failed", 0)
           /\ Discarded(colls) \/ (Upsertable /\ Discarded(Upserted))
  <2>1. GrownTo(rs, colls, colls')
    BY <1>1, <1>3, <1>6, GrownSame, GrownDiscarded
  <2>2. CASE rs' # rs
    BY <1>1, <1>6, <2>1, <2>2, CopiedAside DEF CopyInv, Moved
  <2> QED
    BY <1>5, <2>1, <2>2
<1>7. CASE Moved("Copying", next) /\ Upsertable /\ next # 0 /\ colls' = Upserted
  <2>1. GrownTo(rs, colls, Upserted) /\ GrownTo(rs, colls, colls')
    BY <1>3, <1>7
  <2>2. CASE rs' # rs
    <3>1. SameWork(rs', rs) /\ rs'.phase = "Copying" /\ rs'.cursor = next
      BY <1>7, <2>2 DEF Moved
    <3>2. PointsIn(Upserted, rs.source) = src
      BY <2>1 DEF GrownTo, src
    <3>3. From(Upserted, rs') = {p \in src : p >= next}
      BY <3>1, <3>2 DEF From, SameWork
    <3>4. next \in From(Upserted, rs')
      BY <1>2, <1>7, <3>3 DEF From, src
    <3>5. ASSUME NEW p \in src \ From(Upserted, rs'), rs.shadow \in DOMAIN Upserted
          PROVE  p \in PointsIn(Upserted, rs.shadow)
      <4>1. p < next
        BY <1>2, <3>3, <3>5
      <4>2. CASE p \in From(colls, rs)
        BY <1>2, <1>4, <1>7, <3>5, <4>1, <4>2
      <4>3. CASE p \notin From(colls, rs)
        BY <1>1, <1>4, <1>7, <3>5, <4>3 DEF Copied, src
      <4> QED
        BY <4>2, <4>3
    <3>6. Copied(rs', Upserted)
      <4>1. Copied(rs, Upserted)
        BY <1>1, <2>1, CopiedOn
      <4> QED
        BY <1>1, <3>1, <3>2, <3>4, <3>5, <4>1 DEF Copied, SameWork
    <3> QED
      BY <1>7, <3>6 DEF CopyInv
  <2> QED
    BY <1>5, <2>1, <2>2
<1>8. CASE Moved("Swapping", rs.cursor) /\ Upsertable /\ next = 0 /\ colls' = Upserted
  <2>1. GrownTo(rs, colls, Upserted) /\ GrownTo(rs, colls, colls')
    BY <1>3, <1>8
  <2>2. CASE rs' # rs
    <3>1. SameWork(rs', rs) /\ rs'.phase = "Swapping"
      BY <1>8, <2>2 DEF Moved
    <3>2. PointsIn(Upserted, rs.source) = src
      BY <2>1 DEF GrownTo, src
    <3>3. ASSUME NEW p \in src, rs.shadow \in DOMAIN Upserted
          PROVE  p \in PointsIn(Upserted, rs.shadow)
      <4>1. CASE p \in From(colls, rs)
        BY <1>2, <1>4, <1>8, <3>3, <4>1
      <4>2. CASE p \notin From(colls, rs)
        BY <1>1, <1>4, <1>8, <3>3, <4>2 DEF Copied, src
      <4> QED
        BY <4>1, <4>2
    <3>4. Copied(rs, Upserted)
      BY <1>1, <2>1, CopiedOn
    <3>5. Copied(rs', Upserted)
      BY <1>1, <3>1, <3>2, <3>3, <3>4 DEF Copied, SameWork
    <3> QED
      BY <1>8, <3>5 DEF CopyInv
  <2> QED
    BY <1>5, <2>1, <2>2
<1> QED
  BY <1>1, <1>6, <1>7, <1>8, CopyOutcome DEF next

\* A client finds the points of the physical collection, or of its successor.
LEMMA ClientView ==
    ASSUME TypeInv, AliasInv
    PROVE  /\ PointsOf(Named) = PointsIn(colls, Named)
           /\ alias \in {NoName, Physical} => Named = Physical
           /\ alias \notin {NoName, Physical} => Named = rs.shadow /\ Switching
BY DEF PointsOf, PointsIn, Named, AliasInv

LEMMA NextCopy ==
    ASSUME TypeInv, AliasInv, NamesInv, CopyInv, Orderly, ReadOnly, [Next]_vars
    PROVE  CopyInv'
<1>0. TypeOK /\ Served(colls, alias)
  BY DEF TypeInv, TypeOK, Served
<1>1. ASSUME UNCHANGED <<object, colls>>, rs' = rs
      PROVE  CopyInv'
  BY <1>1 DEF CopyInv
<1>2. ASSUME rs' = NoReshard
      PROVE  CopyInv'
  BY <1>2 DEF CopyInv
<1>3. CASE ClusterNotFound \/ Unreachable \/ ReportMismatch
  BY <1>0, <1>1, <1>3, ReportOutcome DEF SameStatus, rs
<1>4. CASE Create \/ Adopt
  BY <1>0, <1>2, <1>4, CreateOutcome, AdoptOutcome DEF SameStatus, rs
<1>5. CASE BeginReshard
  <2>1. /\ UNCHANGED colls /\ rs = NoReshard /\ rs' \in {NoReshard, Begun}
        /\ spec.shards \in ShardNumber
    BY <1>0, <1>5, BeginOutcome DEF TypeInv, rs
  <2>2. Copied(Begun, colls)
    <3>1. /\ Begun.phase = "Preparing" /\ Begun.target = spec.shards
          /\ Begun.shadow = Append(Physical, spec.generation)
      BY DEF Begun
    <3> QED
      BY <2>1, <3>1, NewShadow DEF Copied
  <2> QED
    BY <1>2, <2>1, <2>2 DEF CopyInv
<1>6. CASE Retarget
  <2>1. /\ rs \in Reshard /\ rs' \in {rs, NoReshard} /\ Discarded(colls) /\ object = "live"
    BY <1>0, <1>6, RetargetOutcome DEF LivePass
  <2>2. rs.shadow # rs.source /\ Copied(rs, colls)
    BY <2>1, ReshardPhase DEF AliasInv, CopyInv
  <2>3. GrownTo(rs, colls, colls')
    BY <1>0, <2>1, <2>2, GrownSame, GrownDiscarded
  <2> QED
    BY <1>2, <2>1, <2>2, <2>3, CopiedOn DEF CopyInv
<1>7. CASE Prepare
  BY <1>7, PrepareCopied
<1>8. CASE CopyStep
  BY <1>8, CopyCopied
<1>9. CASE Swap
  <2>1. /\ rs \in Reshard /\ rs.phase = "Swapping" /\ rs.shadow # rs.source
        /\ Copied(rs, colls)
    BY <1>9, DrivenCopy DEF Swap
  <2>2. ASSUME GrownTo(rs, colls, colls'), NEW p, NEW k, Moved(p, k),
               p \notin {"Preparing", "Copying", "Swapping"}
        PROVE  CopyInv'
    <3>1. CASE rs' = rs
      BY <2>1, <2>2, <3>1, CopiedOn DEF CopyInv
    <3>2. CASE rs' # rs
      BY <2>1, <2>2, <3>2, CopiedAside DEF CopyInv, Moved
    <3> QED
      BY <3>1, <3>2
  <2>3. CASE Moved("Finalizing", rs.cursor) /\ colls' = colls
    BY <2>2, <2>3, GrownSame
  <2>4. CASE Moved("Failed", 0) /\ Discarded(colls)
    <3>1. GrownTo(rs, colls, colls')
      BY <1>0, <2>1, <2>4, GrownSame, GrownDiscarded
    <3> QED
      BY <2>2, <2>4, <3>1
  <2> QED
    BY <1>0, <1>9, <2>3, <2>4, SwapOutcome DEF Orderly
<1>10. CASE Finalize
  <2>1. rs.phase = "Finalizing" /\ Copied(rs, colls)
    BY <1>10, DrivenCopy DEF Finalize
  <2>2. Copied(rs, colls')
    BY <2>1 DEF Copied
  <2> QED
    BY <1>0, <1>2, <1>10, <2>2, FinalizeOutcome DEF CopyInv
<1>11. CASE FinalizeObject \/ DeleteObject
  BY <1>11 DEF FinalizeObject, DeleteObject, CopyInv
<1>12. CASE \E n \in ShardNumber \cup {Unset}, d \in {"Retain", "Delete"} : SetSpec(n, d)
  BY <1>0, <1>1, <1>12, EditOutcome DEF rs
<1>13. CASE \E p \in Point : Put(p) \/ Remove(p)
  <2>1. \E pts \in SUBSET Point : Write(pts)
    BY <1>0, <1>13, PointsType DEF Put, Remove
  <2>2. UNCHANGED <<object, status>> /\ rs.phase \in {"None", "Preparing", "Finalizing"}
    BY <1>0, <2>1, WriteOutcome DEF ReadOnly
  <2>3. rs' = rs
    BY <2>2 DEF rs
  <2>4. CASE rs.phase = "None"
    <3>1. rs = NoReshard
      BY <1>0, <2>4, ReshardPhase DEF TypeOK, Status, rs
    <3> QED
      BY <1>2, <2>3, <3>1
  <2>5. CASE rs.phase = "Finalizing"
    BY <2>2, <2>3, <2>5 DEF CopyInv, Copied
  <2>6. CASE rs.phase = "Preparing" /\ object = "live"
    <3>1. rs # NoReshard /\ rs.source = Physical /\ rs.shadow # rs.source
      BY <1>0, <2>6, ReshardPhase DEF AliasInv, NoReshard
    <3>2. Named = rs.source
      BY <2>6, <3>1, ClientView DEF AliasInv, Switching
    <3>3. /\ DOMAIN colls' = DOMAIN colls
          /\ \A m \in DOMAIN colls : m # rs.source => colls'[m] = colls[m]
      BY <2>1, <3>2 DEF Write
    <3>4. Copied(rs, colls)
      BY <2>6, <3>1 DEF CopyInv
    <3>5. Copied(rs, colls')
      BY <2>6, <3>1, <3>3, <3>4 DEF Copied, PointsIn
    <3> QED
      BY <2>3, <3>5 DEF CopyInv
  <2> QED
    BY <2>2, <2>4, <2>5, <2>6 DEF CopyInv
<1>14. CASE Wait \/ ClusterBusy \/ ClusterIdle \/ ClusterGone \/ UNCHANGED vars
  <2>1. UNCHANGED <<object, status, colls>>
    BY <1>14 DEF Wait, SteadyPass, Driven, ReshardPass, LivePass, ClusterBusy, ClusterIdle,
           ClusterGone, vars
  <2> QED
    BY <1>1, <2>1 DEF rs
<1> QED
  BY <1>3, <1>4, <1>5, <1>6, <1>7, <1>8, <1>9, <1>10, <1>11, <1>12, <1>13, <1>14
     DEF Next, Reconcile

(***************************************************************************)
(* The refinement: what a client finds under the alias is changed by the   *)
(* clients, and by the deletion of the resource, alone.                    *)
(***************************************************************************)
\* A pass of the controller over a live resource is invisible.
LEMMA PassInvisible ==
    ASSUME TypeInv, AliasInv, CopyInv, Orderly,
           \/ ClusterNotFound \/ Unreachable \/ Create \/ Adopt \/ BeginReshard
           \/ ReportMismatch \/ Retarget \/ Prepare \/ CopyStep \/ Swap \/ Finalize \/ Wait
    PROVE  PointsOf(Named)' = PointsOf(Named) /\ Budgeted /\ UNCHANGED object
<1>0. TypeOK /\ Served(colls, alias) /\ Physical # NoName
  BY PhysicalName DEF TypeInv, TypeOK, Served
<1>1. PointsOf(Named) = PointsIn(colls, Named) /\ PointsOf(Named)' = PointsIn(colls', Named')
  BY DEF PointsOf, PointsIn
<1>2. ASSUME alias' = alias, Physical' = Physical
      PROVE  Named' = Named
  BY <1>2 DEF Named
<1>3. CASE ClusterNotFound \/ Unreachable \/ ReportMismatch
  BY <1>0, <1>1, <1>2, <1>3, ReportOutcome DEF SameStatus
<1>4. CASE Create
  <2>1. /\ rs = NoReshard /\ Physical' = Physical /\ alias' \in {alias, Physical} /\ Budgeted
        /\ UNCHANGED object /\ Physical \notin DOMAIN colls /\ colls' \in {colls, Created}
    BY <1>0, <1>4, CreateOutcome DEF SameStatus, LivePass, rs
  <2>2. alias \in {NoName, Physical}
    BY <2>1, IdleAlias
  <2>3. Named = Physical /\ Named' = Physical
    BY <2>1, <2>2 DEF Named
  <2>4. PointsIn(colls, Physical) = {} /\ PointsIn(Created, Physical) = {}
    BY <1>0, <2>1, CreatedServed DEF PointsIn
  <2> QED
    BY <1>1, <2>1, <2>3, <2>4
<1>5. CASE Adopt
  <2>1. /\ rs = NoReshard /\ Physical' = Physical /\ alias' \in {alias, Physical} /\ Budgeted
        /\ UNCHANGED <<object, colls>>
    BY <1>0, <1>5, AdoptOutcome DEF SameStatus, LivePass, rs
  <2>2. alias \in {NoName, Physical}
    BY <2>1, IdleAlias
  <2>3. Named = Physical /\ Named' = Physical
    BY <2>1, <2>2 DEF Named
  <2> QED
    BY <1>1, <2>1, <2>3
<1>6. CASE BeginReshard
  BY <1>0, <1>1, <1>2, <1>6, BeginOutcome DEF TypeInv, LivePass
<1>7. ASSUME rs \in Reshard
      PROVE  rs.source = Physical /\ rs.shadow # Physical /\ rs.shadow # NoName
  BY <1>7, ReshardPhase DEF AliasInv
<1>8. ASSUME rs \in Reshard, alias' = alias, Physical' = Physical, alias \in {NoName, Physical},
             Budgeted, UNCHANGED object,
             PointsIn(colls', rs.source) = PointsIn(colls, rs.source)
      PROVE  PointsOf(Named)' = PointsOf(Named) /\ Budgeted /\ UNCHANGED object
  <2>1. Named = Physical /\ Named' = Physical
    BY <1>8 DEF Named
  <2> QED
    BY <1>1, <1>7, <1>8, <2>1
<1>9. ASSUME rs \in Reshard, NEW c, NEW a, Served(c, a), GrownTo(rs, colls, c), Discarded(c)
      PROVE  PointsIn(colls', rs.source) = PointsIn(colls, rs.source)
  BY <1>7, <1>9, GrownDiscarded DEF GrownTo
<1>10. CASE Retarget
  <2>1. /\ rs \in Reshard /\ spec.shards # rs.target /\ Physical' = Physical
        /\ Discarded(colls) /\ Budgeted /\ UNCHANGED object
    BY <1>0, <1>10, RetargetOutcome DEF LivePass
  <2>2. alias' = alias /\ alias \in {NoName, Physical}
    BY <1>0, <2>1, DiscardedAlias DEF AliasInv
  <2>3. PointsIn(colls', rs.source) = PointsIn(colls, rs.source)
    BY <1>0, <1>9, <2>1, GrownSame
  <2> QED
    BY <1>8, <2>1, <2>2, <2>3
<1>11. CASE Prepare
  <2>1. /\ rs \in Reshard /\ rs.phase \in {"Preparing", "Failed"} /\ UNCHANGED object
        /\ rs.shadow \in Name /\ rs.target \in Nat \ {0}
    BY <1>0, <1>11, DrivenPass DEF Prepare, LivePass
  <2>2. ~ Switching /\ alias \in {NoName, Physical}
    BY <2>1, IdleAlias DEF Switching
  <2>3. alias' = alias /\ Budgeted /\ Physical' = Physical
    BY <1>0, <1>11, <2>1, <2>2, PrepareOutcome, DiscardedAlias DEF Moved
  <2>4. PointsIn(Shadowed, rs.source) = PointsIn(colls, rs.source)
    <3>1. /\ DOMAIN Shadowed = DOMAIN colls \cup {rs.shadow}
          /\ \A m \in DOMAIN colls : m # rs.shadow => Shadowed[m] = colls[m]
      BY DEF Shadowed, With
    <3> QED
      BY <1>7, <2>1, <3>1 DEF PointsIn
  <2>5. PointsIn(colls', rs.source) = PointsIn(colls, rs.source)
    BY <1>0, <1>9, <1>11, <2>1, <2>4, PrepareOutcome, GrownSame
  <2> QED
    BY <1>8, <2>1, <2>2, <2>3, <2>5
<1>12. CASE CopyStep
  <2>1. rs \in Reshard /\ rs.phase = "Copying" /\ UNCHANGED object
    BY <1>0, <1>12, DrivenPass DEF CopyStep, LivePass
  <2>2. ~ Switching /\ alias \in {NoName, Physical}
    BY <2>1, IdleAlias DEF Switching
  <2>3. alias' = alias /\ Budgeted /\ Physical' = Physical
    BY <1>0, <1>12, <2>1, <2>2, CopyOutcome, DiscardedAlias DEF Moved
  <2>4. Upsertable => Served(Upserted, alias) /\ GrownTo(rs, colls, Upserted)
    BY <1>0, <1>7, <2>1, UpsertServed, GrownUpserted DEF Upsertable
  <2>5. PointsIn(colls', rs.source) = PointsIn(colls, rs.source)
    <3>1. \/ Discarded(colls)
          \/ Upsertable /\ (Discarded(Upserted) \/ colls' = Upserted)
      BY <1>0, <1>12, CopyOutcome
    <3>2. CASE Discarded(colls)
      BY <1>0, <1>9, <2>1, <3>2, GrownSame
    <3>3. CASE Upsertable /\ Discarded(Upserted)
      BY <1>9, <2>1, <2>4, <3>3
    <3>4. CASE Upsertable /\ colls' = Upserted
      BY <2>4, <3>4 DEF GrownTo
    <3> QED
      BY <3>1, <3>2, <3>3, <3>4
  <2> QED
    BY <1>8, <2>1, <2>2, <2>3, <2>5
<1>13. CASE Swap
  <2>1. /\ rs \in Reshard /\ rs.phase = "Swapping" /\ UNCHANGED object
        /\ Copied(rs, colls)
    BY <1>13, DrivenCopy DEF Swap
  <2>2. CASE /\ Budgeted /\ Moved("Finalizing", rs.cursor) /\ rs.shadow \in DOMAIN colls
             /\ alias' = rs.shadow /\ colls' = colls
    <3>1. PointsIn(colls, rs.shadow) = PointsIn(colls, rs.source)
      BY <2>1, <2>2 DEF Copied
    <3>2. Named' = rs.shadow
      BY <1>7, <2>1, <2>2 DEF Named
    <3>3. Named \in {rs.source, rs.shadow}
      BY <1>7, <2>1, ClientView
    <3> QED
      BY <1>1, <2>1, <2>2, <3>1, <3>2, <3>3
  <2>3. CASE /\ Budgeted /\ Moved("Failed", 0) /\ rs.shadow \notin DOMAIN colls
             /\ Discarded(colls)
    <3>1. alias' = alias /\ alias \in {NoName, Physical}
      BY <1>0, <2>1, <2>3, DiscardedAlias
    <3>2. PointsIn(colls', rs.source) = PointsIn(colls, rs.source)
      BY <1>0, <1>9, <2>1, <2>3, GrownSame
    <3> QED
      BY <1>8, <2>1, <2>3, <3>1, <3>2 DEF Moved
  <2> QED
    BY <1>0, <1>13, <2>2, <2>3, SwapOutcome DEF Orderly
<1>14. CASE Finalize
  <2>1. rs \in Reshard /\ rs.phase = "Finalizing" /\ UNCHANGED object
    BY <1>0, <1>14, DrivenPass DEF Finalize, LivePass
  <2>2. alias = rs.shadow /\ rs.shadow # rs.source
    BY <1>7, <2>1 DEF AliasInv
  <2>3. alias' = rs.shadow /\ Budgeted
    BY <1>0, <1>14, <2>2, FinalizeOutcome DEF AliasWithout
  <2>4. Named = rs.shadow /\ Named' = rs.shadow
    BY <1>7, <2>1, <2>2, <2>3 DEF Named
  <2>5. PointsIn(colls', rs.shadow) = PointsIn(colls, rs.shadow)
    <3>1. CASE colls' = Without(colls, rs.source)
      <4>1. /\ DOMAIN colls' = DOMAIN colls \ {rs.source}
            /\ \A m \in DOMAIN colls : m # rs.source => colls'[m] = colls[m]
        BY <1>0, <3>1, WithoutServed
      <4> QED
        BY <2>2, <4>1 DEF PointsIn
    <3> QED
      BY <1>0, <1>14, <3>1, FinalizeOutcome
  <2> QED
    BY <1>1, <2>1, <2>3, <2>4, <2>5
<1>15. CASE Wait
  <2>1. UNCHANGED <<object, status, colls, alias, budget>>
    BY <1>15 DEF Wait, SteadyPass, Driven, ReshardPass, LivePass
  <2>2. Physical' = Physical /\ Budgeted
    BY <1>0, <2>1 DEF Physical, Budgeted, TypeOK
  <2> QED
    BY <1>1, <1>2, <2>1, <2>2
<1> QED
  BY <1>3, <1>4, <1>5, <1>6, <1>10, <1>11, <1>12, <1>13, <1>14, <1>15

\* The finalizer drops what the clients find, or leaves the successor of what it deletes.
LEMMA DeletionDrops ==
    ASSUME TypeInv, AliasInv, FinalizeObject
    PROVE  /\ Budgeted /\ object # "live" /\ object' # "live"
           /\ PointsOf(Named)' \in {PointsOf(Named), {}}
<1>0. TypeOK /\ Served(colls, alias) /\ Physical # NoName
  BY PhysicalName DEF TypeInv, TypeOK, Served
<1>1. /\ Budgeted /\ object # "live" /\ object' # "live" /\ UNCHANGED status
      /\ \/ UNCHANGED <<colls, alias>>
         \/ colls' = Without(colls, Physical) /\ alias' = AliasWithout(alias, Physical)
  BY <1>0, FinalizeObjectOutcome
<1>2. Physical' = Physical
  BY <1>1 DEF Physical
<1>3. PointsOf(Named) = PointsIn(colls, Named) /\ PointsOf(Named)' = PointsIn(colls', Named')
  BY DEF PointsOf, PointsIn
<1>4. CASE UNCHANGED <<colls, alias>>
  BY <1>1, <1>2, <1>3, <1>4 DEF Named
<1>5. CASE colls' = Without(colls, Physical) /\ alias' = AliasWithout(alias, Physical)
  <2>1. /\ DOMAIN colls' = DOMAIN colls \ {Physical}
        /\ \A m \in DOMAIN colls : m # Physical => colls'[m] = colls[m]
    BY <1>0, <1>5, WithoutServed
  <2>2. CASE alias \in {NoName, Physical}
    <3>1. Named' = Physical
      BY <1>0, <1>2, <1>5, <2>2 DEF Named, AliasWithout
    <3>2. PointsIn(colls', Physical) = {}
      BY <2>1 DEF PointsIn
    <3> QED
      BY <1>1, <1>3, <3>1, <3>2
  <2>3. CASE alias \notin {NoName, Physical}
    <3>1. Named' = alias /\ Named = alias
      BY <1>5, <2>3 DEF Named, AliasWithout
    <3>2. PointsIn(colls', alias) = PointsIn(colls, alias)
      BY <2>1, <2>3 DEF PointsIn
    <3> QED
      BY <1>1, <1>3, <3>1, <3>2
  <2> QED
    BY <2>2, <2>3
<1> QED
  BY <1>1, <1>4, <1>5

\* A client's write is one of the logical collection.
LEMMA WriteVisible ==
    ASSUME TypeInv, NEW pts \in SUBSET Point, Write(pts)
    PROVE  PointsOf(Named)' = pts /\ budget'.writes = budget.writes + 1 /\ UNCHANGED object
<1>1. TypeOK
  BY DEF TypeInv
<1>2. /\ UNCHANGED <<object, status, alias>> /\ Named \in DOMAIN colls
      /\ budget'.writes = budget.writes + 1
      /\ DOMAIN colls' = DOMAIN colls /\ colls'[Named].points = pts
  BY <1>1, WriteOutcome
<1>3. Named' = Named
  BY <1>2 DEF Named, Physical
<1> QED
  BY <1>2, <1>3 DEF PointsOf

LogicalVars == <<PointsOf(Named), budget.writes, object # "live">>

LEMMA NextRefines ==
    ASSUME TypeInv, AliasInv, CopyInv, Orderly, [Next]_vars
    PROVE  [Logical!Next]_LogicalVars
<1>0. TypeOK /\ budget \in Budget
  BY DEF TypeInv, TypeOK
<1>1. ASSUME PointsOf(Named)' = PointsOf(Named), Budgeted, UNCHANGED object
      PROVE  UNCHANGED LogicalVars
  BY <1>1 DEF Budgeted, LogicalVars
<1>2. CASE \/ ClusterNotFound \/ Unreachable \/ Create \/ Adopt \/ BeginReshard
           \/ ReportMismatch \/ Retarget \/ Prepare \/ CopyStep \/ Swap \/ Finalize \/ Wait
  BY <1>1, <1>2, PassInvisible
<1>3. CASE FinalizeObject
  <2>1. /\ Budgeted /\ object # "live" /\ object' # "live"
        /\ PointsOf(Named)' \in {PointsOf(Named), {}}
    BY <1>3, DeletionDrops
  <2>2. (object' # "live") = (object # "live") /\ (object # "live")
    BY <2>1
  <2>3. CASE PointsOf(Named)' = PointsOf(Named)
    BY <2>1, <2>2, <2>3 DEF LogicalVars, Budgeted
  <2>4. CASE PointsOf(Named)' = {}
    <3>1. Logical!Drop
      BY <2>1, <2>2, <2>4 DEF Logical!Drop, Budgeted
    <3> QED
      BY <3>1 DEF Logical!Next
  <2> QED
    BY <2>1, <2>3, <2>4
<1>4. CASE DeleteObject
  <2>1. /\ object = "live" /\ object' # "live" /\ UNCHANGED <<status, colls, alias, budget>>
    BY <1>4 DEF DeleteObject
  <2>2. PointsOf(Named)' = PointsOf(Named)
    BY <2>1 DEF PointsOf, Named, Physical
  <2>3. ~ (object # "live") /\ (object' # "live") = TRUE
    BY <2>1
  <2>4. Logical!Delete
    BY <2>1, <2>2, <2>3 DEF Logical!Delete
  <2> QED
    BY <2>4 DEF Logical!Next
<1>5. CASE \E p \in Point : Put(p) \/ Remove(p)
  <2>1. PICK p \in Point : Put(p) \/ Remove(p)
    BY <1>5
  <2>2. PointsOf(Named) \in SUBSET Point
    BY <1>0, PointsType
  <2>3. CASE Put(p)
    <3>1. /\ PointsOf(Named)' = PointsOf(Named) \cup {p} /\ budget'.writes = budget.writes + 1
          /\ UNCHANGED object
      BY <2>2, <2>3, WriteVisible DEF Put
    <3>2. Logical!Put(p)
      BY <3>1 DEF Logical!Put, Logical!ClientWrite
    <3> QED
      BY <3>2 DEF Logical!Next
  <2>4. CASE Remove(p)
    <3>1. /\ PointsOf(Named)' = PointsOf(Named) \ {p} /\ budget'.writes = budget.writes + 1
          /\ UNCHANGED object
      BY <2>2, <2>4, WriteVisible DEF Remove
    <3>2. Logical!Remove(p)
      BY <3>1 DEF Logical!Remove, Logical!ClientWrite
    <3> QED
      BY <3>2 DEF Logical!Next
  <2> QED
    BY <2>1, <2>3, <2>4
<1>6. CASE \/ \E n \in ShardNumber \cup {Unset}, d \in {"Retain", "Delete"} : SetSpec(n, d)
           \/ ClusterBusy \/ ClusterIdle \/ ClusterGone \/ UNCHANGED vars
  <2>1. UNCHANGED <<object, status, colls, alias>> /\ Budgeted
    BY <1>0, <1>6, EditOutcome, ClusterOutcome DEF vars, Budgeted
  <2>2. PointsOf(Named)' = PointsOf(Named)
    BY <2>1 DEF PointsOf, Named, Physical
  <2> QED
    BY <1>1, <2>1, <2>2
<1> QED
  BY <1>2, <1>3, <1>4, <1>5, <1>6 DEF Next, Reconcile

LEMMA InitNames ==
    ASSUME Init, Undisputed
    PROVE  NamesInv /\ CopyInv
<1>1. rs = NoReshard /\ Physical = Base
  BY DEF Init, rs, Physical
<1>2. ASSUME NEW n \in DOMAIN colls, colls[n].shards \in ShardNumber
      PROVE  Accounted(n)
  <2>1. n = Base
    BY <1>2 DEF Init, Undisputed
  <2> QED
    BY <1>1, <2>1, BaseName DEF Accounted
<1> QED
  BY <1>1, <1>2 DEF NamesInv, ShadowNamed, CopyInv

\* phase-b-collections-and-rebalance.md:101-103: for the clients of the alias there is
\* one collection, whose points they alone change, though it is created, adopted and
\* resharded meanwhile, calls, deletions and status updates fail and passes are
\* repeated.  No client writes during the copy (the code compares the number of points
\* only), and the server holds no other collection with the name and the shard number
\* of a shadow.
THEOREM ReshardIsInvisible ==
    ASSUME Orderly, ReadOnly, Undisputed
    PROVE  Spec => Implements
<1>1. Init => TypeInv /\ AliasInv /\ NamesInv /\ CopyInv
  BY InitType, InitAlias, InitNames
<1>2. TypeInv /\ AliasInv /\ NamesInv /\ CopyInv /\ [Next]_vars =>
          TypeInv' /\ AliasInv' /\ NamesInv' /\ CopyInv'
  BY NextType, NextAlias, NextNames, NextCopy DEF TypeInv
<1>3. Init => Logical!Init
  <2> SUFFICES ASSUME Init
               PROVE  Logical!Init
    OBVIOUS
  <2>1. PointsOf(Named) \in SUBSET Point
    BY InitType, PointsType DEF TypeInv
  <2>2. budget.writes = 0 /\ (object # "live") = FALSE
    BY DEF Init
  <2> QED
    BY <2>1, <2>2 DEF Logical!Init
<1>4. TypeInv /\ AliasInv /\ CopyInv /\ [Next]_vars => [Logical!Next]_LogicalVars
  BY NextRefines
<1> QED
  BY <1>1, <1>2, <1>3, <1>4, PTL DEF Spec, Implements, Logical!Spec, LogicalVars

=============================================================================
