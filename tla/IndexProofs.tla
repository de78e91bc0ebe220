---------------------------- MODULE IndexProofs ----------------------------
(***************************************************************************)
(* The packet index for every number of segments and every size of the     *)
(* catalog, the window, the batch, the store and the page: no segment is   *)
(* indexed twice, a completed rebuild has replayed its window, and a walk  *)
(* through the pages shows one snapshot.                                   *)
(***************************************************************************)
EXTENDS PacketIndex, FiniteSetTheorems, TLAPS

-----------------------------------------------------------------------------
(* Least and greatest numbers.                                             *)

\* A set of numbers has a least element.
LEMMA LeastExists ==
  ASSUME NEW S \in SUBSET Nat, S # {}
  PROVE  \E x \in S : \A y \in S : x <= y
<1> DEFINE Below(x) == {y \in Nat : y < x}
           T == {Below(x) : x \in S}
<1>1. \A x \in Nat : IsFiniteSet(Below(x))
  BY FS_BoundedSetOfNaturals
<1>2. T \subseteq FiniteSubsetsOf(Nat) /\ T # {}
  BY <1>1, Zenon DEF FiniteSubsetsOf
<1>3. \E A \in T : \A B \in T : ~(<<B, A>> \in StrictSubsetOrdering(Nat))
  <2> HIDE DEF T
  <2> QED
    BY <1>2, FS_StrictSubsetOrderingWellFounded, WFMin
<1>4. PICK x \in S : \A y \in S : ~(<<Below(y), Below(x)>> \in StrictSubsetOrdering(Nat))
  BY <1>3, Zenon
<1>5. ASSUME NEW y \in S, y < x PROVE FALSE
  <2>1. Below(y) \in SUBSET Below(x) /\ y \in Below(x) /\ y \notin Below(y)
    BY <1>5
  <2>2. <<Below(y), Below(x)>> \in StrictSubsetOrdering(Nat)
    BY <2>1 DEF StrictSubsetOrdering
  <2> QED
    BY <2>2, <1>4
<1> QED
  BY <1>5

\* Min is that element.
LEMMA MinFacts ==
  ASSUME NEW S \in SUBSET Nat, S # {}
  PROVE  Min(S) \in S /\ \A y \in S : Min(S) <= y
BY LeastExists, Zenon DEF Min

\* Max is the least upper bound of a bounded set.
LEMMA MaxFacts ==
  ASSUME NEW S \in SUBSET Nat, S # {}, NEW n \in Nat, \A y \in S : y <= n
  PROVE  Max(S) \in S /\ \A y \in S : y <= Max(S)
<1> DEFINE U == {u \in Nat : \A y \in S : y <= u}
<1>1. PICK u \in U : \A v \in U : u <= v
  BY LeastExists, Zenon
<1>2. u \in S
  <2> SUFFICES ASSUME u \notin S PROVE FALSE
    OBVIOUS
  <2>1. PICK y \in S : TRUE
    BY Zenon
  <2>2. u > 0 /\ \A z \in S : z <= u - 1
    BY <2>1
  <2>3. u - 1 \in U
    BY <2>2
  <2> QED
    BY <2>3, <1>1
<1>3. \E x \in S : \A y \in S : x >= y
  BY <1>2
<1> QED
  BY <1>3, Zenon DEF Max

-----------------------------------------------------------------------------
(* The newest of a set, and pages.                                         *)

\* A set within its limit is kept whole.
LEMMA NewestAll ==
  ASSUME NEW S \in SUBSET Nat, IsFiniteSet(S), NEW n \in Nat, Cardinality(S) <= n
  PROVE  NewestOf(S, n) = S
<1> SUFFICES ASSUME NEW x \in S PROVE Cardinality({y \in S : y > x}) < n
  BY Zenon DEF NewestOf
<1> DEFINE T == {y \in S : y > x}
<1>1. T \in SUBSET S /\ T # S
  OBVIOUS
<1>2. IsFiniteSet(T) /\ Cardinality(T) <= Cardinality(S) /\ Cardinality(S) # Cardinality(T)
  BY <1>1, FS_Subset
<1>3. Cardinality(T) \in Nat /\ Cardinality(S) \in Nat
  BY <1>2, FS_CardinalityType
<1> QED
  BY <1>2, <1>3

\* What is newer than one of the newest is one of them.
LEMMA NewestUp ==
  ASSUME NEW S \in SUBSET Nat, IsFiniteSet(S), NEW n \in Nat,
         NEW x \in NewestOf(S, n), NEW y \in S, y > x
  PROVE  y \in NewestOf(S, n)
<1> DEFINE X == {z \in S : z > x}
           Y == {z \in S : z > y}
<1>1. x \in S /\ Cardinality(X) < n
  BY DEF NewestOf
<1>2. X \in SUBSET S /\ Y \in SUBSET X
  <2>1. x \in Nat /\ y \in Nat /\ \A z \in S : z \in Nat
    BY <1>1
  <2>2. ASSUME NEW z \in S, z > y PROVE z > x
    BY <2>1, <2>2
  <2> QED
    BY <2>2, Zenon
<1>3. IsFiniteSet(X)
  BY <1>2, FS_Subset
<1>4. IsFiniteSet(Y) /\ Cardinality(Y) <= Cardinality(X)
  BY <1>2, <1>3, FS_Subset
<1>5. Cardinality(X) \in Nat /\ Cardinality(Y) \in Nat
  BY <1>3, <1>4, FS_CardinalityType
<1>6. Cardinality(Y) < n
  BY <1>1, <1>4, <1>5
<1> QED
  BY <1>6 DEF NewestOf

\* Some element is among the newest.
LEMMA NewestSome ==
  ASSUME NEW S \in SUBSET Nat, S # {}, NEW n \in Nat, n > 0,
         NEW b \in Nat, \A y \in S : y <= b
  PROVE  NewestOf(S, n) # {}
<1>1. Max(S) \in S /\ \A y \in S : y <= Max(S)
  BY MaxFacts
<1>2. {y \in S : y > Max(S)} = {}
  <2>1. ASSUME NEW y \in S, y > Max(S) PROVE FALSE
    <3>1. y \in Nat /\ Max(S) \in Nat /\ y <= Max(S)
      BY <1>1, Zenon
    <3> QED
      BY <3>1, <2>1
  <2> QED
    BY <2>1, Zenon
<1>3. Cardinality({y \in S : y > Max(S)}) < n
  BY <1>2, FS_EmptySet
<1> QED
  BY <1>1, <1>3 DEF NewestOf

-----------------------------------------------------------------------------
Rows == [id : Nat \ {0}, seg : Segments]

\* The ids of finitely many rows are finitely many.
LEMMA IdsFacts ==
  ASSUME NEW R \in SUBSET Rows, IsFiniteSet(R)
  PROVE  LET I == {r.id : r \in R}
         IN  I \in SUBSET Nat /\ IsFiniteSet(I) /\ Cardinality(I) <= Cardinality(R)
<1> DEFINE I == {r.id : r \in R}
           f == [r \in R |-> r.id]
<1>1. I \in SUBSET Nat
  BY DEF Rows
<1>2. f \in Surjection(R, I)
  BY DEF Surjection
<1>3. IsFiniteSet(I) /\ Cardinality(I) <= Cardinality(R)
  <2> HIDE DEF f, I
  <2> QED
    BY <1>2, FS_Surjection
<1> QED
  BY <1>1, <1>3

\* A page is what lies between its two cursors, and the cursor goes down.
LEMMA PageFacts ==
  ASSUME NEW R \in SUBSET Rows, IsFiniteSet(R), NEW b \in Nat
  PROVE  /\ Cursor(R, b) \in Nat /\ Cursor(R, b) <= b
         /\ Page(R, b) = {r \in R : r.id < b /\ r.id >= Cursor(R, b)}
<1> DEFINE B == {r \in R : r.id < b}
           I == {r.id : r \in B}
           P == {r \in B : r.id \in NewestOf(I, PageSize)}
           J == {r.id : r \in P}
<1>1. B \in SUBSET R /\ B \in SUBSET Rows /\ IsFiniteSet(B)
  <2>1. B \in SUBSET R
    OBVIOUS
  <2> QED
    BY <2>1, FS_Subset
<1>2. I \in SUBSET Nat /\ IsFiniteSet(I) /\ Cardinality(I) <= Cardinality(B)
  <2> HIDE DEF B
  <2> QED
    BY <1>1, IdsFacts
<1>3. Cardinality(I) \in Nat /\ Cardinality(B) \in Nat /\ PageSize \in Nat /\ PageSize > 0
  BY <1>1, <1>2, FS_CardinalityType, IndexAssumption
<1>4. Page(R, b) = P
  BY DEF Page, Newest
<1>5. CASE Cardinality(B) <= PageSize
  <2>1. NewestOf(I, PageSize) = I
    <3> HIDE DEF I, B
    <3> QED
      BY <1>2, <1>3, <1>5, NewestAll
  <2>2. P = B
    BY <2>1
  <2>3. Cursor(R, b) = 0
    BY <1>3, <1>5 DEF Cursor
  <2> QED
    BY <2>2, <2>3, <1>4, <1>1 DEF Rows
<1>6. CASE Cardinality(B) > PageSize
  <2>1. B # {}
    <3> HIDE DEF B
    <3> QED
      BY <1>3, <1>6, FS_EmptySet
  <2>2. I # {} /\ \A i \in I : i <= b
    BY <2>1, <1>1 DEF Rows
  <2>3. NewestOf(I, PageSize) # {}
    <3> HIDE DEF I
    <3> QED
      BY <1>2, <1>3, <2>2, NewestSome, Zenon
  <2>4. NewestOf(I, PageSize) \subseteq I
    BY DEF NewestOf
  <2>5. J = NewestOf(I, PageSize)
    <3> HIDE DEF B
    <3> QED
      BY <2>4, Zenon
  <2>6. J \in SUBSET Nat /\ J # {}
    BY <2>3, <2>4, <2>5, <1>2, Zenon
  <2>7. Min(J) \in J /\ \A j \in J : Min(J) <= j
    <3> HIDE DEF J
    <3> QED
      BY <2>6, MinFacts
  <2>8. Cursor(R, b) = Min(J)
    BY <1>4, <1>6, <1>3 DEF Cursor
  <2>9. ASSUME NEW r \in B, r.id >= Min(J) PROVE r \in P
    <3>1. r.id \in I
      OBVIOUS
    <3>2. Min(J) \in NewestOf(I, PageSize) /\ Min(J) \in Nat /\ r.id \in Nat
      BY <2>5, <2>6, <2>7, <3>1, <1>2, Zenon
    <3>3. CASE r.id = Min(J)
      BY <3>2, <3>3
    <3>4. CASE r.id > Min(J)
      <4>1. r.id \in NewestOf(I, PageSize)
        <5> HIDE DEF I, J
        <5> QED
          BY <3>1, <3>2, <3>4, <1>2, <1>3, NewestUp
      <4> QED
        BY <4>1
    <3> QED
      BY <3>2, <3>3, <3>4, <2>9
  <2>10. \A r \in P : r.id \in J /\ r.id >= Min(J)
    <3>1. \A r \in P : r.id \in J
      BY Zenon
    <3>2. \A j \in J : j \in Nat /\ Min(J) \in Nat /\ j >= Min(J)
      BY <2>6, <2>7, Zenon
    <3> QED
      BY <3>1, <3>2, Zenon
  <2>11. P = {r \in R : r.id < b /\ r.id >= Min(J)}
    <3> HIDE DEF J
    <3> QED
      BY <2>9, <2>10
  <2>12. Min(J) \in Nat /\ Min(J) <= b
    BY <2>2, <2>4, <2>5, <2>6, <2>7, Zenon
  <2> QED
    BY <2>8, <2>11, <2>12, <1>4, Zenon
<1> QED
  BY <1>3, <1>5, <1>6

-----------------------------------------------------------------------------
(* The inductive invariant.  IndexedOnce needs that an inserted segment    *)
(* has a receipt or a retired key, and that a replay meets neither;        *)
(* CompletedIsComplete that a replay still owes exactly what its scan has  *)
(* still to do, all unindexed, as its whole run is until the manifests are *)
(* read; WalkIsASnapshot that the reader's snapshot is still what the      *)
(* store holds, as long as its epoch and its generation are current.       *)
Scans == [run : Runs, rebuild : BOOLEAN, load : SUBSET Captures]
ScanJobs == [run : Runs, rebuild : BOOLEAN, load : SUBSET Captures,
             todo : SUBSET Segments, new : Nat]
UpkeepStates == {"none", "queued", "running", "completed", "failed", "interrupted"}
Upkeeps == [run : Runs \cup {"none"}, state : UpkeepStates]
Views == [run : Runs, epoch : Nat, generation : Nat, top : Nat, before : Nat,
          seen : SUBSET Rows, wanted : SUBSET Rows]

StoreInv ==
  /\ final \subseteq Segments /\ receipts \subseteq Segments /\ keyless \subseteq Segments
  /\ floor \in Nat /\ lastId \in Nat /\ generation \in Nat /\ epoch \in Nat
  /\ rows \in SUBSET Rows /\ IsFiniteSet(rows) /\ \A r \in rows : r.id <= lastId
ScanInv ==
  /\ pending = NoJob \/ pending \in Scans
  /\ job = NoJob \/ job \in ScanJobs
  /\ pending # NoJob => job = NoJob
  /\ upkeep \in Upkeeps
Unindexed(s) == copies[s] = 0 /\ s \notin receipts
OnceInv ==
  /\ copies \in [Segments -> Nat]
  /\ \A s \in Segments : copies[s] <= 1 /\ (copies[s] = 1 => s \in receipts \/ s <= floor)
ReplayInv ==
  /\ pending # NoJob /\ pending.rebuild =>
       /\ upkeep.state = "queued" /\ due = {}
       /\ \A s \in Segments : RunOf[s] = pending.run => Unindexed(s)
  /\ job # NoJob /\ job.rebuild =>
       /\ upkeep.state = "running" /\ due = job.todo
       /\ \A s \in job.todo : Unindexed(s)
       /\ job.load # {} => \A s \in Segments : RunOf[s] = job.run => Unindexed(s)
Snapshot(run, top) == {r \in rows : RunOf[r.seg] = run /\ r.id <= top}
ViewInv ==
  view # NoView =>
    /\ view \in Views
    /\ view.epoch <= epoch
    /\ view.epoch = epoch =>
         /\ view.generation <= generation /\ view.top <= lastId
         /\ view.generation = generation => view.wanted = Snapshot(view.run, view.top)
IndexInv ==
  /\ StoreInv /\ ScanInv /\ OnceInv /\ ReplayInv /\ CompletedIsComplete
  /\ ViewInv /\ WalkIsASnapshot

\* The floor rises to every key it retires.
LEMMA FloorFacts ==
  ASSUME StoreInv, NEW K \in SUBSET Segments
  PROVE  /\ FloorAfter(K) \in Nat /\ floor <= FloorAfter(K)
         /\ Retired(K) \subseteq K /\ \A s \in Retired(K) : s <= FloorAfter(K)
<1> DEFINE S == {floor} \cup Retired(K)
<1>1. SegmentCount \in Nat /\ floor \in Nat
  BY IndexAssumption DEF StoreInv
<1>2. Retired(K) \subseteq K /\ \A s \in K : s \in Nat /\ s <= SegmentCount
  BY <1>1 DEF Retired, Segments
<1>3. S \in SUBSET Nat /\ S # {} /\ floor + SegmentCount \in Nat
  BY <1>1, <1>2
<1>4. \A y \in S : y <= floor + SegmentCount
  BY <1>1, <1>2
<1>5. Max(S) \in S /\ \A y \in S : y <= Max(S)
  <2> HIDE DEF S
  <2> QED
    BY <1>3, <1>4, MaxFacts, Zenon
<1>6. FloorAfter(K) = Max(S)
  BY DEF FloorAfter
<1> QED
  BY <1>2, <1>3, <1>5, <1>6, Zenon

\* Pruning only takes rows away.
LEMMA PruneFacts ==
  ASSUME NEW R \in SUBSET Rows, IsFiniteSet(R), NEW kept \in Prunings(R)
  PROVE  kept \in SUBSET R /\ kept \in SUBSET Rows /\ IsFiniteSet(kept)
<1>1. kept \in SUBSET R
  BY Zenon DEF Prunings, Newest
<1> QED
  BY <1>1, FS_Subset

\* A request names captures of its run.
LEMMA SnapshotFacts ==
  ASSUME NEW r \in Runs, NEW C \in Snapshots(r)
  PROVE  C \in SUBSET Captures
BY DEF Snapshots, Captures

\* A reader's walk survives whatever leaves the rows up to its top alone, and
\* whatever takes one away and says so with a new generation.
LEMMA ViewKept ==
  ASSUME StoreInv, ViewInv, WalkIsASnapshot, view' = view, epoch' = epoch,
         generation' \in Nat, generation <= generation', lastId' \in Nat, lastId <= lastId',
         generation' = generation => {r \in rows' : r.id <= lastId} = rows,
         rows' \in SUBSET Rows
  PROVE  ViewInv' /\ WalkIsASnapshot'
<1>1. WalkIsASnapshot'
  BY DEF WalkIsASnapshot
<1>2. ASSUME view # NoView, view.epoch = epoch
      PROVE  /\ view.generation <= generation' /\ view.top <= lastId'
             /\ view.generation = generation' => view.wanted = Snapshot(view.run, view.top)'
  <2>1. view \in Views /\ view.generation \in Nat /\ view.top \in Nat
    BY <1>2 DEF ViewInv, Views
  <2>2. view.generation <= generation /\ view.top <= lastId /\ generation \in Nat /\ lastId \in Nat
    BY <1>2 DEF ViewInv, StoreInv
  <2>3. ASSUME view.generation = generation' PROVE view.wanted = Snapshot(view.run, view.top)'
    <3>1. generation' = generation /\ view.generation = generation
      BY <2>1, <2>2, <2>3
    <3>2. view.wanted = Snapshot(view.run, view.top)
      BY <1>2, <3>1 DEF ViewInv
    <3>3. \A r \in rows' : r.id \in Nat /\ (r.id <= view.top => r.id <= lastId)
      BY <2>1, <2>2 DEF Rows
    <3>4. Snapshot(view.run, view.top)' = Snapshot(view.run, view.top)
      BY <3>1, <3>3 DEF Snapshot
    <3> QED
      BY <3>2, <3>4
  <2> QED
    BY <2>1, <2>2, <2>3
<1> QED
  BY <1>1, <1>2 DEF ViewInv

LEMMA IndexInit == Init => IndexInv
<1> SUFFICES ASSUME Init PROVE IndexInv
  OBVIOUS
<1> USE IndexAssumption
<1>1. StoreInv
  BY FS_EmptySet DEF Init, StoreInv, Rows
<1>2. ScanInv
  BY DEF Init, ScanInv, Upkeeps, UpkeepStates
<1>3. OnceInv
  BY DEF Init, OnceInv
<1>4. ReplayInv /\ CompletedIsComplete /\ ViewInv /\ WalkIsASnapshot
  BY DEF Init, ReplayInv, CompletedIsComplete, ViewInv, WalkIsASnapshot, NoView
<1> QED
  BY <1>1, <1>2, <1>3, <1>4 DEF IndexInv

-----------------------------------------------------------------------------
(* Every step keeps the invariant.                                         *)

\* A step that only publishes a segment or damages a file, gives up a scan or forgets a request.
LEMMA QuietStep ==
  ASSUME IndexInv, (\E s \in Segments : Finalize(s)) \/ Damage \/ Fail \/ Stop
  PROVE  IndexInv'
<1> USE DEF IndexInv
<1>1. /\ receipts' = receipts /\ keyless' = keyless /\ floor' = floor /\ rows' = rows
      /\ lastId' = lastId /\ generation' = generation /\ epoch' = epoch /\ copies' = copies
      /\ view' = view /\ due' = due /\ final' \subseteq Segments
  BY DEF Finalize, Damage, Fail, Stop, db, files, StoreInv
<1>2. /\ job' \in {job, NoJob} /\ pending' \in {pending, NoJob}
      /\ upkeep' \in Upkeeps
      /\ upkeep'.state # "completed" \/ upkeep' = upkeep
      /\ job' # NoJob \/ pending' # NoJob => upkeep' = upkeep
  <2>1. CASE (\E s \in Segments : Finalize(s)) \/ Damage
    BY <2>1 DEF Finalize, Damage, db, ScanInv
  <2>2. CASE Fail \/ Stop
    <3>1. \A v \in {"failed", "interrupted"} : /\ [upkeep EXCEPT !.state = v] \in Upkeeps
                                               /\ [upkeep EXCEPT !.state = v].state = v
      BY DEF ScanInv, Upkeeps, UpkeepStates
    <3>2. job' = NoJob /\ pending' \in {pending, NoJob} /\ (pending # NoJob => job = NoJob)
      BY <2>2 DEF Fail, Stop, ScanInv
    <3>3. CASE Fail
      <4>1. upkeep' = upkeep \/ upkeep' = [upkeep EXCEPT !.state = "failed"]
        BY <3>3 DEF Fail
      <4>2. pending' = NoJob
        BY <3>3, <3>2 DEF Fail
      <4> QED
        BY <4>1, <4>2, <3>1, <3>2, Zenon DEF ScanInv
    <3>4. CASE Stop
      <4>1. upkeep' = upkeep \/ upkeep' = [upkeep EXCEPT !.state = "interrupted"]
        BY <3>4 DEF Stop
      <4> QED
        BY <4>1, <3>1, <3>2, <3>4 DEF ScanInv, Stop
    <3> QED
      BY <2>2, <3>3, <3>4
  <2> QED
    BY <2>1, <2>2
<1>3. StoreInv'
  BY <1>1 DEF StoreInv
<1>4. ScanInv'
  BY <1>2 DEF ScanInv
<1>5. OnceInv'
  BY <1>1 DEF OnceInv
<1>6. ReplayInv' /\ CompletedIsComplete'
  BY <1>1, <1>2 DEF ReplayInv, CompletedIsComplete, Unindexed
<1>7. ViewInv' /\ WalkIsASnapshot'
  <2>1. {r \in rows' : r.id <= lastId} = rows
    BY <1>1 DEF StoreInv
  <2> QED
    BY <1>1, <2>1, ViewKept DEF StoreInv
<1> QED
  BY <1>3, <1>4, <1>5, <1>6, <1>7

\* Begin: a replay starts with its run's segments unindexed, and owes nothing yet.
LEMMA BeginStep ==
  ASSUME IndexInv, Begin
  PROVE  IndexInv'
<1> USE DEF IndexInv
<1>1. /\ receipts' = receipts /\ keyless' = keyless /\ floor' = floor /\ rows' = rows
      /\ lastId' = lastId /\ generation' = generation /\ epoch' = epoch /\ copies' = copies
      /\ view' = view /\ final' = final /\ pending' = NoJob /\ due' = due
  BY DEF Begin, files
<1>2. pending \in Scans
  BY DEF Begin, ScanInv
<1>3. /\ job' \in ScanJobs /\ job'.rebuild = pending.rebuild /\ job'.todo = {}
      /\ job'.run = pending.run
  <2>1. job' = [run |-> pending.run, rebuild |-> pending.rebuild, load |-> pending.load,
                todo |-> {}, new |-> 0]
    BY DEF Begin
  <2> QED
    BY <2>1, <1>2 DEF Scans, ScanJobs
<1>4. upkeep \in Upkeeps /\ [upkeep EXCEPT !.state = "running"] \in Upkeeps
      /\ [upkeep EXCEPT !.state = "running"].state = "running"
  BY DEF ScanInv, Upkeeps, UpkeepStates
<1>5. StoreInv' /\ OnceInv'
  BY <1>1 DEF StoreInv, OnceInv
<1>6. ScanInv'
  BY <1>1, <1>3, <1>4 DEF ScanInv, Begin
<1>7. ReplayInv' /\ CompletedIsComplete'
  <2>1. CASE pending.rebuild
    <3>1. upkeep'.state = "running"
      BY <2>1, <1>4 DEF Begin
    <3>2. due = {} /\ \A s \in Segments : RunOf[s] = pending.run => Unindexed(s)
      BY <2>1 DEF ReplayInv, Begin
    <3> QED
      BY <3>1, <3>2, <1>1, <1>3 DEF ReplayInv, CompletedIsComplete, Unindexed
  <2>2. CASE ~pending.rebuild
    BY <2>2, <1>1, <1>3 DEF ReplayInv, CompletedIsComplete, Begin
  <2> QED
    BY <2>1, <2>2
<1>8. ViewInv' /\ WalkIsASnapshot'
  <2>1. {r \in rows' : r.id <= lastId} = rows
    BY <1>1 DEF StoreInv
  <2> QED
    BY <1>1, <2>1, ViewKept DEF StoreInv
<1> QED
  BY <1>5, <1>6, <1>7, <1>8

\* Load: what a replay finds in a manifest is unindexed, and it owes all of it.
LEMMA LoadStep ==
  ASSUME IndexInv, NEW c \in Captures, Load(c)
  PROVE  IndexInv'
<1> USE DEF IndexInv
<1> DEFINE F == NewestOf(job.todo \cup {s \in Published(job.run) : CaptureOf[s] = c}, Window)
<1>1. /\ receipts' = receipts /\ keyless' = keyless /\ floor' = floor /\ rows' = rows
      /\ lastId' = lastId /\ generation' = generation /\ epoch' = epoch /\ copies' = copies
      /\ view' = view /\ final' = final /\ pending' = pending /\ upkeep' = upkeep
      /\ job # NoJob /\ job.load # {}
  BY DEF Load, files
<1>2. job \in ScanJobs /\ pending = NoJob /\ job.run \in Runs /\ job.load \in SUBSET Captures
      /\ job.todo \in SUBSET Segments
  BY <1>1 DEF ScanInv, ScanJobs
<1>3. F \in SUBSET Segments /\ \A s \in F : s \in job.todo \/ RunOf[s] = job.run
  BY <1>2 DEF NewestOf, Published, StoreInv
<1>4. /\ job' \in ScanJobs /\ job'.rebuild = job.rebuild /\ job'.todo = F /\ job'.run = job.run
  <2>1. job' = [job EXCEPT !.load = job.load \ {c}, !.todo = F]
    BY DEF Load
  <2> HIDE DEF F
  <2>2. job' = [run |-> job.run, rebuild |-> job.rebuild, load |-> job.load \ {c}, todo |-> F,
                new |-> job.new]
    BY <2>1, <1>2, Zenon DEF ScanJobs
  <2> QED
    BY <2>2, <1>2, <1>3 DEF ScanJobs
<1>5. due' = IF job.rebuild THEN F ELSE due
  BY DEF Load
<1> HIDE DEF F
<1>6. StoreInv' /\ OnceInv'
  BY <1>1 DEF StoreInv, OnceInv
<1>7. ScanInv'
  BY <1>1, <1>2, <1>4 DEF ScanInv
<1>8. ReplayInv' /\ CompletedIsComplete'
  <2>1. CASE job.rebuild
    <3>1. /\ upkeep.state = "running" /\ \A s \in job.todo : Unindexed(s)
          /\ \A s \in Segments : RunOf[s] = job.run => Unindexed(s)
      BY <2>1, <1>1, Zenon DEF ReplayInv
    <3>2. \A s \in F : Unindexed(s)
      BY <3>1, <1>3
    <3> QED
      BY <2>1, <3>1, <3>2, <1>1, <1>2, <1>4, <1>5
      DEF ReplayInv, CompletedIsComplete, Unindexed
  <2>2. CASE ~job.rebuild
    BY <2>2, <1>1, <1>2, <1>4, <1>5, Zenon DEF ReplayInv, CompletedIsComplete
  <2> QED
    BY <2>1, <2>2
<1>9. ViewInv' /\ WalkIsASnapshot'
  <2>1. {r \in rows' : r.id <= lastId} = rows
    BY <1>1 DEF StoreInv
  <2> QED
    BY <1>1, <2>1, ViewKept DEF StoreInv
<1> QED
  BY <1>6, <1>7, <1>8, <1>9

\* Finish: a replay is completed only when nothing of it is left.
LEMMA FinishStep ==
  ASSUME IndexInv, Finish
  PROVE  IndexInv'
<1> USE DEF IndexInv
<1>1. /\ receipts' = receipts /\ keyless' = keyless /\ floor' = floor /\ rows' = rows
      /\ lastId' = lastId /\ generation' = generation /\ epoch' = epoch /\ copies' = copies
      /\ view' = view /\ due' = due /\ final' = final /\ job' = NoJob /\ pending' = pending
      /\ job # NoJob /\ pending = NoJob
  BY DEF Finish, files, ScanInv
<1>2. job \in ScanJobs /\ job.todo \in SUBSET Nat
  BY <1>1 DEF ScanInv, ScanJobs, Segments
<1>3. CASE job.rebuild
  <2>1. job.todo = {}
    <3> SUFFICES ASSUME job.todo # {} PROVE FALSE
      OBVIOUS
    <3>1. Min(job.todo) \in job.todo
      BY <1>2, MinFacts
    <3>2. Working(Min(job.todo))
      BY <1>1 DEF Working, Finish
    <3> QED
      BY <3>1, <3>2, <1>3 DEF Finish, Enough
  <2>2. due' = {}
    BY <2>1, <1>1, <1>3 DEF ReplayInv
  <2>3. upkeep' = [upkeep EXCEPT !.state = "completed"] /\ upkeep' \in Upkeeps
    BY <1>3 DEF Finish, ScanInv, Upkeeps, UpkeepStates
  <2> QED
    BY <2>2, <2>3, <1>1, ViewKept
    DEF StoreInv, ScanInv, OnceInv, ReplayInv, CompletedIsComplete
<1>4. CASE ~job.rebuild
  <2>1. upkeep' = upkeep
    BY <1>4 DEF Finish
  <2> QED
    BY <2>1, <1>1, ViewKept DEF StoreInv, ScanInv, OnceInv, ReplayInv, CompletedIsComplete
<1> QED
  BY <1>3, <1>4

\* Skip: giving an old receipt its key may retire it, or others, under the floor.
LEMMA SkipStep ==
  ASSUME IndexInv, NEW s \in Segments, Skip(s)
  PROVE  IndexInv'
<1> USE DEF IndexInv
<1> DEFINE K == (receipts \ keyless) \cup {s}
<1>1. /\ rows' = rows /\ lastId' = lastId /\ generation' = generation /\ epoch' = epoch
      /\ copies' = copies /\ view' = view /\ due' = due /\ final' = final
      /\ upkeep' = upkeep /\ pending' = pending /\ job # NoJob
  BY DEF Skip, Working, files
<1>2. job \in ScanJobs /\ pending = NoJob
  BY <1>1 DEF ScanInv
<1>3. /\ job' \in ScanJobs /\ job'.rebuild = job.rebuild /\ job'.todo = job.todo \ {s}
  BY <1>2 DEF Skip, ScanJobs
<1>4. s \in job.todo /\ Known(s)
  <2>1. job.todo \in SUBSET Nat /\ job.todo # {} /\ s = Min(job.todo)
    BY <1>2 DEF ScanJobs, Segments, Skip, Working
  <2> QED
    BY <2>1, MinFacts DEF Skip
<1>5. ~job.rebuild
  BY <1>1, <1>4 DEF ReplayInv, Unindexed, Known
<1>6. K \in SUBSET Segments
  BY DEF StoreInv
<1>7. /\ FloorAfter(K) \in Nat /\ floor <= FloorAfter(K)
      /\ Retired(K) \subseteq K /\ \A x \in Retired(K) : x <= FloorAfter(K)
  BY <1>6, FloorFacts
<1>8. /\ receipts' \subseteq Segments /\ keyless' \subseteq Segments
      /\ floor' \in Nat /\ floor <= floor'
      /\ \A x \in receipts : x \in receipts' \/ x <= floor'
  <2>1. CASE s \in keyless
    <3>1. receipts' = receipts \ Retired(K) /\ floor' = FloorAfter(K) /\ keyless' = keyless \ {s}
      BY <2>1 DEF Skip
    <3> QED
      BY <3>1, <1>7 DEF StoreInv
  <2>2. CASE s \notin keyless
    <3>1. receipts' = receipts /\ floor' = floor /\ keyless' = keyless
      BY <2>2 DEF Skip
    <3> QED
      BY <3>1 DEF StoreInv
  <2> QED
    BY <2>1, <2>2
<1>9. StoreInv'
  BY <1>1, <1>8 DEF StoreInv
<1>10. ScanInv'
  BY <1>1, <1>2, <1>3 DEF ScanInv
<1>11. OnceInv'
  <2>1. \A x \in Segments : x \in Nat /\ floor \in Nat
    BY DEF Segments, StoreInv
  <2> QED
    BY <2>1, <1>1, <1>8 DEF OnceInv
<1>12. ReplayInv' /\ CompletedIsComplete'
  BY <1>1, <1>2, <1>3, <1>5 DEF ReplayInv, CompletedIsComplete
<1>13. ViewInv' /\ WalkIsASnapshot'
  BY <1>1, ViewKept DEF StoreInv
<1> QED
  BY <1>9, <1>10, <1>11, <1>12, <1>13

\* Save: what it inserts was not there, and it leaves a receipt or a retired key.
LEMMA SaveStep ==
  ASSUME IndexInv, NEW s \in Segments, Save(s)
  PROVE  IndexInv'
<1> USE DEF IndexInv
<1> DEFINE K == (receipts \ keyless) \cup {s}
           R == rows \cup RowsOf(s)
<1>1. /\ keyless' = keyless /\ epoch' = epoch /\ view' = view /\ final' = final
      /\ upkeep' = upkeep /\ pending' = pending /\ job # NoJob /\ ~Known(s) /\ job.load = {}
  BY DEF Save, Working, files
<1>2. job \in ScanJobs /\ pending = NoJob
  BY <1>1 DEF ScanInv
<1>3. /\ job' \in ScanJobs /\ job'.rebuild = job.rebuild /\ job'.todo = job.todo \ {s}
      /\ job'.load = {}
  <2>1. job' = [job EXCEPT !.todo = job.todo \ {s}, !.new = job.new + 1]
    BY DEF Save
  <2>2. /\ job.run \in Runs /\ job.rebuild \in BOOLEAN /\ job.load \in SUBSET Captures
        /\ job.todo \ {s} \in SUBSET Segments /\ job.new + 1 \in Nat
    BY <1>2 DEF ScanJobs
  <2>3. job' = [run |-> job.run, rebuild |-> job.rebuild, load |-> job.load,
                todo |-> job.todo \ {s}, new |-> job.new + 1]
    BY <2>1, <1>2, Zenon DEF ScanJobs
  <2> QED
    BY <2>2, <2>3, <1>1 DEF ScanJobs
<1>4. s \in job.todo
  <2>1. job.todo \in SUBSET Nat /\ job.todo # {} /\ s = Min(job.todo)
    BY <1>2 DEF ScanJobs, Segments, Save, Working
  <2> QED
    BY <2>1, MinFacts
<1>5. copies[s] = 0
  <2>1. CASE job.rebuild
    BY <2>1, <1>1, <1>4 DEF ReplayInv, Unindexed
  <2>2. CASE ~job.rebuild
    <3>1. s \notin receipts /\ ~(s <= floor)
      BY <2>2, <1>1 DEF Known
    <3>2. copies[s] \in Nat /\ copies[s] <= 1 /\ copies[s] # 1
      BY <3>1 DEF OnceInv
    <3> QED
      BY <3>2
  <2> QED
    BY <2>1, <2>2
<1>6. K \in SUBSET Segments
  BY DEF StoreInv
<1>7. /\ FloorAfter(K) \in Nat /\ floor <= FloorAfter(K)
      /\ Retired(K) \subseteq K /\ \A x \in Retired(K) : x <= FloorAfter(K)
  BY <1>6, FloorFacts
<1>8. /\ receipts' = (receipts \cup {s}) \ Retired(K) /\ floor' = FloorAfter(K)
  BY DEF Save
<1>9. /\ receipts' \subseteq Segments /\ floor' \in Nat /\ floor <= floor'
      /\ \A x \in receipts \cup {s} : x \in receipts' \/ x <= floor'
  BY <1>7, <1>8 DEF StoreInv
<1>10. PICK kept \in Prunings(R) : rows' = kept /\ generation' = GenerationAfter(R, kept)
  BY DEF Save
<1>11. /\ lastId' \in Nat /\ lastId <= lastId' /\ lastId \in Nat
       /\ RowsOf(s) \in SUBSET Rows /\ IsFiniteSet(RowsOf(s))
       /\ \A r \in RowsOf(s) : r.id = lastId + 1 /\ r.id <= lastId'
  <2>1. lastId \in Nat
    BY DEF StoreInv
  <2>2. CASE s \in Bad
    BY <2>1, <2>2, FS_EmptySet DEF Save, RowsOf
  <2>3. CASE s \notin Bad
    <3>1. lastId' = lastId + 1 /\ RowsOf(s) = {[id |-> lastId + 1, seg |-> s]}
      BY <2>3 DEF Save, RowsOf
    <3>2. IsFiniteSet(RowsOf(s))
      BY <3>1, FS_Singleton, Zenon
    <3>3. [id |-> lastId + 1, seg |-> s] \in Rows
      BY <2>1 DEF Rows
    <3> QED
      BY <2>1, <3>1, <3>2, <3>3
  <2> QED
    BY <2>2, <2>3
<1>12. R \in SUBSET Rows /\ IsFiniteSet(R)
  <2> HIDE DEF RowsOf
  <2> QED
    BY <1>11, FS_Union, Zenon DEF StoreInv
<1>13. kept \in SUBSET R /\ kept \in SUBSET Rows /\ IsFiniteSet(kept)
  <2> HIDE DEF R
  <2> QED
    BY <1>12, PruneFacts
<1>14. \A r \in kept : r.id <= lastId'
  BY <1>11, <1>13 DEF StoreInv, Rows
<1>15. generation' \in Nat /\ generation <= generation' /\ (generation' = generation => kept = R)
  BY <1>10 DEF GenerationAfter, StoreInv
<1>16. StoreInv'
  BY <1>1, <1>9, <1>10, <1>11, <1>13, <1>14, <1>15 DEF StoreInv
<1>17. ScanInv'
  BY <1>1, <1>2, <1>3 DEF ScanInv
<1>18. /\ copies' \in [Segments -> Nat] /\ copies'[s] <= 1
       /\ \A x \in Segments : x # s => copies'[x] = copies[x]
  BY <1>5 DEF Save, OnceInv
<1>19. OnceInv'
  <2>1. \A x \in Segments : x \in Nat /\ floor \in Nat
    BY DEF Segments, StoreInv
  <2>2. ASSUME NEW x \in Segments, x # s
        PROVE  copies'[x] <= 1 /\ (copies'[x] = 1 => x \in receipts' \/ x <= floor')
    BY <2>1, <2>2, <1>9, <1>18 DEF OnceInv
  <2> QED
    BY <2>2, <1>9, <1>18 DEF OnceInv
<1>20. ReplayInv' /\ CompletedIsComplete'
  <2>1. CASE job.rebuild
    <3>1. due' = job'.todo /\ upkeep'.state = "running"
      BY <2>1, <1>1, <1>3 DEF Save, ReplayInv
    <3>2. ASSUME NEW x \in job'.todo PROVE Unindexed(x)'
      <4>1. x \in job.todo /\ x # s /\ x \in Segments
        BY <1>2, <1>3 DEF ScanJobs
      <4>2. Unindexed(x)
        BY <4>1, <2>1, <1>1 DEF ReplayInv
      <4> QED
        BY <4>1, <4>2, <1>8, <1>18 DEF Unindexed
    <3> QED
      BY <3>1, <3>2, <1>1, <1>2, <1>3 DEF ReplayInv, CompletedIsComplete
  <2>2. CASE ~job.rebuild
    BY <2>2, <1>1, <1>2, <1>3 DEF Save, ReplayInv, CompletedIsComplete
  <2> QED
    BY <2>1, <2>2
<1>21. ViewInv' /\ WalkIsASnapshot'
  <2>1. ASSUME generation' = generation PROVE {r \in rows' : r.id <= lastId} = rows
    <3>1. rows' = rows \cup RowsOf(s)
      BY <2>1, <1>10, <1>15
    <3>2. \A r \in RowsOf(s) : ~(r.id <= lastId)
      BY <1>11
    <3>3. \A r \in rows : r.id <= lastId
      BY DEF StoreInv
    <3> QED
      BY <3>1, <3>2, <3>3
  <2> QED
    BY <2>1, <1>1, <1>10, <1>11, <1>13, <1>15, ViewKept
<1> QED
  BY <1>16, <1>17, <1>19, <1>20, <1>21

\* Rebuild: the run's segments are unindexed again, and every reader is told.
LEMMA RebuildStep ==
  ASSUME IndexInv, NEW r \in Runs, Rebuild(r)
  PROVE  IndexInv'
<1> USE DEF IndexInv
<1>1. /\ final' = final /\ floor' = floor /\ lastId' = lastId /\ epoch' = epoch
      /\ view' = view /\ job' = NoJob /\ due' = {} /\ generation' = generation + 1
      /\ upkeep' = [run |-> r, state |-> "queued"] /\ job = NoJob
  BY DEF Rebuild, RebuildAllowed, Idle, files
<1>9. pending' \in Scans /\ pending'.run = r /\ pending'.rebuild
  <2>1. PICK C \in Snapshots(r) : pending' = [run |-> r, rebuild |-> TRUE, load |-> C]
    BY Zenon DEF Rebuild
  <2> QED
    BY <2>1, SnapshotFacts DEF Scans
<1>2. /\ rows' \in SUBSET rows /\ receipts' \in SUBSET receipts /\ keyless' \in SUBSET keyless
      /\ \A s \in receipts : RunOf[s] # r => s \in receipts'
      /\ \A s \in Segments : RunOf[s] = r => s \notin receipts'
  BY DEF Rebuild
<1>3. copies' = [s \in Segments |-> IF RunOf[s] = r THEN 0 ELSE copies[s]]
  BY DEF Rebuild
<1>4. StoreInv'
  <2>1. IsFiniteSet(rows')
    BY <1>2, FS_Subset DEF StoreInv
  <2> QED
    BY <2>1, <1>1, <1>2 DEF StoreInv
<1>5. ScanInv'
  BY <1>1, <1>9 DEF ScanInv, Upkeeps, UpkeepStates
<1>6. OnceInv'
  BY <1>1, <1>2, <1>3 DEF OnceInv
<1>7. ReplayInv' /\ CompletedIsComplete'
  BY <1>1, <1>2, <1>3, <1>9, Zenon DEF ReplayInv, CompletedIsComplete, Unindexed
<1>8. ViewInv' /\ WalkIsASnapshot'
  <2>1. /\ generation' \in Nat /\ generation <= generation' /\ generation' # generation
        /\ lastId' \in Nat /\ lastId <= lastId' /\ rows' \in SUBSET Rows
    BY <1>1, <1>2 DEF StoreInv
  <2> QED
    BY <1>1, <2>1, ViewKept
<1> QED
  BY <1>4, <1>5, <1>6, <1>7, <1>8

\* Recover: an empty store of a new epoch.
LEMMA RecoverStep ==
  ASSUME IndexInv, Recover
  PROVE  IndexInv'
<1> USE DEF IndexInv
<1>1. StoreInv'
  BY FS_EmptySet DEF Recover, NewEpoch, StoreInv, files
<1>2. ScanInv' /\ OnceInv' /\ ReplayInv' /\ CompletedIsComplete'
  BY DEF Recover, ScanInv, OnceInv, ReplayInv, CompletedIsComplete, Upkeeps, UpkeepStates
<1>3. ViewInv' /\ WalkIsASnapshot'
  <2>1. view' = view /\ epoch' = epoch + 1 /\ epoch \in Nat
    BY DEF Recover, NewEpoch, StoreInv
  <2>2. view # NoView => view.epoch \in Nat /\ view.epoch < epoch'
    BY <2>1 DEF ViewInv, Views
  <2> QED
    BY <2>1, <2>2 DEF ViewInv, WalkIsASnapshot
<1> QED
  BY <1>1, <1>2, <1>3

\* A query leaves everything alone but the rows it prunes, the generation it
\* then raises, and the scan it asks for.
LEMMA QueryFacts ==
  ASSUME IndexInv, NEW r \in Runs, NEW kept \in Prunings(rows),
         rows' = kept, generation' = GenerationAfter(rows, kept),
         pending' = pending \/ Request(r),
         UNCHANGED <<final, receipts, keyless, floor, lastId, epoch, upkeep, job, copies, due>>
  PROVE  /\ StoreInv' /\ ScanInv' /\ OnceInv' /\ ReplayInv' /\ CompletedIsComplete'
         /\ kept \in SUBSET rows /\ generation <= generation'
         /\ generation' = generation => kept = rows
<1> USE DEF IndexInv
<1>1. rows \in SUBSET Rows /\ IsFiniteSet(rows) /\ generation \in Nat
  BY DEF StoreInv
<1>2. kept \in SUBSET rows /\ IsFiniteSet(kept)
  BY <1>1, PruneFacts
<1>3. generation' \in Nat /\ generation <= generation' /\ (generation' = generation => kept = rows)
  BY <1>1 DEF GenerationAfter
<1>4. StoreInv'
  BY <1>2, <1>3 DEF StoreInv
<1>5. pending' = pending \/ (job = NoJob /\ pending' \in Scans /\ ~pending'.rebuild)
  <2>1. CASE pending' = pending
    BY <2>1
  <2>2. CASE Request(r) /\ ~Idle
    BY <2>2 DEF Request
  <2>3. CASE Request(r) /\ Idle
    <3>1. PICK C \in Snapshots(r) : pending' = [run |-> r, rebuild |-> FALSE, load |-> C]
      BY <2>3 DEF Request
    <3> QED
      BY <2>3, <3>1, SnapshotFacts DEF Scans, Idle
  <2> QED
    BY <2>1, <2>2, <2>3
<1>6. ScanInv' /\ ReplayInv'
  <2>1. CASE pending' = pending
    BY <2>1, Zenon DEF ScanInv, ReplayInv, Unindexed
  <2>2. CASE job = NoJob /\ pending' \in Scans /\ ~pending'.rebuild
    BY <2>2 DEF ScanInv, ReplayInv
  <2> QED
    BY <1>5, <2>1, <2>2
<1>7. OnceInv' /\ CompletedIsComplete'
  BY DEF OnceInv, CompletedIsComplete
<1> QED
  BY <1>2, <1>3, <1>4, <1>6, <1>7

\* Open: the first page of a walk.
LEMMA OpenStep ==
  ASSUME IndexInv, NEW r \in Runs, Open(r)
  PROVE  IndexInv'
<1>1. PICK kept \in Prunings(rows) :
        /\ rows' = kept /\ generation' = GenerationAfter(rows, kept)
        /\ view' = IF r \in Viewed
                   THEN Walk(r, {x \in kept : RunOf[x.seg] = r}, Max({0} \cup {x.id : x \in kept}))
                   ELSE view
  BY Zenon DEF Open
<1>2. /\ UNCHANGED <<final, receipts, keyless, floor, lastId, epoch, upkeep, job, copies, due>>
      /\ Request(r)
  BY Zenon DEF Open, files
<1>3. /\ StoreInv' /\ ScanInv' /\ OnceInv' /\ ReplayInv' /\ CompletedIsComplete'
      /\ kept \in SUBSET rows /\ generation <= generation'
      /\ generation' = generation => kept = rows
  BY <1>1, <1>2, QueryFacts
<1>4. CASE r \notin Viewed
  <2>1. {x \in rows' : x.id <= lastId} = rows'
    BY <1>2, <1>3 DEF StoreInv
  <2>2. /\ view' = view /\ epoch' = epoch /\ lastId' = lastId
        /\ generation' = generation => {x \in rows' : x.id <= lastId} = rows
    BY <1>1, <1>2, <1>3, <1>4, <2>1
  <2>3. generation' \in Nat /\ lastId \in Nat /\ lastId <= lastId /\ rows' \in SUBSET Rows
    BY <1>2, <1>3 DEF StoreInv
  <2>4. ViewInv' /\ WalkIsASnapshot'
    BY <1>3, <2>2, <2>3, ViewKept DEF IndexInv
  <2> QED
    BY <1>3, <2>4 DEF IndexInv
<1>5. CASE r \in Viewed
  <2> DEFINE I == {0} \cup {x.id : x \in kept}
             R == {x \in kept : RunOf[x.seg] = r}
             top == Max(I)
  <2>1. kept \in SUBSET Rows /\ IsFiniteSet(kept) /\ lastId \in Nat /\ \A x \in kept : x.id <= lastId
    BY <1>1, <1>2, <1>3, Zenon DEF StoreInv
  <2>2. I \in SUBSET Nat /\ I # {} /\ \A i \in I : i <= lastId
    BY <2>1 DEF Rows
  <2>3. top \in I /\ \A i \in I : i <= top
    <3> HIDE DEF I
    <3> QED
      BY <2>1, <2>2, MaxFacts
  <2>4. top \in Nat /\ top <= lastId /\ \A x \in kept : x.id <= top
    <3>1. \A x \in kept : x.id \in I
      OBVIOUS
    <3> QED
      BY <2>2, <2>3, <3>1, Zenon
  <2>5. R \in SUBSET Rows /\ IsFiniteSet(R)
    <3>1. R \in SUBSET kept
      OBVIOUS
    <3> QED
      BY <3>1, <2>1, FS_Subset
  <2> HIDE DEF top, R
  <2>6. /\ Cursor(R, top + 1) \in Nat
        /\ Page(R, top + 1) = {x \in R : x.id < top + 1 /\ x.id >= Cursor(R, top + 1)}
    BY <2>4, <2>5, PageFacts
  <2>7. \A x \in R : x.id < top + 1
    BY <2>4, <2>1 DEF R, Rows
  <2>8. Page(R, top + 1) = {x \in R : x.id >= Cursor(R, top + 1)}
    BY <2>6, <2>7
  <2>9. view' = [run |-> r, epoch |-> epoch, generation |-> generation', top |-> top,
                 before |-> Cursor(R, top + 1), seen |-> Page(R, top + 1), wanted |-> R]
    BY <1>1, <1>5, Zenon DEF Walk, R, top
  <2>10. view' \in Views
    BY <2>4, <2>5, <2>6, <2>8, <2>9, <1>3 DEF Views, StoreInv, IndexInv
  <2>11. R = Snapshot(r, top)'
    BY <1>1, <2>4 DEF R, Snapshot
  <2>12. ViewInv'
    <3>1. /\ view'.epoch = epoch' /\ view'.generation = generation' /\ view'.top = top
          /\ view'.wanted = R /\ view'.run = r
      BY <2>9, <1>2
    <3>2. epoch' \in Nat /\ generation' \in Nat /\ lastId' = lastId
      BY <1>2, <1>3 DEF StoreInv
    <3> QED
      BY <3>1, <3>2, <2>4, <2>10, <2>11 DEF ViewInv
  <2>13. WalkIsASnapshot'
    BY <2>8, <2>9 DEF WalkIsASnapshot
  <2> QED
    BY <1>3, <2>12, <2>13 DEF IndexInv
<1> QED
  BY <1>4, <1>5

\* Older: the next page joins the earlier ones without a gap or a repetition.
LEMMA OlderStep ==
  ASSUME IndexInv, Older
  PROVE  IndexInv'
<1>1. view # NoView /\ view \in Views /\ view.before \in Nat
  <2>1. view # NoView
    BY DEF Older, NoView
  <2> QED
    BY <2>1 DEF IndexInv, ViewInv, Views
<1> DEFINE S(kept) == {r \in kept : RunOf[r.seg] = view.run /\ r.id <= view.top}
<1>2. PICK kept \in Prunings(rows) :
        /\ rows' = kept /\ generation' = GenerationAfter(rows, kept)
        /\ IF view.epoch = epoch /\ view.generation = generation'
           THEN /\ view' = [view EXCEPT !.before = Cursor(S(kept), view.before),
                                        !.seen = @ \cup Page(S(kept), view.before)]
                /\ Request(view.run)
           ELSE view' = NoView /\ pending' = pending
  BY Zenon DEF Older
<1>3. UNCHANGED <<final, receipts, keyless, floor, lastId, epoch, upkeep, job, copies, due>>
  BY DEF Older, files
<1>4. view.run \in Runs /\ (pending' = pending \/ Request(view.run))
  BY <1>1, <1>2 DEF Views
<1>5. /\ StoreInv' /\ ScanInv' /\ OnceInv' /\ ReplayInv' /\ CompletedIsComplete'
      /\ kept \in SUBSET rows /\ generation <= generation'
      /\ generation' = generation => kept = rows
  BY <1>2, <1>3, <1>4, QueryFacts
<1>6. CASE ~(view.epoch = epoch /\ view.generation = generation')
  <2>1. view' = NoView
    BY <1>2, <1>6
  <2> QED
    BY <2>1, <1>5 DEF IndexInv, ViewInv, WalkIsASnapshot, NoView
<1>7. CASE view.epoch = epoch /\ view.generation = generation'
  <2> DEFINE W == view.wanted
             c == Cursor(W, view.before)
  <2>1. /\ generation \in Nat /\ generation' \in Nat /\ view.generation <= generation
        /\ view.top <= lastId
    BY <1>1, <1>5, <1>7 DEF IndexInv, ViewInv, StoreInv
  <2>2. generation' = generation /\ view.generation = generation /\ rows' = rows /\ kept = rows
    BY <2>1, <1>2, <1>5, <1>7
  <2>3. W = Snapshot(view.run, view.top) /\ S(kept) = W
    BY <2>2, <1>1, <1>7 DEF IndexInv, ViewInv, Snapshot
  <2>4. W \in SUBSET Rows /\ IsFiniteSet(W)
    <3>1. W \in SUBSET rows
      BY <2>3 DEF Snapshot
    <3> QED
      BY <3>1, FS_Subset DEF IndexInv, StoreInv
  <2>5. /\ c \in Nat /\ c <= view.before
        /\ Page(W, view.before) = {r \in W : r.id < view.before /\ r.id >= c}
    BY <2>4, <1>1, PageFacts
  <2>6. view.seen = {r \in W : r.id >= view.before}
    BY DEF IndexInv, WalkIsASnapshot
  <2>7. view.seen \cup Page(W, view.before) = {r \in W : r.id >= c}
    <3>1. \A r \in W : r.id \in Nat
      BY <2>4 DEF Rows
    <3> HIDE DEF W, c
    <3> QED
      BY <3>1, <2>5, <2>6, <1>1
  <2>8. view' = [view EXCEPT !.before = c, !.seen = view.seen \cup Page(W, view.before)]
    BY <1>2, <1>7, <2>3, Zenon
  <2>9. /\ view'.before = c /\ view'.seen = {r \in W : r.id >= c} /\ view'.wanted = W
        /\ view'.run = view.run /\ view'.epoch = view.epoch
        /\ view'.generation = view.generation /\ view'.top = view.top
    <3> HIDE DEF c
    <3> QED
      BY <2>7, <2>8, <1>1 DEF Views
  <2>10. view' \in Views
    <3> HIDE DEF c
    <3>1. {r \in W : r.id >= c} \in SUBSET Rows
      BY <2>4
    <3> QED
      BY <3>1, <2>5, <2>7, <2>8, <1>1, Zenon DEF Views
  <2>11. WalkIsASnapshot'
    BY <2>9 DEF WalkIsASnapshot
  <2>12. ViewInv'
    <3>1. (view.wanted = Snapshot(view.run, view.top))'
      BY <2>2, <2>3, <2>9 DEF Snapshot
    <3>2. /\ view'.epoch = epoch' /\ epoch' \in Nat /\ view'.top <= lastId'
          /\ view'.generation = generation' /\ generation' \in Nat
      BY <2>1, <2>2, <2>9, <1>3, <1>5, <1>7 DEF StoreInv
    <3> HIDE DEF W, c, S
    <3> QED
      BY <3>1, <3>2, <2>10 DEF ViewInv
  <2> QED
    BY <1>5, <2>11, <2>12 DEF IndexInv
<1> QED
  BY <1>6, <1>7

\* IndexInv is inductive.
LEMMA IndexStep == IndexInv /\ [Next]_vars => IndexInv'
<1>1. ASSUME IndexInv, UNCHANGED vars PROVE IndexInv'
  BY <1>1, Zenon DEF vars, IndexInv, StoreInv, ScanInv, OnceInv, ReplayInv, CompletedIsComplete, ViewInv,
     WalkIsASnapshot, Unindexed, Snapshot
<1>2. ASSUME IndexInv, Next PROVE IndexInv'
  BY <1>2, QuietStep, BeginStep, LoadStep, FinishStep, SkipStep, SaveStep, RebuildStep, RecoverStep,
     OpenStep, OlderStep DEF Next
<1> QED
  BY <1>1, <1>2

LEMMA IndexInvariant == Spec => []IndexInv
BY IndexInit, IndexStep, PTL DEF Spec

\* No segment is indexed twice between two replays of its run, whatever the
\* sizes of the catalog, the window and the batch: known() and recycle() leave
\* no gap between the receipts and the retirement floor.
THEOREM NeverTwice == Spec => []IndexedOnce
<1>1. IndexInv => IndexedOnce
  BY DEF IndexInv, OnceInv, IndexedOnce
<1> QED
  BY <1>1, IndexInvariant, PTL

\* work() calls a rebuild completed only when it has replayed, or recorded as
\* failed, every segment of its window.
THEOREM RebuildsComplete == Spec => []CompletedIsComplete
<1>1. IndexInv => CompletedIsComplete
  BY DEF IndexInv
<1> QED
  BY <1>1, IndexInvariant, PTL

\* Whatever is indexed, pruned, rebuilt or recovered between its queries, a
\* reader that follows its cursor sees each row of one snapshot exactly once,
\* or is told that the snapshot is gone.
THEOREM PagesAreOneSnapshot == Spec => []WalkIsASnapshot
<1>1. IndexInv => WalkIsASnapshot
  BY DEF IndexInv
<1> QED
  BY <1>1, IndexInvariant, PTL
=============================================================================
