---------------------------- MODULE PacketIndex ----------------------------
(***************************************************************************)
(* The packet index (telemetry/packet_history.cpp): a worker that indexes  *)
(* finalized capture segments on demand, the receipts that keep a segment  *)
(* from being indexed twice, the catalog's recycling behind a retirement   *)
(* floor, rebuilds, and readers that page through a snapshot.  A segment is*)
(* its order key, a number; its packets are one row.  The oldest rows may  *)
(* have expired, or exceed the byte quota, whenever retention looks.       *)
(***************************************************************************)
EXTENDS Integers, FiniteSets, FiniteSetsExt

CONSTANTS
  SegmentCount, \* segments that come to be, numbered by their order keys
  RunOf,        \* the run of each segment
  CaptureOf,    \* the capture that wrote it: one directory, one manifest
  Bad,          \* segments whose file does not verify or decode
  Legacy,       \* receipts of an old database, without a key
  Catalog,      \* keyed receipts kept (1000 in the code)
  Window,       \* newest segments a scan looks at (1000)
  Batch,        \* new segments an ordinary scan indexes (128)
  MaxRows,      \* rows kept (20000)
  PageSize,
  Viewed,       \* runs whose index is paged through
  MaxRebuilds, MaxExpiries, MaxStops   \* bounds of the instance

\* Order keys: closure time, run, capture, sequence.
Segments == 1 .. SegmentCount
Runs == {RunOf[s] : s \in Segments}
Captures == {CaptureOf[s] : s \in Segments}

ASSUME IndexAssumption ==
  /\ SegmentCount \in Nat /\ Legacy \subseteq Segments /\ Bad \subseteq Segments
  /\ {Catalog, Window, Batch, MaxRows, PageSize, MaxRebuilds, MaxExpiries, MaxStops} \subseteq Nat
  /\ PageSize > 0 /\ Window > 0 /\ Viewed \subseteq Runs

VARIABLES
  final,        \* segments in a published manifest
  unreadable,   \* captures whose manifest stays missing, damaged or of another identity
  oversized,    \* segments with a row longer than the store takes
  receipts,     \* packet_segments
  keyless,      \* those of them without a key
  floor,        \* packet_retirement.floor
  rows,         \* packet_rows
  lastId, generation, epoch,
  upkeep,       \* packet_maintenance: the last rebuild's run and state
  pending,      \* the queued run, or NoJob
  job,          \* the scan in progress, or NoJob
  view,         \* a reader's walk
  bounds,       \* rebuilds, expiries and stops so far
  copies,       \* history: how often each segment's rows were inserted since its run's rebuild
  due           \* history: what the last rebuild has still to replay

db == <<receipts, keyless, floor, rows, lastId, generation, epoch, upkeep, copies, due>>
files == <<final, unreadable, oversized>>
vars == <<final, unreadable, oversized, receipts, keyless, floor, rows, lastId, generation,
          epoch, upkeep, pending, job, view, bounds, copies, due>>

NoJob == [run |-> "none"]
NoView == [run |-> "none", before |-> 0, seen |-> {}, wanted |-> {}]

Init ==
  /\ final = Legacy /\ unreadable = {} /\ oversized = {} /\ receipts = Legacy
  /\ keyless = Legacy /\ floor = 0
  /\ rows = {} /\ lastId = 0 /\ generation = 0 /\ epoch = 1
  /\ upkeep = [run |-> "none", state |-> "none"]
  /\ pending = NoJob /\ job = NoJob /\ view = NoView
  /\ bounds = [rebuilds |-> 0, expiries |-> 0, stops |-> 0]
  /\ copies = [s \in Segments |-> IF s \in Legacy THEN 1 ELSE 0] /\ due = {}

\* The capture writer publishes a segment; manifests may come late and out of order.
Finalize(s) ==
  /\ s \notin final /\ final' = final \cup {s}
  /\ UNCHANGED db /\ UNCHANGED <<unreadable, oversized, pending, job, view, bounds>>

\* What fails every scan from now on: a manifest is lost or damaged, or a
\* segment is written that decodes to a row over 2048 bytes.
Damage ==
  /\ bounds.stops < MaxStops /\ bounds' = [bounds EXCEPT !.stops = @ + 1]
  /\ \/ /\ \E c \in Captures : unreadable' = unreadable \cup {c}
        /\ UNCHANGED <<final, oversized>>
     \/ /\ \E s \in Segments \ (final \cup Bad) :
             final' = final \cup {s} /\ oversized' = oversized \cup {s}
        /\ UNCHANGED unreadable
  /\ UNCHANGED db /\ UNCHANGED <<pending, job, view>>

-----------------------------------------------------------------------------
(* Retention of rows and of receipts.                                      *)
NewestOf(S, n) == {x \in S : Cardinality({y \in S : y > x}) < n}
Newest(R, n) == {r \in R : r.id \in NewestOf({x.id : x \in R}, n)}

\* prune(): what has expired, and the rows over the quota.
Prunings(R) ==
  {Newest(R, MaxRows)} \cup
    (IF bounds.expiries < MaxExpiries THEN {Newest(R, n) : n \in 0..MaxRows} ELSE {})

GenerationIfFull(R, kept) == IF Cardinality(R) > MaxRows THEN generation + 1 ELSE generation

GenerationAfter(R, kept) == IF kept # R THEN generation + 1 ELSE generation

Expiry(R, kept) ==
  IF kept = Newest(R, MaxRows) THEN bounds ELSE [bounds EXCEPT !.expiries = @ + 1]

\* recycle(): the oldest keyed receipts over the catalog's size go, and the floor rises.
Retired(keyed) == keyed \ NewestOf(keyed, Catalog)

FloorStays(keyed) == floor

FloorAfter(keyed) == Max({floor} \cup Retired(keyed))

-----------------------------------------------------------------------------
(* work(): one scan at a time.                                             *)
Published(run) == {s \in final : RunOf[s] = run}
Candidates(run) == NewestOf(Published(run), Window)

\* The worker takes the request, with the captures that its run had then.
Begin ==
  /\ pending # NoJob /\ job = NoJob
  /\ job' = [run |-> pending.run, rebuild |-> pending.rebuild, load |-> pending.load,
             todo |-> {}, new |-> 0]
  /\ pending' = NoJob
  /\ upkeep' = IF pending.rebuild THEN [upkeep EXCEPT !.state = "running"] ELSE upkeep
  /\ UNCHANGED files
  /\ UNCHANGED <<receipts, keyless, floor, rows, lastId, generation, epoch, view, bounds, copies, due>>

\* Their manifests are read one after the other; the window keeps the newest segments.
Load(c) ==
  /\ job # NoJob /\ c \in job.load \ unreadable
  /\ LET found == NewestOf(job.todo \cup {s \in Published(job.run) : CaptureOf[s] = c}, Window)
     IN /\ job' = [job EXCEPT !.load = @ \ {c}, !.todo = found]
        /\ due' = IF job.rebuild THEN found ELSE due
  /\ UNCHANGED files
  /\ UNCHANGED <<receipts, keyless, floor, rows, lastId, generation, epoch, upkeep, pending, view,
                 bounds, copies>>

Working(s) == job # NoJob /\ job.load = {} /\ job.todo # {} /\ s = Min(job.todo)
Known(s) == s \in receipts \/ (~job.rebuild /\ s <= floor)
Enough == ~job.rebuild /\ job.new >= Batch

SkipCounts(s) ==
  /\ Working(s) /\ Known(s)
  /\ job' = [job EXCEPT !.todo = @ \ {s}, !.new = @ + 1]
  /\ UNCHANGED db /\ UNCHANGED files /\ UNCHANGED <<pending, view, bounds>>

\* known(): a receipt, to which an old one gets its key; or a key that has retired.
Skip(s) ==
  /\ Working(s) /\ Known(s)
  /\ job' = [job EXCEPT !.todo = @ \ {s}]
  /\ LET keyed == (receipts \ keyless) \cup {s}
     IN IF s \in keyless
        THEN /\ receipts' = receipts \ Retired(keyed) /\ floor' = FloorAfter(keyed)
             /\ keyless' = keyless \ {s}
        ELSE UNCHANGED <<receipts, floor, keyless>>
  /\ UNCHANGED files
  /\ UNCHANGED <<rows, lastId, generation, epoch, upkeep, pending, view, bounds, copies, due>>

\* The rows of a segment: none, with a receipt of the failure, if it does not verify or decode.
RowsOf(s) == IF s \in Bad THEN {} ELSE {[id |-> lastId + 1, seg |-> s]}

\* save(): rows, receipt, pruning and recycling in one transaction.
Save(s) ==
  /\ Working(s) /\ ~Known(s) /\ ~Enough /\ s \notin oversized
  /\ LET keyed == (receipts \ keyless) \cup {s}
         R == rows \cup RowsOf(s)
     IN /\ receipts' = (receipts \cup {s}) \ Retired(keyed)
        /\ floor' = FloorAfter(keyed)
        /\ \E kept \in Prunings(R) :
             rows' = kept /\ generation' = GenerationAfter(R, kept) /\ bounds' = Expiry(R, kept)
  /\ IF s \in Bad THEN UNCHANGED <<lastId, copies>>
     ELSE lastId' = lastId + 1 /\ copies' = [copies EXCEPT ![s] = @ + 1]
  /\ due' = IF job.rebuild THEN due \ {s} ELSE due
  /\ job' = [job EXCEPT !.todo = @ \ {s}, !.new = @ + 1]
  /\ UNCHANGED files /\ UNCHANGED <<keyless, epoch, upkeep, pending, view>>

\* The scan ends: nothing is left, or it has indexed enough for one request.
Finish ==
  /\ job # NoJob /\ job.load = {}
  /\ \A s \in job.todo : Working(s) => ~Known(s) /\ Enough
  /\ job' = NoJob
  /\ upkeep' = IF job.rebuild THEN [upkeep EXCEPT !.state = "completed"] ELSE upkeep
  /\ UNCHANGED files
  /\ UNCHANGED <<receipts, keyless, floor, rows, lastId, generation, epoch, pending, view, bounds,
                 copies, due>>

\* The scan has come to a manifest that it cannot read or a row that it cannot insert.
Doomed ==
  /\ job # NoJob
  /\ job.load \cap unreadable # {} \/ \E s \in oversized : Working(s) /\ ~Known(s) /\ ~Enough

\* The scan is given up: it is doomed, or a file or a transaction fails for this once.
Fail ==
  /\ job # NoJob /\ job' = NoJob
  /\ \/ Doomed /\ bounds' = bounds
     \/ ~Doomed /\ bounds.stops < MaxStops /\ bounds' = [bounds EXCEPT !.stops = @ + 1]
  /\ upkeep' \in IF job.rebuild THEN {upkeep, [upkeep EXCEPT !.state = "failed"]} ELSE {upkeep}
  /\ UNCHANGED files
  /\ UNCHANGED <<receipts, keyless, floor, rows, lastId, generation, epoch, pending, view, copies, due>>

StopCompletes ==
  /\ bounds.stops < MaxStops /\ bounds' = [bounds EXCEPT !.stops = @ + 1]
  /\ job' = NoJob /\ pending' = NoJob
  /\ upkeep' = IF job # NoJob /\ job.rebuild THEN [upkeep EXCEPT !.state = "completed"] ELSE upkeep
  /\ UNCHANGED files
  /\ UNCHANGED <<receipts, keyless, floor, rows, lastId, generation, epoch, view, copies, due>>

\* The agent stops, between two segments, or dies; the next one opens the database.
Stop ==
  /\ bounds.stops < MaxStops /\ bounds' = [bounds EXCEPT !.stops = @ + 1]
  /\ job' = NoJob /\ pending' = NoJob
  /\ upkeep' = IF upkeep.state \in {"queued", "running"} THEN [upkeep EXCEPT !.state = "interrupted"]
               ELSE upkeep
  /\ UNCHANGED files
  /\ UNCHANGED <<receipts, keyless, floor, rows, lastId, generation, epoch, view, copies, due>>

-----------------------------------------------------------------------------
(* rebuild() clears a run's rows and receipts and queues its replay.       *)
Idle == job = NoJob /\ pending = NoJob

\* The captures of a run when its scan is asked for: those with a published
\* segment, and perhaps others that have begun.
Snapshots(run) ==
  LET ofRun == {CaptureOf[s] : s \in {x \in Segments : RunOf[x] = run}}
  IN {C \in SUBSET ofRun : \A s \in Published(run) : CaptureOf[s] \in C}

RebuildAllowed == bounds.rebuilds < MaxRebuilds /\ Idle

Rebuild(run) ==
  /\ RebuildAllowed
  /\ bounds' = [bounds EXCEPT !.rebuilds = @ + 1]
  /\ rows' = {r \in rows : RunOf[r.seg] # run}
  /\ receipts' = {s \in receipts : RunOf[s] # run}
  /\ keyless' = {s \in keyless : RunOf[s] # run}
  /\ generation' = generation + 1
  /\ upkeep' = [run |-> run, state |-> "queued"]
  /\ \E C \in Snapshots(run) : pending' = [run |-> run, rebuild |-> TRUE, load |-> C]
  /\ copies' = [s \in Segments |-> IF RunOf[s] = run THEN 0 ELSE copies[s]]
  /\ due' = {}
  /\ UNCHANGED files /\ UNCHANGED <<floor, lastId, epoch, job, view>>

\* recover() replaces the database by an empty one.
NewEpoch == epoch + 1

Recover ==
  /\ bounds.rebuilds < MaxRebuilds /\ bounds' = [bounds EXCEPT !.rebuilds = @ + 1]
  /\ receipts' = {} /\ keyless' = {} /\ floor' = 0 /\ rows' = {} /\ lastId' = 0
  /\ generation' = 0 /\ epoch' = NewEpoch /\ upkeep' = [run |-> "none", state |-> "none"]
  /\ pending' = NoJob /\ job' = NoJob
  /\ copies' = [s \in Segments |-> 0] /\ due' = {}
  /\ UNCHANGED files /\ UNCHANGED view

-----------------------------------------------------------------------------
(* query() prunes, answers a page and asks for a scan.                     *)
Request(run) ==
  IF Idle
  THEN \E C \in Snapshots(run) : pending' = [run |-> run, rebuild |-> FALSE, load |-> C]
  ELSE pending' = pending

Page(R, before) == Newest({r \in R : r.id < before}, PageSize)
Cursor(R, before) ==
  LET page == Page(R, before)
  IN IF Cardinality({r \in R : r.id < before}) > PageSize THEN Min({r.id : r \in page}) ELSE 0

Walk(run, R, top) ==
  [run |-> run, epoch |-> epoch, generation |-> generation', top |-> top,
   before |-> Cursor(R, top + 1), seen |-> Page(R, top + 1), wanted |-> R]

Open(run) ==
  /\ \E kept \in Prunings(rows) :
       LET R == {r \in kept : RunOf[r.seg] = run} IN
       /\ rows' = kept /\ generation' = GenerationAfter(rows, kept) /\ bounds' = Expiry(rows, kept)
       /\ view' = IF run \in Viewed THEN Walk(run, R, Max({0} \cup {r.id : r \in kept})) ELSE view
  /\ Request(run)
  /\ UNCHANGED files
  /\ UNCHANGED <<receipts, keyless, floor, lastId, epoch, upkeep, job, copies, due>>

Older ==
  /\ view.before > 0
  /\ \E kept \in Prunings(rows) :
       LET R == {r \in kept : RunOf[r.seg] = view.run /\ r.id <= view.top} IN
       /\ rows' = kept /\ generation' = GenerationAfter(rows, kept) /\ bounds' = Expiry(rows, kept)
       /\ IF view.epoch = epoch /\ view.generation = generation'
          THEN /\ view' = [view EXCEPT !.before = Cursor(R, view.before), !.seen = @ \cup Page(R, view.before)]
               /\ Request(view.run)
          ELSE view' = NoView /\ pending' = pending
  /\ UNCHANGED files
  /\ UNCHANGED <<receipts, keyless, floor, lastId, epoch, upkeep, job, copies, due>>

-----------------------------------------------------------------------------
Next ==
  \/ \E s \in Segments : Finalize(s) \/ Skip(s) \/ Save(s)
  \/ \E run \in Runs : Rebuild(run) \/ Open(run)
  \/ \E c \in Captures : Load(c)
  \/ Damage \/ Begin \/ Finish \/ Fail \/ Stop \/ Recover \/ Older

Spec == Init /\ [][Next]_vars

\* The worker runs on, and gives up a doomed scan; the console polls, and now and then
\* meets an idle worker.
FairSpec ==
  /\ Spec /\ WF_vars(Begin) /\ WF_vars(Finish) /\ WF_vars(Doomed /\ Fail)
  /\ \A c \in Captures : WF_vars(Load(c))
  /\ \A s \in Segments : WF_vars(Skip(s)) /\ WF_vars(Save(s))
  /\ \A run \in Runs : SF_vars(Idle /\ Open(run))

-----------------------------------------------------------------------------

\* Types of all variables.
TypeOK ==
  /\ receipts \subseteq final /\ final \subseteq Segments /\ keyless \subseteq receipts
  /\ floor \in Segments \cup {0} /\ Cardinality(receipts \ keyless) <= Catalog
  /\ rows \subseteq [id : 1..lastId, seg : final] /\ Cardinality(rows) <= MaxRows
  /\ upkeep.state \in {"none", "queued", "running", "completed", "failed", "interrupted"}
  /\ job # NoJob => job.todo \subseteq final /\ job.new \in 0..Cardinality(Segments)

\* A segment's packets are indexed at most once, whatever is pruned, recycled, stopped or
\* failed in between, until a rebuild of its run or a recovery asks for a replay.
IndexedOnce == \A s \in Segments : copies[s] <= 1

\* A reader that reaches the end of its cursor has been shown exactly the rows its first
\* page's snapshot held; on the way, exactly those above the cursor.
WalkIsASnapshot == view.seen = {r \in view.wanted : r.id >= view.before}

\* A rebuild that calls itself completed has replayed, or recorded as failed, every segment
\* of its window.
CompletedIsComplete == upkeep.state = "completed" => due = {}

\* What keeps every scan of a segment's run from reaching it: a manifest of the run that
\* cannot be read, or a row before it, or its own, that cannot be inserted.
Blocked(s) ==
  \/ \E x \in Segments : RunOf[x] = RunOf[s] /\ CaptureOf[x] \in unreadable
  \/ \E x \in oversized : RunOf[x] = RunOf[s] /\ x <= s

\* Every segment in a manifest is in time indexed, retired or outside its run's window,
\* whatever scans failed or stopped before, unless its own run is blocked for good: a
\* blocked run keeps the worker from no other.
IndexCatchesUp ==
  \A s \in Segments :
    (s \in final) ~> (s \in receipts \/ s <= floor \/ s \notin Candidates(RunOf[s]) \/ Blocked(s))
=============================================================================
