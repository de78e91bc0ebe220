---------------------------- MODULE LedgerProofs ----------------------------
(***************************************************************************)
(* What the journal says of a run while one job of it is carried out, and  *)
(* when a commit fails: there is one mutation at a time, its job is the one*)
(* in the frame, and memory and disk agree but in the handlers.  Hence     *)
(* generations and epochs are given out once, and on disk before anything  *)
(* obeys them; no two live faults share a lane, in memory or on disk.      *)
(***************************************************************************)
EXTENDS EngineProofs

(***************************************************************************)
(* What each mutation of the journal writes, and what it leaves alone.     *)
(***************************************************************************)
SameRuns(s, t) == t.state = s.state /\ t.cov = s.cov
SameCounts(s, t) == t.gen = s.gen /\ t.epoch = s.epoch /\ t.planned = s.planned
SameThings(s, t) == t.res = s.res /\ t.flt = s.flt

StateWritten(s, t, r, v) ==
  /\ t.state = [s.state EXCEPT ![r] = v] /\ t.cov = s.cov
  /\ SameCounts(s, t) /\ SameThings(s, t) /\ t.job = s.job
CovWritten(s, t, r, v) ==
  /\ t.cov = [s.cov EXCEPT ![r] = v] /\ t.state = s.state
  /\ SameCounts(s, t) /\ SameThings(s, t) /\ t.job = s.job
ResWritten(s, t, r, i, v) ==
  /\ t.res = [s.res EXCEPT ![r] = [@ EXCEPT ![i] = v]] /\ t.flt = s.flt
  /\ SameRuns(s, t) /\ SameCounts(s, t) /\ t.job = s.job
FaultWritten(s, t, f, v) ==
  /\ t.flt = [s.flt EXCEPT ![f] = v] /\ t.res = s.res
  /\ SameRuns(s, t) /\ SameCounts(s, t) /\ t.job = s.job
\* A job keeps what it was asked for.
SameOrder(a, b) == b.op = a.op /\ b.run = a.run /\ b.flt = a.flt
JobWritten(s, t, j, v) ==
  /\ t.job[j].is = v /\ SameOrder(s.job[j], t.job[j])
  /\ \A i \in JobIds \ {j} : t.job[i] = s.job[i]
  /\ SameRuns(s, t) /\ SameCounts(s, t) /\ SameThings(s, t)
EpochWritten(s, t, r) ==
  /\ t.epoch = [s.epoch EXCEPT ![r] = @ + 1] /\ t.planned = [s.planned EXCEPT ![r] = FALSE]
  /\ t.gen = s.gen /\ SameRuns(s, t) /\ SameThings(s, t) /\ t.job = s.job
PlanWritten(s, t, r) ==
  /\ t.planned = [s.planned EXCEPT ![r] = TRUE] /\ t.epoch = s.epoch
  /\ t.gen = s.gen /\ SameRuns(s, t) /\ SameThings(s, t) /\ t.job = s.job
SameAll(s, t) == SameRuns(s, t) /\ SameCounts(s, t) /\ SameThings(s, t) /\ t.job = s.job

LEMMA WriteState ==
  ASSUME NEW s \in Journal, NEW r, NEW v
  PROVE  StateWritten(s, SetState(s, r, v), r, v)
BY Zenon DEF StateWritten, SameCounts, SameThings, SetState, Journal

LEMMA WriteCov ==
  ASSUME NEW s \in Journal, NEW r, NEW v
  PROVE  CovWritten(s, SetCov(s, r, v), r, v)
BY Zenon DEF CovWritten, SameCounts, SameThings, SetCov, Journal

LEMMA WriteRes ==
  ASSUME NEW s \in Journal, NEW r, NEW i, NEW v
  PROVE  ResWritten(s, SetRes(s, r, i, v), r, i, v)
BY Zenon DEF ResWritten, SameCounts, SameRuns, SetRes, Journal

LEMMA WriteFault ==
  ASSUME NEW s \in Journal, NEW f, NEW v
  PROVE  FaultWritten(s, SetFault(s, f, v), f, v)
BY Zenon DEF FaultWritten, SameCounts, SameRuns, SetFault, Journal

LEMMA WriteJob ==
  ASSUME NEW s \in Journal, NEW j \in JobIds, NEW v
  PROVE  JobWritten(s, SetJob(s, j, v), j, v)
<1> DEFINE t == SetJob(s, j, v)
<1>1. t.job = [s.job EXCEPT ![j] = [@ EXCEPT !.is = v]]
      /\ SameRuns(s, t) /\ SameCounts(s, t) /\ SameThings(s, t)
  BY Zenon DEF Journal, SetJob, SameRuns, SameCounts, SameThings
<1>2. s.job \in [JobIds -> Jobs]
  BY Zenon DEF Journal
<1>3. t.job[j] = [s.job[j] EXCEPT !.is = v] /\ \A i \in JobIds \ {j} : t.job[i] = s.job[i]
  BY <1>1, <1>2, Zenon
<1>4. t.job[j].is = v /\ SameOrder(s.job[j], t.job[j])
  BY <1>2, <1>3, Zenon DEF Jobs, SameOrder
<1> QED  BY <1>1, <1>3, <1>4, Zenon DEF JobWritten

LEMMA WriteEpoch ==
  ASSUME NEW s \in Journal, NEW r
  PROVE  EpochWritten(s, NewEpoch(s, r), r)
BY Zenon DEF EpochWritten, SameRuns, SameThings, NewEpoch, Journal

LEMMA WritePlan ==
  ASSUME NEW s \in Journal, NEW r
  PROVE  PlanWritten(s, [s EXCEPT !.planned[r] = TRUE], r)
BY Zenon DEF PlanWritten, SameRuns, SameThings, Journal

LEMMA WriteBump ==
  ASSUME NEW s \in Journal, NEW r
  PROVE  SameAll(s, Bump(s, r))
BY Zenon DEF SameAll, SameRuns, SameCounts, SameThings, Bump, Journal

(***************************************************************************)
(* One mutation at a time.  While a job is carried out it is running on    *)
(* disk and, until its outcome is written, in memory; no other job waits;  *)
(* and memory differs from disk only in a handler of a failed commit.      *)
(***************************************************************************)
AtMostOne(s) == \A i, j \in JobIds : Pending(s, i) /\ Pending(s, j) => i = j
Agree(s, t) == SameRuns(s, t) /\ SameCounts(s, t) /\ SameThings(s, t)
Handlers == {"catch", "failed"}
JobAt ==
  /\ disk.job[job].is = "running" /\ st.job[job].run = run
  /\ st.job[job].is = "running" \/ (stopping /\ pc \in Handlers)
  /\ \A j \in JobIds : st.job[j].is # "queued"
  /\ pc \notin Handlers \cup {"m5fail"} => Agree(st, disk)
JobInv ==
  /\ AtMostOne(st) /\ AtMostOne(disk)
  /\ InJob(pc) => JobAt

\* Commits of a job that write its run's state, coverage or resources: jobs,
\* counts and faults stay, and no run becomes absent.
Stays(s, t) ==
  /\ t.job = s.job /\ t.gen = s.gen /\ t.epoch = s.epoch /\ t.flt = s.flt
  /\ \A r \in Runs : t.state[r] = "absent" => s.state[r] = "absent"

RunCommit == Converge \/ Stopped \/ Destroy \/ Compensate \/ Destroyed \/ Armed \/ RecordClosed
             \/ Prepared \/ ResourceRemoved
(***************************************************************************)
(* Commits that write a fault, and commits that end a job.                 *)
(***************************************************************************)
Moves(s, t, f, v) ==
  /\ t.job = s.job /\ t.gen = s.gen /\ t.epoch = s.epoch /\ t.flt = [s.flt EXCEPT ![f] = v]
  /\ \A r \in Runs : t.state[r] = "absent" => s.state[r] = "absent"
\* t is s with the outcome v of job j.
Ends(s, t, j, v) ==
  /\ t.job[j].is = v /\ SameOrder(s.job[j], t.job[j])
  /\ \A i \in JobIds \ {j} : t.job[i] = s.job[i]
  /\ t.gen = s.gen /\ t.epoch = s.epoch
  /\ \A r \in Runs : t.state[r] = "absent" => s.state[r] = "absent"

\* The commits of m5_execute: a fault begins to move, or the job ends.  A fault
\* that is live afterwards is the one of a fault.apply, or was live before.
Raises(w) == Live(w) => /\ pc \in {"fault", "settle"}
                        /\ This.op = "fault.apply" \/ Live(st.flt[tgt])
(***************************************************************************)
(* Requests that are admitted.                                             *)
(***************************************************************************)
Ordered(s, t, j, op, r, f) ==
  /\ t.job[j].is = "queued" /\ t.job[j].op = op /\ t.job[j].run = r /\ t.job[j].flt = f
  /\ \A i \in JobIds \ {j} : t.job[i] = s.job[i]
LEMMA EnterOrders ==
  ASSUME NEW s \in Journal, NEW k, NEW j \in JobIds, NEW req, NEW r, NEW f
  PROVE  /\ Ordered(s, Enter(k, j, req, s, r, f), j, req.op, r, f)
         /\ Agree(s, Enter(k, j, req, s, r, f))
<1> DEFINE t == Enter(k, j, req, s, r, f)
           e == [is |-> "queued", op |-> req.op, run |-> r, rev |-> s.rev[r],
                 flt |-> f, cancel |-> FALSE]
<1>1. t.job = [s.job EXCEPT ![j] = e] /\ Agree(s, t)
  BY Zenon DEF Enter, Journal, Agree, SameRuns, SameCounts, SameThings
<1>2. s.job \in [JobIds -> Jobs]
  BY Zenon DEF Journal
<1>3. t.job[j] = e /\ \A i \in JobIds \ {j} : t.job[i] = s.job[i]
  BY <1>1, <1>2, Zenon
<1> QED  BY <1>1, <1>3 DEF Ordered

\* The request is admitted as job j; new is committed, or admission closes.
Accepts(new, j, op, r, f) ==
  /\ Serving /\ ~Busy /\ j \in JobIds /\ st.job[j].is = "absent"
  /\ Ordered(st, new, j, op, r, f)
  /\ st' = new /\ (disk' = new \/ (disk' = disk /\ stopping'))
  /\ UNCHANGED <<pc, frame, world>>

RunCreated(s, t, r) ==
  /\ t.state = [s.state EXCEPT ![r] = "preparing"] /\ t.gen = [s.gen EXCEPT ![r] = 1]
  /\ t.cov = [s.cov EXCEPT ![r] = IF r \in Recording THEN "pending" ELSE "unavailable"]
  /\ t.epoch = s.epoch /\ t.planned = s.planned /\ SameThings(s, t)
LEMMA StartAccepted ==
  ASSUME TypeInv, NEW k \in Keys, NEW j \in JobIds, NEW r \in Runs, Start(k, j, r)
  PROVE  \E new : Accepts(new, j, "start", r, NoFault) /\ RunCreated(st, new, r)
<1> DEFINE s == NewRun(st, r)
           new == Enter(k, j, StartRequest, s, r, NoFault)
<1>1. st \in Journal /\ r \in Runs
  BY Zenon DEF TypeInv, TypeOK
<1>2. s \in Journal
  BY <1>1, NewRunFollows, Zenon DEF Follows, Good, TypeInv
<1>3. s.job = st.job /\ RunCreated(st, s, r)
  BY <1>1, Zenon DEF NewRun, Journal, RunCreated, SameThings
<1>4. CommitAndReply(k, new) /\ Admissible(k, j) /\ UNCHANGED <<pc, frame, world>>
  BY Zenon DEF Start
<1> HIDE DEF s
<1>5. Ordered(s, new, j, "start", r, NoFault) /\ Agree(s, new)
  BY <1>2, EnterOrders DEF StartRequest
<1> HIDE DEF new
<1>6. Ordered(st, new, j, "start", r, NoFault) /\ RunCreated(st, new, r)
  BY <1>3, <1>5 DEF Ordered, RunCreated, Agree, SameRuns, SameCounts, SameThings
<1>7. Accepts(new, j, "start", r, NoFault)
  BY <1>4, <1>6, Zenon DEF Accepts, CommitAndReply, Admissible, Fresh
<1> QED  BY <1>6, <1>7, Zenon

LEMMA OrderOnBump ==
  ASSUME NEW s \in Journal, NEW k, NEW j \in JobIds, NEW req, NEW r, NEW f, NEW b
  PROVE  LET t == Enter(k, j, req, Bump(s, b), r, f)
         IN Ordered(s, t, j, req.op, r, f) /\ Agree(s, t)
<1>1. Bump(s, b) \in Journal /\ SameAll(s, Bump(s, b))
  BY BumpType, WriteBump, Zenon
<1>2. PICK u : u = Bump(s, b)
  OBVIOUS
<1>3. Ordered(u, Enter(k, j, req, u, r, f), j, req.op, r, f) /\ Agree(u, Enter(k, j, req, u, r, f))
  BY <1>1, <1>2, EnterOrders, Zenon
<1>4. Ordered(s, Enter(k, j, req, u, r, f), j, req.op, r, f) /\ Agree(s, Enter(k, j, req, u, r, f))
  BY <1>1, <1>2, <1>3, Zenon DEF Ordered, Agree, SameAll, SameRuns, SameCounts,
      SameThings
<1> QED  BY <1>2, <1>4, Zenon

LEMMA OperateAccepted ==
  ASSUME TypeInv, NEW k \in Keys, NEW j \in JobIds, NEW r \in Runs, NEW op, Operate(k, j, r, op)
  PROVE  \E new : Accepts(new, j, op, r, NoFault) /\ Agree(st, new)
<1> DEFINE req == OperateRequest(op, r, NoFault)
           new == Enter(k, j, req, Bump(st, r), r, NoFault)
<1>1. st \in Journal /\ req.op = op
  BY Zenon DEF TypeInv, TypeOK, OperateRequest
<1>2. CommitAndReply(k, new) /\ Admissible(k, j) /\ UNCHANGED <<pc, frame, world>>
  BY Zenon DEF Operate
<1> HIDE DEF req
<1>3. Ordered(st, new, j, op, r, NoFault) /\ Agree(st, new)
  BY <1>1, OrderOnBump, Zenon
<1> HIDE DEF new
<1>4. Accepts(new, j, op, r, NoFault)
  BY <1>2, <1>3, Zenon DEF Accepts, CommitAndReply, Admissible, Fresh
<1> QED  BY <1>3, <1>4, Zenon

LEMMA RemoveAccepted ==
  ASSUME TypeInv, NEW k \in Keys, NEW j \in JobIds, NEW f \in Faults, FaultRemove(k, j, f)
  PROVE  \E new : Accepts(new, j, "fault.remove", Owner[f], f) /\ Agree(st, new)
<1> DEFINE req == OperateRequest("fault.remove", Owner[f], f)
           new == Enter(k, j, req, Bump(st, Owner[f]), Owner[f], f)
<1>1. st \in Journal /\ req.op = "fault.remove"
  BY Zenon DEF TypeInv, TypeOK, OperateRequest
<1>2. CommitAndReply(k, new) /\ Admissible(k, j) /\ UNCHANGED <<pc, frame, world>>
  BY Zenon DEF FaultRemove
<1> HIDE DEF req
<1>3. Ordered(st, new, j, "fault.remove", Owner[f], f) /\ Agree(st, new)
  BY <1>1, OrderOnBump, Zenon
<1> HIDE DEF new
<1>4. Accepts(new, j, "fault.remove", Owner[f], f)
  BY <1>2, <1>3, ZenonT(30) DEF Accepts, CommitAndReply, Admissible, Fresh
<1> QED  BY <1>3, <1>4, Zenon

LEMMA ApplyAccepted ==
  ASSUME TypeInv, NEW k \in Keys, NEW j \in JobIds, NEW f \in Faults, FaultApply(k, j, f)
  PROVE  \E new : /\ Accepts(new, j, "fault.apply", Owner[f], f)
                  /\ new.flt = [st.flt EXCEPT ![f] = "queued"] /\ new.res = st.res
                  /\ SameRuns(st, new) /\ SameCounts(st, new)
<1> DEFINE req == OperateRequest("fault.apply", Owner[f], NoFault)
           s == SetFault(st, f, "queued")
           new == Enter(k, j, req, Bump(s, Owner[f]), Owner[f], f)
<1>1. st \in Journal /\ req.op = "fault.apply"
  BY Zenon DEF TypeInv, TypeOK, OperateRequest
<1>2. CommitAndReply(k, new) /\ Admissible(k, j) /\ UNCHANGED <<pc, frame, world>>
  BY Zenon DEF FaultApply
<1>3. s \in Journal /\ FaultWritten(st, s, f, "queued")
  BY <1>1, SetFaultType, WriteFault, Zenon DEF FaultStates
<1> HIDE DEF req, s
<1>4. Ordered(s, new, j, "fault.apply", Owner[f], f) /\ Agree(s, new)
  BY <1>1, <1>3, OrderOnBump, Zenon
<1> HIDE DEF new
<1>5. /\ Ordered(st, new, j, "fault.apply", Owner[f], f)
      /\ new.flt = [st.flt EXCEPT ![f] = "queued"] /\ new.res = st.res
      /\ SameRuns(st, new) /\ SameCounts(st, new)
  BY <1>3, <1>4, Zenon DEF FaultWritten, Ordered, Agree, SameRuns, SameCounts,
      SameThings
<1>6. Accepts(new, j, "fault.apply", Owner[f], f)
  BY <1>2, <1>5, Zenon DEF Accepts, CommitAndReply, Admissible, Fresh
<1> QED  BY <1>5, <1>6, ZenonT(30)

\* What a cancel leaves of every job: all but the flag.
LEMMA CancelMarks ==
  ASSUME TypeInv, NEW j \in JobIds, Cancel(j)
  PROVE  /\ pc' = pc /\ pc # "off" /\ stopping = FALSE /\ UNCHANGED <<frame, world>>
         /\ Agree(st, st') /\ (disk' = st' \/ (disk' = disk /\ stopping'))
         /\ \A i \in JobIds : st'.job[i].is = st.job[i].is /\ SameOrder(st.job[i], st'.job[i])
<1> DEFINE new == [st EXCEPT !.job[j].cancel = TRUE]
<1>1. st \in Journal /\ stopping \in BOOLEAN
  BY Zenon DEF TypeInv, TypeOK
<1>2. new.job = [st.job EXCEPT ![j] = [@ EXCEPT !.cancel = TRUE]] /\ Agree(st, new)
  BY <1>1, Zenon DEF Journal, Agree, SameRuns, SameCounts, SameThings
<1>3. st.job \in [JobIds -> Jobs]
  BY <1>1, Zenon DEF Journal
<1>4. \A i \in JobIds : new.job[i].is = st.job[i].is /\ SameOrder(st.job[i], new.job[i])
  <2>1. new.job[j] = [st.job[j] EXCEPT !.cancel = TRUE] /\ \A i \in JobIds \ {j} : new.job[i] = st.job[i]
    BY <1>2, <1>3, Zenon
  <2> QED  BY <1>3, <2>1 DEF Jobs, SameOrder
<1>5. Save(new, pc, pc) /\ Serving /\ UNCHANGED <<frame, world>>
  BY Zenon DEF Cancel
<1> HIDE DEF new
<1>6. st' = new
  BY <1>5, Zenon DEF Save, Serving
<1>7. disk' = st' \/ (disk' = disk /\ stopping')
  BY <1>5, ZenonT(30) DEF Save, Serving
<1> QED  BY <1>1, <1>2, <1>4, <1>5, <1>6, <1>7, Zenon DEF Save, Serving

(***************************************************************************)
(* One mutation at a time, step by step.                                   *)
(***************************************************************************)
LEMMA CommittingParts ==
  ASSUME NEW new, NEW next, NEW h, Committing(new, next, h)
  PROVE  /\ Save(new, next, h) /\ UNCHANGED <<frame, world>>
         /\ UNCHANGED <<job, run, tgt, slot, ret, was, todo, ftodo>>
BY Zenon DEF Committing, frame

\* Calls: nothing in the journal changes, and a job goes on or ends in catch.
JobCallStep ==
  \/ CatchQuiesce \/ Observe \/ Preflight \/ Prepare \/ StopOld \/ PlanCall \/ Arm \/ Activate
  \/ Status \/ Release \/ Recheck \/ StopQuiesce \/ Hold \/ ClearFault \/ CloseCaptures
  \/ RemoveResource \/ FaultEffect \/ FaultVerdict \/ FaultUndo
LEMMA JobCallKeeps ==
  ASSUME JobCallStep
  PROVE  /\ UNCHANGED <<st, disk, stopping, job, run, ftodo>> /\ pc \in JobPlaces
         /\ pc \in Handlers => pc = "catch" /\ pc' = "failed"
<1>1. ASSUME CatchQuiesce \/ Observe \/ Preflight \/ Prepare \/ StopOld \/ PlanCall \/ Arm
      PROVE  /\ UNCHANGED <<st, disk, stopping, job, run, ftodo>> /\ pc \in JobPlaces
             /\ pc \in Handlers => pc = "catch" /\ pc' = "failed"
  BY <1>1, Zenon DEF CatchQuiesce, Observe, Preflight, Prepare, StopOld, PlanCall,
      Calling, Arm, journal,
              frame, JobPlaces, Handlers
<1>2. ASSUME Activate \/ Status \/ Release \/ Recheck \/ StopQuiesce \/ Hold
      PROVE  /\ UNCHANGED <<st, disk, stopping, job, run, ftodo>> /\ pc \in JobPlaces
             /\ pc \notin Handlers
  BY <1>2, ZenonT(30) DEF Activate, Status, Release, Recheck, StopQuiesce, Hold,
      journal, frame, JobPlaces,
              Handlers
<1>3. ASSUME \/ ClearFault \/ CloseCaptures \/ RemoveResource \/ FaultEffect \/ FaultVerdict
             \/ FaultUndo
      PROVE  /\ UNCHANGED <<st, disk, stopping, job, run, ftodo>> /\ pc \in JobPlaces
             /\ pc \notin Handlers
  BY <1>3, Zenon DEF ClearFault, CloseCaptures, RemoveResource, FaultEffect,
      FaultVerdict, FaultUndo,
              journal, frame, JobPlaces, Handlers
<1> QED  BY <1>1, <1>2, <1>3, Zenon DEF JobCallStep

\* The constructor closes every pending job, and its run is reconciling.
LEMMA InterruptedClears ==
  ASSUME NEW s \in Journal
  PROVE  /\ \A j \in JobIds : /\ ~Pending(Interrupted(s), j)
                             /\ SameOrder(s.job[j], Interrupted(s).job[j])
         /\ \A r \in Runs : \/ Interrupted(s).state[r] = s.state[r]
                             \/ Interrupted(s).state[r] = "reconciling"
         /\ Interrupted(s).cov = s.cov /\ SameCounts(s, Interrupted(s))
         /\ SameThings(s, Interrupted(s))
<1> DEFINE t == Interrupted(s)
           g == [j \in JobIds |-> IF Pending(s, j) THEN [s.job[j] EXCEPT !.is = "failed"] ELSE s.job[j]]
<1>1. /\ t.job = g
      /\ t.state = [r \in Runs |-> IF \E j \in JobIds : Pending(s, j) /\ s.job[j].run = r
                                   THEN "reconciling" ELSE s.state[r]]
      /\ t.cov = s.cov /\ SameCounts(s, t) /\ SameThings(s, t)
  BY Zenon DEF Interrupted, Journal, SameCounts, SameThings
<1>2. s.job \in [JobIds -> Jobs]
  BY Zenon DEF Journal
<1>3. ASSUME NEW j \in JobIds PROVE ~Pending(t, j) /\ SameOrder(s.job[j], t.job[j])
  <2>1. CASE Pending(s, j)
    <3>1. t.job[j] = [s.job[j] EXCEPT !.is = "failed"]
      BY <1>1, <2>1, Zenon
    <3> QED  BY <1>2, <3>1, Zenon DEF Pending, Jobs, SameOrder
  <2>2. CASE ~Pending(s, j)
    <3>1. t.job[j] = s.job[j]
      BY <1>1, <2>2, Zenon
    <3> QED  BY <2>2, <3>1, Zenon DEF Pending, SameOrder
  <2> QED  BY <2>1, <2>2, Zenon
<1>4. \A r \in Runs : t.state[r] = s.state[r] \/ t.state[r] = "reconciling"
  BY <1>1, Zenon
<1> QED  BY <1>1, <1>3, <1>4, Zenon

\* While a job is carried out, no step changes what it was asked for.
LEMMA OrderKept ==
  ASSUME TypeInv, JobInv, Advance, InJob(pc), job' = job
  PROVE  SameOrder(This, This')
<1>1. disk.job[job].is # "absent" /\ job \in JobIds
  BY ZenonT(30) DEF JobInv, JobAt, TypeInv, FrameAt
<1>2. JobsKept(disk, st) /\ JobsKept(disk, disk') /\ JobsKept(disk', st')
  BY Zenon DEF Advance, TypeInv
<1>3. SameOrder(disk.job[job], st.job[job])
  BY <1>1, <1>2, ZenonT(30) DEF JobsKept, SameOrder
<1>4. SameOrder(disk.job[job], disk'.job[job]) /\ disk'.job[job].is # "absent"
  BY <1>1, <1>2, Zenon DEF JobsKept, SameOrder
<1>5. SameOrder(disk'.job[job], st'.job[job])
  BY <1>1, <1>2, <1>4, Zenon DEF JobsKept, SameOrder
<1> QED  BY <1>3, <1>4, <1>5, Zenon DEF This, SameOrder

(***************************************************************************)
(* Generations and epochs only grow; no worker and no directory is ahead   *)
(* of the disk, and the epoch being planned has no directory yet.          *)
(***************************************************************************)
Ahead(s, t) == \A r \in Runs : s.gen[r] <= t.gen[r] /\ s.epoch[r] <= t.epoch[r]
Unborn(s) == \A r \in Runs : s.state[r] = "absent" => s.gen[r] = 0
Reached(s) == /\ \A r \in Runs : \A e \in Edges : wgen[r][e] <= s.gen[r]
              /\ \A w \in dirs : w[3] <= s.epoch[w[1]]
FreshPlaces == {"plan", "planned", "arm"}
Untouched == \A w \in dirs : w[1] = run => w[3] < st.epoch[run]
CountInv ==
  /\ Ahead(disk, st) /\ Reached(disk) /\ Unborn(st) /\ Unborn(disk)
  /\ pc = "adopt" => st.gen[run] = disk.gen[run]
  /\ pc \in FreshPlaces => Untouched

\* The journal becomes new, in memory at least, or the process ends.
Lands(new) == \/ st' = new /\ disk' \in {new, disk}
              \/ st' = disk /\ disk' = disk

LEMMA CountTypes ==
  ASSUME TypeInv
  PROVE  /\ st.gen \in [Runs -> Nat] /\ disk.gen \in [Runs -> Nat]
         /\ st.epoch \in [Runs -> Nat] /\ disk.epoch \in [Runs -> Nat]
         /\ wgen \in [Runs -> [Edges -> Nat]] /\ dirs \subseteq Workers
         /\ \A w \in dirs : w[1] \in Runs /\ w[2] \in Edges /\ w[3] \in Nat
BY Zenon DEF TypeInv, TypeOK, Journal, HostOK, Workers

LEMMA SameWorld ==
  ASSUME UNCHANGED world
  PROVE  UNCHANGED <<ext, open, dirs, conf, running, sealed, wgen, qdisc>>
BY Zenon DEF world, captures

(***************************************************************************)
(* Lanes.  A fault that is live in memory or on disk has its lane for      *)

(* itself: what raises a fault that was not live is a request admitted     *)
(* while the two agree, and what a failed commit left behind is the fault  *)
(* being worked on.                                                        *)
(***************************************************************************)
LiveIn(f) == Live(st.flt[f]) \/ Live(disk.flt[f])
Disjoint ==
  \A f, g \in Faults : Owner[f] = Owner[g] /\ Lane[f] = Lane[g] /\ LiveIn(f) /\ LiveIn(g) => f = g
Queued(j) == st.job[j].is = "queued"
QueueInv ==
  pc # "off" => /\ ret = "boot" => \A j \in JobIds : ~Queued(j)
                /\ \A j \in JobIds : Queued(j) /\ st.job[j].op = "fault.apply"
                     => st.flt[st.job[j].flt] = "queued"
FaultWait == {"expire", "expired", "m5fail", "m5hold", "m5note"}
RaisePlaces == {"fault", "effect", "verdict", "settle"}
BootWait == {"flt", "m5fail", "m5hold", "m5note"}
FaultAt ==
  /\ pc = "m5fail" => LiveIn(tgt)
  /\ pc \in {"expire", "expired"} => Live(disk.flt[tgt])
  /\ pc \in FaultWait /\ ret # "boot" => st.flt[tgt] \notin {"none", "queued"}
  /\ pc \in RaisePlaces /\ This.op = "fault.apply" => Live(st.flt[tgt])
  /\ pc \in BootWait /\ ret = "boot" => \A f \in ftodo : Live(st.flt[f])
LanesInv == Disjoint /\ QueueInv /\ FaultAt
AnyFaultPlace == FaultWait \cup RaisePlaces \cup {"flt"}

(***************************************************************************)
(* The theorems.                                                           *)
(***************************************************************************)
LedgerInv == JobInv /\ CountInv /\ LanesInv

LEMMA InitLedger ==
  ASSUME Init
  PROVE  LedgerInv
<1>1. st = EmptyJournal /\ disk = EmptyJournal /\ pc = "loop" /\ ret = "monitor" /\ dirs = {}
      /\ wgen = [r \in Runs |-> [e \in Edges |-> 0]]
  BY Zenon DEF Init
<1>2. \A j \in JobIds : EmptyJournal.job[j].is = "absent"
  BY Zenon DEF EmptyJournal, NoJob
<1>3. JobInv
  BY <1>1, <1>2, Zenon DEF JobInv, AtMostOne, Pending, InJob, JobPlaces, M5Places
<1>4. CountInv
  <2>1. /\ EmptyJournal.gen = [r \in Runs |-> 0] /\ EmptyJournal.epoch = [r \in Runs |-> 0]
    BY Zenon DEF EmptyJournal
  <2>2. Ahead(disk, st) /\ Reached(disk)
    BY <1>1, <2>1 DEF Ahead, Reached
  <2>3. Unborn(st) /\ Unborn(disk)
    BY <1>1, <2>1, Zenon DEF Unborn
  <2> QED  BY <1>1, <2>2, <2>3, Zenon DEF CountInv, FreshPlaces
<1>5. \A f \in Faults : ~LiveIn(f)
  BY <1>1, Zenon DEF LiveIn, Live, EmptyJournal
<1>6. LanesInv
  BY <1>1, <1>2, <1>5, Zenon DEF LanesInv, Disjoint, QueueInv, Queued, FaultAt,
      FaultWait, RaisePlaces, BootWait
<1> QED  BY <1>3, <1>4, <1>6, Zenon DEF LedgerInv

LEMMA LedgerImplies ==
  ASSUME TypeInv, LedgerInv
  PROVE  GenerationIsDurable /\ EpochIsFresh /\ LaneIsExclusive
<1>1. GenerationIsDurable
  <2>1. running \subseteq dirs
    BY Zenon DEF TypeInv, TypeOK, HostOK
  <2> QED  BY <2>1, CountTypes, Zenon DEF LedgerInv, CountInv, Reached,
      GenerationIsDurable
<1>2. EpochIsFresh
  <2>1. SUFFICES ASSUME pc = "arm" PROVE Unlaunched(run)
    BY Zenon DEF EpochIsFresh
  <2>2. \A w \in Planned(st, run) : w[1] = run /\ w[3] = st.epoch[run]
    BY DEF Planned
  <2>3. run \in Runs
    BY <2>1, Jobbing, Zenon DEF JobPlaces
  <2>4. \A w \in dirs : w[1] = run => w[3] < st.epoch[run]
    BY <2>1, Zenon DEF LedgerInv, CountInv, FreshPlaces, Untouched
  <2>5. st.epoch[run] \in Nat
    BY <2>3, CountTypes, Zenon
  <2>6. \A w \in Planned(st, run) : w \notin dirs
    BY <2>2, <2>4, <2>5
  <2> QED  BY <2>6, Zenon DEF Unlaunched
<1>3. LaneIsExclusive
  BY Zenon DEF LedgerInv, LanesInv, Disjoint, LiveIn, LaneIsExclusive
<1> QED  BY <1>1, <1>2, <1>3, Zenon

LEMMA NextLedger ==
  EngineInv /\ LedgerInv /\ [Next]_vars => EngineInv' /\ LedgerInv'
<1>StateStays. ASSUME NEW s \in Journal, NEW r, NEW v, v # "absent"
               PROVE  Stays(s, SetState(s, r, v))
  <2> USE <1>StateStays
  <2>1. StateWritten(s, SetState(s, r, v), r, v) /\ s.state \in [Runs -> RunStates]
    BY WriteState, Zenon DEF Journal
  <2> QED  BY <2>1, Zenon DEF StateWritten, Stays, SameCounts, SameThings
<1>CovStays. ASSUME NEW s \in Journal, NEW r, NEW v
             PROVE  Stays(s, SetCov(s, r, v))
  <2> USE <1>CovStays
  <2>1. CovWritten(s, SetCov(s, r, v), r, v)
    BY WriteCov, Zenon
  <2> QED  BY <2>1, Zenon DEF CovWritten, Stays, SameCounts, SameThings
<1>ResStays. ASSUME NEW s \in Journal, NEW r, NEW i, NEW v
             PROVE  Stays(s, SetRes(s, r, i, v))
  <2> USE <1>ResStays
  <2>1. ResWritten(s, SetRes(s, r, i, v), r, i, v)
    BY WriteRes, Zenon
  <2> QED  BY <2>1, Zenon DEF ResWritten, Stays, SameCounts, SameRuns
<1>StaysTrans. ASSUME NEW s, NEW t, NEW u, Stays(s, t), Stays(t, u)
               PROVE  Stays(s, u)
  BY <1>StaysTrans, Zenon DEF Stays
<1>RunCommits. ASSUME TypeInv, RunCommit
               PROVE  /\ pc \in JobPlaces \ Handlers
                      /\ \E new, next : Committing(new, next, "catch") /\ Stays(st, new)
  <2> USE <1>RunCommits
  <2>0. st \in Journal
    BY Zenon DEF TypeInv, TypeOK
  <2>1. CASE Converge
    BY <2>0, <2>1, <1>StateStays, Zenon DEF Converge, JobPlaces, Handlers
  <2>2. CASE Stopped
    BY <2>0, <2>2, <1>StateStays, Zenon DEF Stopped, JobPlaces, Handlers
  <2>3. CASE Destroy
    BY <2>0, <2>3, <1>StateStays, Zenon DEF Destroy, JobPlaces, Handlers
  <2>4. CASE Compensate
    BY <2>0, <2>4, <1>StateStays, Zenon DEF Compensate, JobPlaces, Handlers
  <2>5. CASE Destroyed
    BY <2>0, <2>5, <1>StateStays, Zenon DEF Destroyed, JobPlaces, Handlers
  <2>6. CASE Armed
    <3>1. SetState(st, run, "armed") \in Journal
      BY <2>0, SetStateType, Zenon DEF RunStates
    <3>2. Stays(st, SetCov(SetState(st, run, "armed"), run, "armed"))
      BY <2>0, <3>1, <1>StateStays, <1>CovStays, <1>StaysTrans, Zenon
    <3> QED  BY <2>6, <3>2, Zenon DEF Armed, JobPlaces, Handlers
  <2>7. CASE RecordClosed
    BY <2>0, <2>7, <1>CovStays, Zenon DEF RecordClosed, JobPlaces, Handlers
  <2>8. CASE Prepared
    BY <2>0, <2>8, <1>ResStays, Zenon DEF Prepared, JobPlaces, Handlers
  <2>9. CASE ResourceRemoved
    BY <2>0, <2>9, <1>ResStays, Zenon DEF ResourceRemoved, JobPlaces, Handlers
  <2> QED  BY <2>1, <2>2, <2>3, <2>4, <2>5, <2>6, <2>7, <2>8, <2>9, Zenon DEF RunCommit
\* Two of a job's steps commit or do not.
<1>MayCommit.
    ASSUME TypeInv, NextResource \/ Ready
    PROVE  /\ pc \in JobPlaces \ Handlers /\ UNCHANGED <<job, run, tgt, ret, ftodo, world>>
           /\ \/ \E new, next : Save(new, next, "catch") /\ Stays(st, new)
              \/ UNCHANGED journal
  <2> USE <1>MayCommit
  <2>0. st \in Journal
    BY Zenon DEF TypeInv, TypeOK
  <2>1. CASE NextResource
    BY <2>0, <2>1, <1>ResStays, Zenon DEF NextResource, JobPlaces, Handlers
  <2>2. CASE Ready
    BY <2>0, <2>2, <1>StateStays, Zenon DEF Ready, Committing, frame, JobPlaces,
        Handlers
  <2> QED  BY <2>1, <2>2, Zenon
<1>FaultMoves. ASSUME NEW s \in Journal, NEW f, NEW v
               PROVE  Moves(s, SetFault(s, f, v), f, v)
  <2> USE <1>FaultMoves
  <2>1. FaultWritten(s, SetFault(s, f, v), f, v)
    BY WriteFault, Zenon
  <2> QED  BY <2>1, Zenon DEF FaultWritten, Moves, SameCounts, SameRuns
<1>JobEnded. ASSUME NEW s \in Journal, NEW j \in JobIds, NEW v
             PROVE  Ends(s, SetJob(s, j, v), j, v) /\ SetJob(s, j, v).flt = s.flt
  <2> USE <1>JobEnded
  <2>1. JobWritten(s, SetJob(s, j, v), j, v)
    BY WriteJob, Zenon
  <2> QED  BY <2>1, Zenon DEF JobWritten, Ends, SameCounts, SameRuns, SameThings
\* The outcomes of a job that is not about a fault.
<1>RunEnds.
    (/\ TypeInv
     /\ RecordFailure \/ Finish \/ StartCancelled)
    => /\ pc \in JobPlaces
       /\ \E new, v, h : /\ Committing(new, "loop", h) /\ Ends(st, new, job, v) /\ new.flt = st.flt
                         /\ v \notin {"queued", "running"} /\ h \in {"catch", "off"}
  <2>EndsStays. ASSUME NEW s, NEW t, NEW u, NEW j, NEW v, Ends(s, t, j, v), Stays(t, u)
                PROVE  Ends(s, u, j, v) /\ u.flt = t.flt
    BY <2>EndsStays, Zenon DEF Ends, Stays
  <2>StaysEnds. ASSUME NEW s, NEW t, NEW u, NEW j, NEW v, Stays(s, t), Ends(t, u, j, v)
                PROVE  Ends(s, u, j, v)
    BY <2>StaysEnds, Zenon DEF Ends, Stays
  <2>FailedStays. ASSUME NEW s \in Journal, NEW r
                  PROVE  Stays(s, Failed(s, r))
    <3> USE <2>FailedStays
    <3> DEFINE t == SetState(s, r, "reconciling")
    <3>1. t \in Journal /\ Stays(s, t)
      BY SetStateType, <1>StateStays, Zenon DEF RunStates
    <3>2. Stays(s, SetCov(t, r, "incomplete"))
      BY <3>1, <1>CovStays, <1>StaysTrans, Zenon
    <3> QED  BY <3>1, <3>2, Zenon DEF Failed
  <2> SUFFICES ASSUME TypeInv, RecordFailure \/ Finish \/ StartCancelled
               PROVE  /\ pc \in JobPlaces
                      /\ \E new, v, h : /\ Committing(new, "loop", h) /\ Ends(st, new, job, v) /\ new.flt = st.flt
                                        /\ v \notin {"queued", "running"} /\ h \in {"catch", "off"}
    OBVIOUS
  <2>0. pc \in JobPlaces /\ st \in Journal
    BY Zenon DEF TypeInv, TypeOK, RecordFailure, Finish, StartCancelled, JobPlaces
  <2>j. job \in JobIds
    BY <2>0, Jobbing, Zenon
  <2>1. CASE RecordFailure
    <3> DEFINE s == SetJob(st, job, "failed")
    <3>1. s \in Journal /\ Ends(st, s, job, "failed") /\ s.flt = st.flt
      BY <2>0, <2>j, SetJobType, <1>JobEnded, Zenon DEF JobStates
    <3>2. Committing(Failed(s, run), "loop", "off")
      BY <2>1, Zenon DEF RecordFailure
    <3> HIDE DEF s
    <3>3. Ends(st, Failed(s, run), job, "failed") /\ Failed(s, run).flt = st.flt
      BY <3>1, <2>FailedStays, <2>EndsStays, Zenon
    <3> QED  BY <2>0, <3>2, <3>3
  <2>2. CASE Finish
    <3> DEFINE s == IF run \in Recording THEN SetCov(st, run, FinalCoverage(st, run)) ELSE st
    <3>1. Stays(st, s) /\ s.flt = st.flt
      BY <2>0, <1>CovStays DEF Stays
    <3>2. FinalCoverage(st, run) \in Coverage
      BY Zenon DEF FinalCoverage, Coverage
    <3>3. s \in Journal
      BY <2>0, <3>2, SetCovType, Zenon
    <3>4. Committing(SetJob(s, job, "succeeded"), "loop", "catch")
      BY <2>2, Zenon DEF Finish
    <3> HIDE DEF s
    <3>5. Ends(st, SetJob(s, job, "succeeded"), job, "succeeded")
          /\ SetJob(s, job, "succeeded").flt = st.flt
      BY <2>j, <3>1, <3>3, <1>JobEnded, <2>StaysEnds, Zenon
    <3> QED  BY <2>0, <3>4, <3>5
  <2>3. CASE StartCancelled
    BY <2>0, <2>j, <2>3, <1>JobEnded, Zenon DEF StartCancelled
  <2> QED  BY <2>1, <2>2, <2>3, Zenon
<1>FaultWrites.
    (/\ TypeInv
     /\ FaultBegin \/ FaultUndone \/ FaultSettle)
    => /\ pc \in FaultJob
       /\ \/ \E new, w : /\ Committing(new, "effect", "catch") /\ pc = "fault"
                         /\ Moves(st, new, tgt, w) /\ Live(w) /\ Raises(w)
          \/ \E new, v, w : /\ Committing(new, "loop", "catch") /\ Ends(st, new, job, v)
                            /\ v \notin {"queued", "running"}
                            /\ new.flt = [st.flt EXCEPT ![tgt] = w] /\ Raises(w)
  <2>MovesEnds.
      ASSUME NEW s, NEW t, NEW u, NEW f, NEW w, NEW j, NEW v, Moves(s, t, f, w), Ends(t, u, j, v)
      PROVE  Ends(s, u, j, v)
    BY <2>MovesEnds, Zenon DEF Ends, Moves
  <2> SUFFICES ASSUME TypeInv, FaultBegin \/ FaultUndone \/ FaultSettle
               PROVE  /\ pc \in FaultJob
                      /\ \/ \E new, w : /\ Committing(new, "effect", "catch") /\ pc = "fault"
                                        /\ Moves(st, new, tgt, w) /\ Live(w) /\ Raises(w)
                         \/ \E new, v, w : /\ Committing(new, "loop", "catch") /\ Ends(st, new, job, v)
                                           /\ v \notin {"queued", "running"}
                                           /\ new.flt = [st.flt EXCEPT ![tgt] = w] /\ Raises(w)
    OBVIOUS
  <2>0. pc \in FaultJob /\ st \in Journal
    BY Zenon DEF TypeInv, TypeOK, FaultBegin, FaultUndone, FaultSettle, FaultJob
  <2>j. job \in JobIds /\ tgt \in Faults /\ st.flt \in [Faults -> FaultStates]
    BY <2>0, Faulting, Jobbing, Zenon DEF Journal
  <2>a. ASSUME NEW w \in FaultStates, NEW v
        PROVE  LET new == SetJob(SetFault(st, tgt, w), job, v)
               IN Ends(st, new, job, v) /\ new.flt = [st.flt EXCEPT ![tgt] = w]
    <3> DEFINE s == SetFault(st, tgt, w)
    <3>1. s \in Journal /\ Moves(st, s, tgt, w)
      BY <2>0, SetFaultType, <1>FaultMoves, Zenon
    <3> HIDE DEF s
    <3>2. Ends(s, SetJob(s, job, v), job, v) /\ SetJob(s, job, v).flt = s.flt
      BY <2>j, <3>1, <1>JobEnded, Zenon
    <3>3. Ends(st, SetJob(s, job, v), job, v)
      BY <3>1, <3>2, <2>MovesEnds, Zenon
    <3>4. s.flt = [st.flt EXCEPT ![tgt] = w]
      BY <3>1, Zenon DEF Moves
    <3> QED  BY <3>2, <3>3, <3>4, Zenon DEF s
  <2>1. CASE FaultBegin
    <3>1. CASE /\ This.op = "fault.apply" /\ This.cancel
               /\ Committing(SetJob(SetFault(st, tgt, "cancelled"), job, "cancelled"), "loop", "catch")
      <4> DEFINE new == SetJob(SetFault(st, tgt, "cancelled"), job, "cancelled")
      <4>1. Ends(st, new, job, "cancelled") /\ new.flt = [st.flt EXCEPT ![tgt] = "cancelled"]
        BY <2>a, Zenon DEF FaultStates
      <4>2. Raises("cancelled") /\ Committing(new, "loop", "catch")
        BY <3>1, Zenon DEF Raises, Live
      <4> HIDE DEF new
      <4> QED  BY <2>0, <4>1, <4>2, Zenon
    <3>2. CASE /\ This.op = "fault.remove" /\ ~Live(st.flt[tgt])
               /\ Committing(SetJob(st, job, "succeeded"), "loop", "catch")
      <4> DEFINE new == SetJob(st, job, "succeeded")
                 w == st.flt[tgt]
      <4>1. Ends(st, new, job, "succeeded") /\ new.flt = [st.flt EXCEPT ![tgt] = w]
        BY <2>0, <2>j, <1>JobEnded, Zenon
      <4>2. Raises(w) /\ Committing(new, "loop", "catch")
        BY <3>2, Zenon DEF Raises
      <4> HIDE DEF new, w
      <4> QED  BY <2>0, <4>1, <4>2, Zenon
    <3>3. CASE /\ This.op = "fault.apply" /\ ~This.cancel
               /\ Committing(SetFault(st, tgt, "applying"), "effect", "catch")
      BY <2>0, <2>1, <3>3, <1>FaultMoves DEF Raises, Live, FaultBegin
    <3>4. CASE /\ This.op = "fault.remove" /\ Live(st.flt[tgt])
               /\ Committing(SetFault(st, tgt, "removing"), "effect", "catch")
      BY <2>0, <2>1, <3>4, <1>FaultMoves DEF Raises, Live, FaultBegin
    <3> QED  BY <2>1, <3>1, <3>2, <3>3, <3>4, ZenonT(30) DEF FaultBegin
  <2>2. CASE FaultUndone
    <3> DEFINE new == SetJob(SetFault(st, tgt, "cancelled"), job, "cancelled")
    <3>1. Ends(st, new, job, "cancelled") /\ new.flt = [st.flt EXCEPT ![tgt] = "cancelled"]
      BY <2>a, Zenon DEF FaultStates
    <3>2. Raises("cancelled") /\ Committing(new, "loop", "catch")
      BY <2>2, Zenon DEF Raises, Live, FaultUndone
    <3> HIDE DEF new
    <3> QED  BY <2>0, <3>1, <3>2, Zenon
  <2>3. CASE FaultSettle
    <3> DEFINE w == IF This.op = "fault.apply" THEN "active" ELSE "removed"
               new == SetJob(SetFault(st, tgt, w), job, "succeeded")
    <3>1. w \in FaultStates /\ Raises(w)
      BY <2>3, Zenon DEF FaultStates, Raises, Live, FaultSettle
    <3>2. Committing(new, "loop", "catch")
      BY <2>3, Zenon DEF FaultSettle
    <3> HIDE DEF w
    <3>3. Ends(st, new, job, "succeeded") /\ new.flt = [st.flt EXCEPT ![tgt] = w]
      BY <2>a, <3>1, Zenon
    <3> HIDE DEF new
    <3> QED  BY <2>0, <3>1, <3>2, <3>3, Zenon
  <2> QED  BY <2>1, <2>2, <2>3, Zenon
\* The commits of m5_monitor and m5_fault_failure that move a fault.
<1>M5Commits.
    (/\ TypeInv
     /\ M5Expiring \/ Expired \/ FaultFailure)
    => /\ pc \in M5Places /\ UNCHANGED <<job, run, ret, ftodo, world>>
       /\ \E new, next, h, w :
            /\ Save(new, next, h) /\ Moves(st, new, tgt', w)
            /\ next \in {"expire", "m5", "m5hold"} /\ h \in {"m5fail", M5Error}
            /\ \/ /\ pc = "m5" /\ next = "expire" /\ h = M5Error /\ w = "removing"
                  /\ st.flt[tgt'] = "active" /\ tgt' \in Faults
               \/ /\ pc = "expired" /\ next = "m5" /\ h = "m5fail" /\ w = "removed" /\ tgt' = tgt
               \/ /\ pc = "m5fail" /\ next = "m5hold" /\ h = M5Error /\ w = "recovery-required"
                  /\ tgt' = tgt
  <2>BumpStays. ASSUME NEW s \in Journal, NEW r
                PROVE  Stays(s, Bump(s, r))
    <3> USE <2>BumpStays
    <3>1. SameAll(s, Bump(s, r))
      BY WriteBump, Zenon
    <3> QED  BY <3>1, Zenon DEF SameAll, Stays, SameCounts, SameRuns, SameThings
  <2>MovesStays. ASSUME NEW s, NEW t, NEW u, NEW f, NEW v, Moves(s, t, f, v), Stays(t, u)
                 PROVE  Moves(s, u, f, v)
    BY <2>MovesStays, Zenon DEF Moves, Stays
  <2>ExpiredMoves. ASSUME NEW s \in Journal, NEW f, NEW v \in FaultStates
                   PROVE  Moves(s, Bump(SetFault(s, f, v), Owner[f]), f, v)
    BY <2>ExpiredMoves, SetFaultType, <1>FaultMoves, <2>BumpStays, <2>MovesStays
  <2>RequiredMoves. ASSUME NEW s \in Journal, NEW f
                    PROVE  Moves(s, RecoveryRequired(s, f), f, "recovery-required")
    <3> USE <2>RequiredMoves
    <3> DEFINE t == SetFault(s, f, "recovery-required")
               u == SetState(t, Owner[f], "reconciling")
    <3>1. t \in Journal /\ Moves(s, t, f, "recovery-required")
      BY SetFaultType, <1>FaultMoves, Zenon DEF FaultStates
    <3> HIDE DEF t
    <3>2. u \in Journal /\ Stays(t, u)
      BY <3>1, SetStateType, <1>StateStays, Zenon DEF RunStates
    <3> HIDE DEF u
    <3>3. Stays(t, Bump(u, Owner[f]))
      BY <3>2, <2>BumpStays, <1>StaysTrans, Zenon
    <3>4. Moves(s, Bump(u, Owner[f]), f, "recovery-required")
      BY <3>1, <3>3, <2>MovesStays, Zenon
    <3> QED  BY <3>4, Zenon DEF RecoveryRequired, t, u
  <2> SUFFICES ASSUME TypeInv, M5Expiring \/ Expired \/ FaultFailure
               PROVE  /\ pc \in M5Places /\ UNCHANGED <<job, run, ret, ftodo, world>>
                      /\ \E new, next, h, w :
                           /\ Save(new, next, h) /\ Moves(st, new, tgt', w)
                           /\ next \in {"expire", "m5", "m5hold"} /\ h \in {"m5fail", M5Error}
                           /\ \/ /\ pc = "m5" /\ next = "expire" /\ h = M5Error /\ w = "removing"
                                 /\ st.flt[tgt'] = "active" /\ tgt' \in Faults
                              \/ /\ pc = "expired" /\ next = "m5" /\ h = "m5fail" /\ w = "removed" /\ tgt' = tgt
                              \/ /\ pc = "m5fail" /\ next = "m5hold" /\ h = M5Error /\ w = "recovery-required"
                                 /\ tgt' = tgt
    OBVIOUS
  <2>0. st \in Journal
    BY Zenon DEF TypeInv, TypeOK
  <2>1. CASE M5Expiring
    <3>1. PICK f \in Faults : /\ Overdue(f) /\ tgt' = f
                              /\ Save(SetFault(st, f, "removing"), "expire", M5Error)
      BY <2>1, Zenon DEF M5Expiring
    <3>2. Moves(st, SetFault(st, f, "removing"), f, "removing") /\ st.flt[f] = "active"
      BY <2>0, <3>1, <1>FaultMoves, Zenon DEF Overdue
    <3>3. pc = "m5" /\ UNCHANGED <<job, run, ret, ftodo, world>> /\ M5Error # "m5fail"
      BY <2>1, Zenon DEF M5Expiring, M5Error
    <3> QED  BY <3>1, <3>2, <3>3, Zenon DEF M5Places
  <2>2. CASE Expired
    <3>1. Moves(st, Bump(SetFault(st, tgt, "removed"), Owner[tgt]), tgt, "removed")
      BY <2>0, <2>ExpiredMoves, Zenon DEF FaultStates
    <3> QED  BY <2>2, <3>1, Zenon DEF Expired, Committing, frame, M5Places
  <2>3. CASE FaultFailure
    <3>1. Moves(st, RecoveryRequired(st, tgt), tgt, "recovery-required") /\ M5Error # "m5fail"
      BY <2>0, <2>RequiredMoves, Zenon DEF M5Error
    <3> QED  BY <2>3, <3>1, Zenon DEF FaultFailure, Committing, frame, M5Places
  <2> QED  BY <2>1, <2>2, <2>3, Zenon
<1>NextJob. TypeInv /\ DurableInv /\ JobInv /\ [Next]_vars => JobInv'
  <2>AgreeSame. ASSUME NEW s PROVE Agree(s, s)
    BY <2>AgreeSame, Zenon DEF Agree, SameRuns, SameCounts, SameThings
  <2>AtMostOneKept.
      ASSUME NEW s, NEW t, AtMostOne(s), \A j \in JobIds : Pending(t, j) => Pending(s, j)
      PROVE  AtMostOne(t)
    BY <2>AtMostOneKept, Zenon DEF AtMostOne
  \* A commit of the job, or of m5_monitor for it, that leaves the jobs alone.
  <2>JobKeeps.
      ASSUME TypeInv, JobInv, InJob(pc), pc \notin Handlers, NEW new, new.job = st.job, NEW next,
             NEW h \in {"catch", "m5fail"}, Save(new, next, h), UNCHANGED <<job, run>>
      PROVE  JobInv'
    <3> USE <2>JobKeeps
    <3>1. JobAt /\ AtMostOne(st) /\ AtMostOne(disk) /\ AtMostOne(new)
      BY Zenon DEF JobInv, AtMostOne, Pending
    <3>2. st.job[job].is = "running"
      BY <3>1, Zenon DEF JobAt
    <3>3. CASE st' = new /\ disk' = new
      BY <3>1, <3>2, <3>3, <2>AgreeSame, Zenon DEF JobInv, JobAt
    <3>4. CASE st' = new /\ disk' = disk /\ pc' = h
      BY <3>1, <3>2, <3>4, Zenon DEF JobInv, JobAt, Handlers
    <3> QED  BY <3>3, <3>4, Zenon DEF Save
  \* A commit that writes the outcome of the job.
  <2>JobEnds.
      ASSUME TypeInv, JobInv, pc \in JobPlaces, NEW new, NEW v, v \notin {"queued", "running"},
             new.job[job].is = v, SameOrder(st.job[job], new.job[job]),
             \A i \in JobIds \ {job} : new.job[i] = st.job[i],
             NEW h \in {"catch", "off"}, Save(new, "loop", h), UNCHANGED <<job, run>>
      PROVE  JobInv'
    <3> USE <2>JobEnds
    <3>1. JobAt /\ AtMostOne(st) /\ AtMostOne(disk) /\ job \in JobIds
      BY Jobbing, Zenon DEF JobInv
    <3>2. \A j \in JobIds : Pending(new, j) => Pending(st, j)
      BY Zenon DEF Pending
    <3>3. AtMostOne(new)
      BY <3>1, <3>2, <2>AtMostOneKept, Zenon
    <3>4. ~InJob("loop")' /\ ~InJob("off")'
      BY Zenon DEF InJob, JobPlaces, M5Places
    <3>5. CASE st' = new /\ disk' = new /\ pc' = "loop"
      BY <3>3, <3>4, <3>5, Zenon DEF JobInv, InJob
    <3>6. CASE st' = new /\ disk' = disk /\ pc' = "catch" /\ stopping' = TRUE
      BY <3>1, <3>3, <3>6, Zenon DEF JobInv, JobAt, Handlers, SameOrder
    <3>7. CASE st' = disk /\ disk' = disk /\ pc' = "off"
      BY <3>1, <3>4, <3>7, Zenon DEF JobInv, InJob
    <3> QED  BY <3>5, <3>6, <3>7, Zenon DEF Save
  \* A call of the job.
  <2>JobCalls. ASSUME JobInv, UNCHANGED <<st, disk>>, stopping => stopping',
                      InJob(pc)' => /\ InJob(pc) /\ UNCHANGED <<job, run>>
                                    /\ pc \in Handlers => pc' \in Handlers
                                    /\ pc = "m5fail" => pc' = "m5fail"
               PROVE  JobInv'
    BY <2>JobCalls, Zenon DEF JobInv, JobAt, Handlers, Agree, AtMostOne, Pending
  \* A step that ends outside of every job, or is taken there.
  <2>JobNone.
      ASSUME JobInv, ~InJob(pc)', st'.job \in {st.job, disk.job}, disk'.job \in {st.job, disk.job}
      PROVE  JobInv'
    BY <2>JobNone, Zenon DEF JobInv, AtMostOne, Pending
  <2>JobByCommit. ASSUME TypeInv, JobInv, RunCommit \/ Epoch \/ PlanCaptures \/ FaultCleared
                  PROVE  JobInv'
    <3> USE <2>JobByCommit
    <3>0. st \in Journal
      BY Zenon DEF TypeInv, TypeOK
    <3>1. /\ pc \in JobPlaces \ Handlers
          /\ \E new, next : Committing(new, next, "catch") /\ new.job = st.job
      <4>1. CASE RunCommit
        BY <4>1, <1>RunCommits, Zenon DEF Stays
      <4>2. CASE Epoch
        <5>1. EpochWritten(st, NewEpoch(st, run), run)
          BY <3>0, WriteEpoch, Zenon
        <5> QED  BY <4>2, <5>1, Zenon DEF Epoch, EpochWritten, JobPlaces, Handlers
      <4>3. CASE PlanCaptures
        <5>1. PlanWritten(st, [st EXCEPT !.planned[run] = TRUE], run)
          BY <3>0, WritePlan, Zenon
        <5> QED  BY <4>3, <5>1, Zenon DEF PlanCaptures, PlanWritten, JobPlaces, Handlers
      <4>4. CASE FaultCleared
        <5>1. Moves(st, SetFault(st, tgt, "removed"), tgt, "removed")
          BY <3>0, <1>FaultMoves, Zenon
        <5> QED  BY <4>4, <5>1, Zenon DEF FaultCleared, Moves, JobPlaces, Handlers
      <4> QED  BY <4>1, <4>2, <4>3, <4>4, Zenon
    <3>2. InJob(pc) /\ pc \notin Handlers
      BY <3>1, Zenon DEF InJob
    <3> QED  BY <3>1, <3>2, CommittingParts, <2>JobKeeps, Zenon
  <2>JobByEnd. ASSUME TypeInv, JobInv, RecordFailure \/ Finish \/ StartCancelled
               PROVE  JobInv'
    <3> USE <2>JobByEnd
    <3>1. PICK new, v, h :
            /\ Committing(new, "loop", h) /\ Ends(st, new, job, v)
            /\ v \notin {"queued", "running"} /\ h \in {"catch", "off"}
      BY <1>RunEnds, Zenon
    <3>2. pc \in JobPlaces
      BY <1>RunEnds, Zenon
    <3>3. Save(new, "loop", h) /\ UNCHANGED <<job, run>>
      BY <3>1, CommittingParts, Zenon
    <3> QED  BY <3>1, <3>2, <3>3, <2>JobEnds, Zenon DEF Ends
  <2>JobByFault. ASSUME TypeInv, JobInv, FaultBegin \/ FaultUndone \/ FaultSettle
                 PROVE  JobInv'
    <3> USE <2>JobByFault
    <3>1. pc \in JobPlaces \ Handlers /\ InJob(pc)
      BY <1>FaultWrites, Zenon DEF FaultJob, JobPlaces, Handlers, InJob
    <3>2. CASE \E new, w : /\ Committing(new, "effect", "catch") /\ Moves(st, new, tgt, w)
      BY <3>1, <3>2, CommittingParts, <2>JobKeeps, Zenon DEF Moves
    <3>3. CASE \E new, v : /\ Committing(new, "loop", "catch") /\ Ends(st, new, job, v)
                           /\ v \notin {"queued", "running"}
      BY <3>1, <3>3, CommittingParts, <2>JobEnds, Zenon DEF Ends
    <3> QED  BY <3>2, <3>3, <1>FaultWrites, Zenon
  <2>JobByMayCommit. ASSUME TypeInv, JobInv, NextResource \/ Ready
                     PROVE  JobInv'
    <3> USE <2>JobByMayCommit
    <3>1. pc \in JobPlaces \ Handlers /\ InJob(pc) /\ UNCHANGED <<job, run>>
      BY <1>MayCommit, Zenon DEF InJob
    <3>2. CASE \E new, next : Save(new, next, "catch") /\ Stays(st, new)
      BY <3>1, <3>2, <2>JobKeeps, Zenon DEF Stays
    <3>3. CASE UNCHANGED journal
      <4>1. pc # "m5fail"
        BY <3>1, Zenon DEF JobPlaces
      <4> QED  BY <3>1, <3>3, <4>1, <2>JobCalls, Zenon DEF journal
    <3> QED  BY <3>2, <3>3, <1>MayCommit, Zenon
  <2>JobByM5. (/\ TypeInv
               /\ JobInv
               /\ M5Expiring \/ Expired \/ FaultFailure \/ FailureNoted \/ M5Sample)
              => JobInv'
    \* m5_monitor fails into the job that called it, and into no other.
    <3>JobByM5Save.
        ASSUME TypeInv, JobInv, pc \in M5Places, NEW new, new.job = st.job, NEW next,
               next \in JobPlaces => InJob(pc), NEW h \in {"m5fail", M5Error}, Save(new, next, h),
               UNCHANGED <<job, run, ret>>
        PROVE  JobInv'
      <4> USE <3>JobByM5Save
      <4>0. pc \notin Handlers /\ pc \notin JobPlaces
        BY Zenon DEF M5Places, Handlers, JobPlaces
      <4>1. CASE InJob(pc)
        <5>1. h \in {"catch", "m5fail"}
          BY <4>0, <4>1, Zenon DEF InJob, M5Error
        <5> QED  BY <4>0, <4>1, <5>1, <2>JobKeeps, Zenon
      <4>2. CASE ~InJob(pc)
        <5>1. ret \notin {"before", "after"} /\ next \notin JobPlaces /\ ret \in {"monitor", "boot"}
          BY <4>2, Zenon DEF InJob, TypeInv, TypeOK
        <5>2. h \in {"m5fail", "m5err", "off"}
          BY <5>1, Zenon DEF M5Error
        <5>3. pc' \in {next, h}
          BY Zenon DEF Save
        <5>4. ~InJob(pc)'
          BY <5>1, <5>2, <5>3 DEF InJob, JobPlaces
        <5>5. st'.job \in {st.job, disk.job} /\ disk'.job \in {st.job, disk.job}
          BY Zenon DEF Save
        <5> QED  BY <5>4, <5>5, <2>JobNone, Zenon
      <4> QED  BY <4>1, <4>2, Zenon
    <3> SUFFICES ASSUME TypeInv,
                        JobInv,
                        M5Expiring \/ Expired \/ FaultFailure \/ FailureNoted \/ M5Sample
                 PROVE  JobInv'
      OBVIOUS
    <3>1. CASE M5Expiring \/ Expired \/ FaultFailure
      <4>1. PICK new, next, h, w :
              /\ Save(new, next, h) /\ Moves(st, new, tgt', w)
              /\ next \in {"expire", "m5", "m5hold"} /\ h \in {"m5fail", M5Error}
        BY <3>1, <1>M5Commits, Zenon
      <4>2. pc \in M5Places /\ UNCHANGED <<job, run, ret>>
        BY <3>1, <1>M5Commits, Zenon
      <4> QED  BY <4>1, <4>2, <3>JobByM5Save, Zenon DEF Moves, JobPlaces
    <3>2. CASE FailureNoted
      <4>1. pc \in M5Places
        BY <3>2, Zenon DEF FailureNoted, M5Places
      <4>2. PICK next : Committing(st, next, M5Error) /\ next \notin JobPlaces
        BY <3>2 DEF FailureNoted, JobPlaces
      <4> QED  BY <4>1, <4>2, CommittingParts, <3>JobByM5Save, Zenon
    <3>3. CASE M5Sample
      <4>1. pc = "m5" /\ UNCHANGED <<job, run, ret>>
        BY <3>3, Zenon DEF M5Sample, frame
      <4>2. pc \in M5Places /\ (M5Continue \in JobPlaces => InJob(pc)) /\ M5Continue \notin M5Places
        BY <4>1, Zenon DEF M5Continue, M5Places, JobPlaces, InJob, TypeInv, TypeOK,
            FrameAt, BootPlaces
      <4>3. CASE pc' = M5Continue /\ UNCHANGED journal
        <5>1. InJob(pc)' => InJob(pc)
          BY <4>2, <4>3, Zenon DEF InJob
        <5> QED  BY <4>1, <4>3, <5>1, <2>JobCalls, Zenon DEF journal, Handlers
      <4>4. CASE Save(st, M5Continue, M5Error)
        BY <4>1, <4>2, <4>4, <3>JobByM5Save, Zenon
      <4> QED  BY <3>3, <4>3, <4>4, Zenon DEF M5Sample
    <3> QED  BY <3>1, <3>2, <3>3, Zenon
  <2>JobByCall. ASSUME TypeInv, JobInv, JobCallStep \/ Expire \/ FailureQuiesce
                PROVE  JobInv'
    <3> USE <2>JobByCall
    <3>1. CASE JobCallStep
      <4>1. InJob(pc) /\ (pc \in Handlers => pc' \in Handlers) /\ pc # "m5fail"
        BY <3>1, JobCallKeeps, Zenon DEF InJob, Handlers, JobPlaces
      <4> QED  BY <3>1, <4>1, JobCallKeeps, <2>JobCalls
    <3>2. CASE Expire \/ FailureQuiesce
      <4>1. /\ UNCHANGED <<st, disk, stopping, job, run, ret>> /\ pc \in M5Places \ {"m5fail"}
            /\ pc' \in M5Places
        BY <3>2, Zenon DEF Expire, FailureQuiesce, journal, frame, M5Places
      <4>2. InJob(pc)' => InJob(pc)
        BY <4>1, Zenon DEF InJob, M5Places, JobPlaces
      <4> QED  BY <4>1, <4>2, <2>JobCalls, Zenon DEF M5Places, Handlers
    <3> QED  BY <3>1, <3>2, Zenon
  \* Steps of monitor() and of the constructor.
  <2>JobByOther.
      ASSUME TypeInv, JobInv,
             \/ WorkerExits \/ Idle \/ M5Caught \/ Renew \/ MonitorQuiesce \/ MonitorFailure
             \/ Reconcile \/ Adopt \/ BootQuiesce \/ RunReconciled \/ RunsReconciled \/ RecoverFault
             \/ BootDone
      PROVE  JobInv'
    <3> USE <2>JobByOther
    <3>0. st \in Journal /\ ret \in {"monitor", "before", "after", "boot"}
      BY Zenon DEF TypeInv, TypeOK
    <3>1. CASE WorkerExits \/ Idle \/ M5Caught \/ Renew \/ MonitorQuiesce \/ RunReconciled \/ RunsReconciled \/ BootDone
      <4>1. /\ st' \in {st, disk} /\ disk' \in {st, disk}
        BY <3>1, ZenonT(30) DEF WorkerExits, Idle, M5Caught, Renew, MonitorQuiesce,
            RunReconciled, RunsReconciled,
                    BootDone, Committing, Save, journal
      <4>2. /\ pc' \in {"exited", "m5", "renew", "off", "loop", "mcatch", "mfail", "recover", "flt"}
            /\ pc' = "m5" => ret' = "monitor"
        BY <3>1, Zenon DEF WorkerExits, Idle, M5Caught, Renew, MonitorQuiesce,
            RunReconciled, RunsReconciled,
                    BootDone, Committing, Save
      <4>3. ~InJob(pc)'
        BY <4>2, Zenon DEF InJob, JobPlaces, M5Places
      <4> QED  BY <4>1, <4>3, <2>JobNone, Zenon
    <3>2. CASE MonitorFailure
      <4> DEFINE s == SetState(st, run, "reconciling")
                 new == SetCov(s, run, "incomplete")
      <4>1. s \in Journal /\ Stays(st, s)
        BY <3>0, SetStateType, <1>StateStays, Zenon DEF RunStates
      <4>2. Stays(st, new)
        BY <4>1, <1>CovStays, <1>StaysTrans, Zenon
      <4>3. Save(new, "loop", "off")
        BY <3>2, Zenon DEF MonitorFailure, Committing
      <4> HIDE DEF new
      <4>4. st'.job \in {st.job, disk.job} /\ disk'.job \in {st.job, disk.job} /\ ~InJob(pc)'
        BY <4>2, <4>3, Zenon DEF Save, Stays, InJob, JobPlaces, M5Places
      <4> QED  BY <4>4, <2>JobNone, Zenon
    <3>3. CASE Reconcile
      <4>1. PICK r \in todo : Save(NewGeneration(st, r), "adopt", "off")
        BY <3>3, Zenon DEF Reconcile
      <4>2. NewGeneration(st, r).job = st.job
        BY <3>0, Zenon DEF NewGeneration, Journal
      <4>3. st'.job \in {st.job, disk.job} /\ disk'.job \in {st.job, disk.job} /\ ~InJob(pc)'
        BY <4>1, <4>2, Zenon DEF Save, InJob, JobPlaces, M5Places
      <4> QED  BY <4>3, <2>JobNone, Zenon
    <3>4. CASE Adopt \/ BootQuiesce
      <4>1. /\ disk' = disk /\ pc' \in {"bquiesce", "adopted"}
            /\ st' \in {st, Incomplete, SetState(st, run, "stopped")}
        BY <3>4, ZenonT(30) DEF Adopt, BootQuiesce
      <4>2. Incomplete.job = st.job /\ SetState(st, run, "stopped").job = st.job
        BY <3>0, <1>CovStays, <1>StateStays, SMTT(30) DEF Incomplete, Stays
      <4>3. st'.job \in {st.job, disk.job} /\ disk'.job \in {st.job, disk.job} /\ ~InJob(pc)'
        BY <4>1, <4>2, Zenon DEF InJob, JobPlaces, M5Places
      <4> QED  BY <4>3, <2>JobNone, Zenon
    <3>5. CASE RecoverFault
      <4>1. PICK f \in ftodo : st' \in {st, SetFault(st, f, "removed")}
        BY <3>5, Zenon DEF RecoverFault
      <4>2. disk' = disk /\ pc' \in {"flt", "m5fail"} /\ ret' = "boot"
        BY <3>5, Zenon DEF RecoverFault, TypeInv, FrameAt, BootPlaces
      <4>3. SetFault(st, f, "removed").job = st.job
        <5>1. Moves(st, SetFault(st, f, "removed"), f, "removed")
          BY <3>0, <1>FaultMoves, Zenon
        <5> QED  BY <5>1, Zenon DEF Moves
      <4>4. st'.job \in {st.job, disk.job} /\ disk'.job \in {st.job, disk.job} /\ ~InJob(pc)'
        BY <4>1, <4>2, <4>3, Zenon DEF InJob, JobPlaces
      <4> QED  BY <4>4, <2>JobNone, Zenon
    <3> QED  BY <3>1, <3>2, <3>3, <3>4, <3>5, Zenon
  <2>JobByTake. ASSUME TypeInv, DurableInv, JobInv, TakeJob
                PROVE  JobInv'
    <3> USE <2>JobByTake
    <3>1. PICK j \in JobIds :
            /\ st.job[j].is = "queued" /\ job' = j /\ run' = st.job[j].run
            /\ Save(SetJob(st, j, "running"), Entry(st.job[j].op), "off")
      BY Zenon DEF TakeJob
    <3>2. PICK new : new = SetJob(st, j, "running")
      OBVIOUS
    <3>3. Ends(st, new, j, "running")
      BY <3>2, <1>JobEnded, ZenonT(30) DEF TypeInv, TypeOK
    <3>4. AtMostOne(new) /\ \A i \in JobIds : new.job[i].is # "queued"
      <4>1. \A i \in JobIds \ {j} : ~Pending(st, i)
        BY <3>1, Zenon DEF JobInv, AtMostOne, Pending
      <4>2. \A i \in JobIds \ {j} : ~Pending(new, i)
        BY <3>3, <4>1, Zenon DEF Ends, Pending
      <4>3. new.job[j].is = "running"
        BY <3>3, Zenon DEF Ends
      <4> QED  BY <4>2, <4>3, Zenon DEF AtMostOne, Pending
    <3>5. CASE st' = new /\ disk' = new
      BY <3>1, <3>3, <3>4, <3>5, <2>AgreeSame, Zenon DEF JobInv, JobAt, Ends, SameOrder
    <3>6. CASE st' = disk /\ disk' = disk /\ pc' = "off"
      <4>1. ~InJob(pc)'
        BY <3>6, Zenon DEF InJob, JobPlaces, M5Places
      <4> QED  BY <3>6, <4>1, <2>JobNone, Zenon
    <3> QED  BY <3>1, <3>2, <3>5, <3>6, Zenon DEF Save
  <2>JobByDispatch. TypeInv /\ JobInv /\ Dispatch => JobInv'
    <3>JobByAccept.
        ASSUME TypeInv, JobInv, NEW new, NEW j, NEW op, NEW r, NEW f, Accepts(new, j, op, r, f)
        PROVE  JobInv'
      <4> USE <3>JobByAccept
      <4>1. ~InJob(pc)
        <5>1. SUFFICES ASSUME InJob(pc) PROVE FALSE
          OBVIOUS
        <5>2. job \in JobIds /\ st.job[job].is = "running" /\ ~stopping
          BY <5>1, Zenon DEF JobInv, JobAt, Accepts, Serving, TypeInv, FrameAt
        <5> QED  BY <5>2, Zenon DEF Accepts, Busy, Pending
      <4>2. ~InJob(pc)'
        BY <4>1, Zenon DEF Accepts, InJob, frame
      <4>3. AtMostOne(new)
        <5>1. \A i \in JobIds \ {j} : ~Pending(new, i)
          BY Zenon DEF Accepts, Ordered, Busy, Pending
        <5> QED  BY <5>1, Zenon DEF AtMostOne
      <4>4. AtMostOne(st') /\ AtMostOne(disk')
        BY <4>3, Zenon DEF Accepts, JobInv
      <4> QED  BY <4>2, <4>4, Zenon DEF JobInv
    <3> SUFFICES ASSUME TypeInv, JobInv, Dispatch PROVE JobInv'
      OBVIOUS
    <3>1. CASE \E k \in Keys, j \in JobIds :
                 \/ \E r \in Runs : Start(k, j, r)
                 \/ \E r \in Runs, op \in {"stop", "resume", "destroy", "recover"} : Operate(k, j, r, op)
                 \/ \E f \in Faults : FaultApply(k, j, f) \/ FaultRemove(k, j, f)
      BY <3>1, StartAccepted, OperateAccepted, ApplyAccepted, RemoveAccepted,
          <3>JobByAccept, Zenon
    <3>2. CASE \E k \in Keys, x \in Keys : Retry(k, x)
      <4>1. UNCHANGED <<st, disk, stopping, pc, job, run, ret>>
        BY <3>2, Zenon DEF Retry, journal, frame
      <4> QED  BY <4>1, <2>JobCalls, Zenon DEF InJob
    <3>3. CASE \E j \in JobIds : Cancel(j)
      <4>1. PICK j \in JobIds : Cancel(j)
        BY <3>3, Zenon
      <4>2. /\ pc' = pc /\ pc # "off" /\ stopping = FALSE /\ UNCHANGED <<job, run, ret>>
            /\ Agree(st, st') /\ (disk' = st' \/ (disk' = disk /\ stopping'))
            /\ \A i \in JobIds : st'.job[i].is = st.job[i].is /\ SameOrder(st.job[i], st'.job[i])
        BY <4>1, CancelMarks, ZenonT(30) DEF frame
      <4>3. AtMostOne(st') /\ AtMostOne(disk')
        BY <4>2, Zenon DEF JobInv, AtMostOne, Pending
      <4>4. ASSUME InJob(pc)' PROVE JobAt'
        <5>1. JobAt /\ job \in JobIds
          BY <4>2, <4>4, Zenon DEF JobInv, InJob, TypeInv, FrameAt
        <5> QED  BY <4>2, <5>1, Zenon DEF JobAt, SameOrder, Agree, SameRuns, SameCounts,
            SameThings
      <4> QED  BY <4>3, <4>4, Zenon DEF JobInv
    <3> QED  BY <3>1, <3>2, <3>3, Zenon DEF Dispatch
  <2>JobByEnvironment.
      ASSUME TypeInv, JobInv, Environment \/ Boot \/ Crash \/ Exit \/ Shutdown \/ UNCHANGED vars
      PROVE  JobInv'
    <3> USE <2>JobByEnvironment
    <3>1. CASE Environment \/ Shutdown \/ UNCHANGED vars
      <4>1. UNCHANGED <<st, disk, pc, job, run, ret>> /\ stopping' \in {stopping, TRUE}
        BY <3>1, Zenon DEF Environment, LeaseExpires, CaptureDies, FaultDue, Shutdown,
            journal, frame, vars
      <4>2. stopping => stopping'
        BY <4>1, Zenon
      <4> QED  BY <4>1, <4>2, <2>JobCalls, Zenon DEF InJob
    <3>2. CASE Crash \/ Exit
      <4>1. st' = disk /\ disk' = disk /\ pc' = "off"
        BY <3>2, Zenon DEF Crash, Exit, Dies
      <4>2. ~InJob(pc)'
        BY <4>1, Zenon DEF InJob, JobPlaces, M5Places
      <4> QED  BY <4>1, <4>2, <2>JobNone, Zenon
    <3>3. CASE Boot
      <4>1. PICK new : new = Interrupted(disk)
        OBVIOUS
      <4>2. AtMostOne(new)
        <5>1. disk \in Journal
          BY ZenonT(30) DEF TypeInv, TypeOK
        <5>2. \A j \in JobIds : ~Pending(new, j)
          BY <4>1, <5>1, InterruptedClears, ZenonT(30)
        <5> QED  BY <5>2, Zenon DEF AtMostOne
      <4>3. Save(new, "recover", "off") /\ ret' = "boot"
        BY <3>3, <4>1, Zenon DEF Boot
      <4>4. AtMostOne(st') /\ AtMostOne(disk') /\ ~InJob(pc)'
        BY <4>2, <4>3, Zenon DEF Save, JobInv, InJob, JobPlaces, M5Places
      <4> QED  BY <4>4, Zenon DEF JobInv
    <3> QED  BY <3>1, <3>2, <3>3, Zenon
  <2> SUFFICES ASSUME TypeInv, DurableInv, JobInv, [Next]_vars PROVE JobInv'
    OBVIOUS
  <2>1. CASE WorkerStep
    BY <2>1, <2>JobByTake, <2>JobByCommit, <2>JobByEnd, <2>JobByFault,
        <2>JobByMayCommit, <2>JobByM5,
        <2>JobByCall,
       <2>JobByOther, Zenon
       DEF WorkerStep, JobStep, FaultStep, MonitorStep, BootStep, RunCommit, JobCallStep
  <2> QED  BY <2>1, <2>JobByDispatch, <2>JobByEnvironment, Zenon DEF Next
<1>SaveLands. ASSUME NEW new, NEW next, NEW h, Save(new, next, h)
              PROVE  Lands(new) /\ pc' \in {next, h} /\ (pc' # h => st' = disk')
  BY <1>SaveLands, Zenon DEF Save, Lands
<1>NextCount. TypeInv /\ DurableInv /\ JobInv /\ CountInv /\ [Next]_vars => CountInv'
  <2>CountKept.
      ASSUME TypeInv, CountInv, NEW new, new.gen \in [Runs -> Nat], new.epoch \in [Runs -> Nat],
             Ahead(st, new), Unborn(new), Lands(new), UNCHANGED <<dirs, wgen>>,
             pc' = "adopt" => st' = disk', pc' \in FreshPlaces => Untouched'
      PROVE  CountInv'
    <3> USE <2>CountKept
    <3>1. Ahead(disk, new)
      BY CountTypes DEF CountInv, Ahead
    <3>2. Reached(new)
      BY <3>1, CountTypes DEF CountInv, Ahead, Reached
    <3>3. Ahead(new, new) /\ Ahead(disk, disk)
      BY CountTypes DEF Ahead
    <3>4. Ahead(disk', st') /\ Unborn(st') /\ Unborn(disk') /\ (Reached(new) /\ Reached(disk) => Reached(disk)')
      BY <3>1, <3>3, Zenon DEF CountInv, Lands, Reached
    <3>5. Reached(disk)
      BY Zenon DEF CountInv
    <3> QED  BY <3>2, <3>4, <3>5, Zenon DEF CountInv
  \* A step that writes neither, and does not enter the planning of captures.
  <2>CountQuiet.
      ASSUME TypeInv, CountInv, NEW new, new.gen = st.gen, new.epoch = st.epoch,
             \A r \in Runs : new.state[r] = "absent" => st.state[r] = "absent",
             Lands(new), UNCHANGED <<dirs, wgen>>, pc' \notin FreshPlaces \cup {"adopt"}
      PROVE  CountInv'
    <3> USE <2>CountQuiet
    <3>1. Ahead(st, new) /\ Unborn(new) /\ new.gen \in [Runs -> Nat] /\ new.epoch \in [Runs -> Nat]
      BY CountTypes DEF CountInv, Ahead, Unborn
    <3> QED  BY <3>1, <2>CountKept, Zenon
  \* Between its places of planning the worker keeps the epoch.
  <2>CountCall. ASSUME TypeInv, CountInv, UNCHANGED <<st, disk, dirs, wgen>>,
                       pc' = "adopt" => pc = "adopt" /\ run' = run,
                       pc' \in FreshPlaces => pc \in FreshPlaces /\ run' = run
                PROVE  CountInv'
    BY <2>CountCall, Zenon DEF CountInv, Reached, Untouched
  \* Where the quiet commits of the worker lead.
  <2>QuietPlaces.
      ASSUME \/ RunCommit \/ FaultCleared \/ RecordFailure \/ Finish \/ StartCancelled \/ NextResource
             \/ Ready \/ FaultBegin \/ FaultUndone \/ FaultSettle \/ M5Expiring \/ Expired
             \/ FaultFailure \/ FailureNoted \/ M5Sample \/ M5Caught \/ Renew \/ MonitorFailure
             \/ RunReconciled \/ BootDone
      PROVE  /\ pc' \notin FreshPlaces \cup {"adopt"}
             /\ pc' \in {"observe", "finish"} => pc \in {"ready", "stopped", "destroyed"}
    <3> USE <2>QuietPlaces
    <3>1. CASE RunCommit
      BY <3>1, ZenonT(30) DEF RunCommit, Converge, Stopped, Destroy, Compensate,
          Destroyed, Armed, RecordClosed,
                  Prepared, ResourceRemoved, AfterClose, Committing, Save, FreshPlaces
    <3>2. CASE \/ FaultCleared \/ RecordFailure \/ Finish \/ StartCancelled \/ FaultBegin
               \/ FaultUndone \/ FaultSettle
      BY <3>2, Zenon DEF FaultCleared, RecordFailure, Finish, StartCancelled,
          FaultBegin,
          FaultUndone,
                  FaultSettle, Committing, Save, FreshPlaces
    <3>3. CASE NextResource \/ Ready
      BY <3>3, Zenon DEF NextResource, Ready, Checked, AfterResources, Committing, Save,
          FreshPlaces
    <3>4. CASE M5Expiring \/ Expired \/ FaultFailure \/ FailureNoted \/ M5Sample
      BY <3>4, Zenon DEF M5Expiring, Expired, FaultFailure, FailureNoted, M5Sample,
          M5Error, M5Continue,
                  Committing, Save, FreshPlaces
    <3>5. CASE M5Caught \/ Renew \/ MonitorFailure \/ RunReconciled \/ BootDone
      BY <3>5, Zenon DEF M5Caught, Renew, MonitorFailure, RunReconciled, BootDone,
          Committing, Save, FreshPlaces
    <3> QED  BY <3>1, <3>2, <3>3, <3>4, <3>5, Zenon
  \* The quiet commits of a job and of m5_monitor.
  <2>CountByCommit.
      ASSUME TypeInv, CountInv,
             \/ RunCommit \/ FaultCleared \/ RecordFailure \/ Finish \/ StartCancelled \/ NextResource
             \/ Ready \/ FaultBegin \/ FaultUndone \/ FaultSettle \/ M5Expiring \/ Expired
             \/ FaultFailure
      PROVE  CountInv'
    <3> USE <2>CountByCommit
    <3>0. st \in Journal /\ pc' \notin FreshPlaces \cup {"adopt"}
      BY <2>QuietPlaces, Zenon DEF TypeInv, TypeOK
    <3>1. CASE RunCommit
      <4>1. PICK new, next : Committing(new, next, "catch") /\ Stays(st, new)
        BY <3>1, <1>RunCommits, Zenon
      <4> QED  BY <3>0, <4>1, CommittingParts, <1>SaveLands, SameWorld, <2>CountQuiet,
          Zenon DEF Stays
    <3>2. CASE FaultCleared
      <4>1. PICK new : Committing(new, "clear", "catch") /\ Moves(st, new, tgt, "removed")
        BY <3>0, <3>2, <1>FaultMoves, Zenon DEF FaultCleared
      <4> QED  BY <3>0, <4>1, CommittingParts, <1>SaveLands, SameWorld, <2>CountQuiet,
          Zenon DEF Moves
    <3>3. CASE RecordFailure \/ Finish \/ StartCancelled
      <4>1. PICK new, v, h : Committing(new, "loop", h) /\ Ends(st, new, job, v)
        BY <3>3, <1>RunEnds, Zenon
      <4> QED  BY <3>0, <4>1, CommittingParts, <1>SaveLands, SameWorld, <2>CountQuiet,
          Zenon DEF Ends
    <3>4. CASE NextResource \/ Ready
      <4>1. UNCHANGED <<dirs, wgen>>
        BY <3>4, <1>MayCommit, SameWorld, Zenon
      <4>2. CASE \E new, next : Save(new, next, "catch") /\ Stays(st, new)
        BY <3>0, <4>1, <4>2, <1>SaveLands, <2>CountQuiet, Zenon DEF Stays
      <4>3. CASE UNCHANGED journal
        BY <3>0, <4>1, <4>3, <2>CountCall, Zenon DEF journal
      <4> QED  BY <3>4, <4>2, <4>3, <1>MayCommit, Zenon
    <3>5. CASE FaultBegin \/ FaultUndone \/ FaultSettle
      <4>1. CASE \E new, w : Committing(new, "effect", "catch") /\ Moves(st, new, tgt, w)
        BY <3>0, <4>1, CommittingParts, <1>SaveLands, SameWorld, <2>CountQuiet,
            Zenon DEF Moves
      <4>2. CASE \E new, v : Committing(new, "loop", "catch") /\ Ends(st, new, job, v)
        BY <3>0, <4>2, CommittingParts, <1>SaveLands, SameWorld, <2>CountQuiet,
            Zenon DEF Ends
      <4> QED  BY <3>5, <4>1, <4>2, <1>FaultWrites, Zenon
    <3>6. CASE M5Expiring \/ Expired \/ FaultFailure
      <4>1. PICK new, next, h, w : Save(new, next, h) /\ Moves(st, new, tgt', w)
        BY <3>6, <1>M5Commits, Zenon
      <4>2. UNCHANGED <<dirs, wgen>>
        BY <3>6, <1>M5Commits, SameWorld, Zenon
      <4> QED  BY <3>0, <4>1, <4>2, <1>SaveLands, <2>CountQuiet, Zenon DEF Moves
    <3> QED  BY <3>1, <3>2, <3>3, <3>4, <3>5, <3>6, Zenon
  \* Commits that change nothing of a run but its state and coverage.
  <2>CountByNote.
      ASSUME TypeInv, CountInv,
             \/ FailureNoted \/ M5Sample \/ M5Caught \/ Renew \/ MonitorFailure \/ RunReconciled
             \/ BootDone
      PROVE  CountInv'
    <3> USE <2>CountByNote
    <3>0. st \in Journal /\ pc' \notin FreshPlaces \cup {"adopt"}
      BY <2>QuietPlaces, Zenon DEF TypeInv, TypeOK
    <3>1. CASE MonitorFailure
      <4> DEFINE s == SetState(st, run, "reconciling")
                 new == SetCov(s, run, "incomplete")
      <4>1. s \in Journal /\ Stays(st, s)
        BY <3>0, SetStateType, <1>StateStays, Zenon DEF RunStates
      <4>2. Stays(st, new)
        BY <4>1, <1>CovStays, <1>StaysTrans, Zenon
      <4>3. Committing(new, "loop", "off")
        BY <3>1, Zenon DEF MonitorFailure
      <4> HIDE DEF new
      <4> QED  BY <3>0, <4>2, <4>3, CommittingParts, <1>SaveLands, SameWorld,
          <2>CountQuiet,
          Zenon DEF Stays
    <3>2. CASE FailureNoted \/ M5Sample \/ M5Caught \/ Renew \/ RunReconciled \/ BootDone
      <4>1. UNCHANGED world /\ Lands(st)
        BY <3>2, Zenon DEF FailureNoted, M5Sample, M5Caught, Renew, RunReconciled,
            BootDone, Committing, Save,
                    Lands, journal
      <4> QED  BY <3>0, <4>1, SameWorld, <2>CountQuiet, Zenon
    <3> QED  BY <3>1, <3>2, Zenon
  \* The new epoch has no directory; planning keeps it.
  <2>CountByEpoch. ASSUME TypeInv, CountInv, Epoch \/ PlanCall \/ PlanCaptures
                   PROVE  CountInv'
    <3> USE <2>CountByEpoch
    <3>0. st \in Journal
      BY ZenonT(30) DEF TypeInv, TypeOK
    <3>1. CASE Epoch
      <4>1. pc = "epoch" /\ run \in Runs
        BY <3>1, Jobbing, Zenon DEF Epoch, JobPlaces
      <4>2. PICK new : Committing(new, "plan", "catch") /\ EpochWritten(st, new, run)
        BY <3>0, <3>1, WriteEpoch, Zenon DEF Epoch
      <4>3. /\ Save(new, "plan", "catch") /\ Lands(new) /\ pc' \in {"plan", "catch"} /\ run' = run
            /\ pc' # "catch" => st' = disk'
            /\ UNCHANGED <<dirs, wgen>>
        BY <4>2, CommittingParts, <1>SaveLands, SameWorld, Zenon
      <4>4. new.gen = st.gen /\ new.state = st.state /\ new.epoch = [st.epoch EXCEPT ![run] = @ + 1]
        BY <4>2, Zenon DEF EpochWritten, SameRuns
      <4>5. Ahead(st, new) /\ Unborn(new) /\ new.gen \in [Runs -> Nat] /\ new.epoch \in [Runs -> Nat]
        BY <4>1, <4>4, CountTypes DEF CountInv, Ahead, Unborn
      <4>6. \A w \in dirs : w[1] = run => w[3] < new.epoch[run]
        BY <4>1, <4>4, CountTypes DEF CountInv, Ahead, Reached
      <4>7. st' = new
        BY <4>3, Zenon DEF Save
      <4> QED  BY <4>3, <4>5, <4>6, <4>7, <2>CountKept, ZenonT(30) DEF FreshPlaces,
          Untouched
    <3>2. CASE PlanCall
      <4>1. UNCHANGED <<st, disk, run, dirs, wgen>> /\ pc = "plan" /\ pc' # "adopt"
        BY <3>2, SameWorld, Zenon DEF PlanCall, Calling, journal, frame
      <4> QED  BY <4>1, <2>CountCall, Zenon DEF FreshPlaces
    <3>3. CASE PlanCaptures
      <4>1. PICK new : Committing(new, "arm", "catch") /\ PlanWritten(st, new, run)
        BY <3>0, <3>3, WritePlan, Zenon DEF PlanCaptures
      <4>2. /\ Save(new, "arm", "catch") /\ Lands(new) /\ pc' \in {"arm", "catch"} /\ run' = run
            /\ UNCHANGED <<dirs, wgen>>
        BY <4>1, CommittingParts, <1>SaveLands, SameWorld, Zenon
      <4>3. new.gen = st.gen /\ new.state = st.state /\ new.epoch = st.epoch
        BY <4>1, Zenon DEF PlanWritten, SameRuns
      <4>4. Ahead(st, new) /\ Unborn(new) /\ new.gen \in [Runs -> Nat] /\ new.epoch \in [Runs -> Nat]
        BY <4>3, CountTypes DEF CountInv, Ahead, Unborn
      <4>5. Untouched /\ st' = new
        BY <3>3, <4>2, Zenon DEF PlanCaptures, CountInv, FreshPlaces, Save
      <4> QED  BY <4>2, <4>3, <4>4, <4>5, <2>CountKept, Zenon DEF FreshPlaces, Untouched
    <3> QED  BY <3>1, <3>2, <3>3, Zenon
  \* Workers hear of no generation, and directories are made in no epoch, that
  \* the disk has not reached.
  <2>CountByHost.
      ASSUME TypeInv, CountInv, run \in Runs, st.gen[run] = disk.gen[run], UNCHANGED disk,
             st'.gen = st.gen, st'.epoch = st.epoch, st'.state = st.state,
             pc' \notin FreshPlaces \cup {"adopt"}, wgen' \in [Runs -> [Edges -> Nat]],
             \A r \in Runs : \A e \in Edges :
               wgen'[r][e] = wgen[r][e] \/ (r = run /\ wgen'[r][e] = st.gen[run]),
             \A w \in dirs' : w \in dirs \/ (w[1] = run /\ w[3] <= disk.epoch[run])
      PROVE  CountInv'
    <3> USE <2>CountByHost
    <3>1. Reached(disk)'
      BY CountTypes DEF CountInv, Reached
    <3> QED  BY <3>1, Zenon DEF CountInv, Ahead, Unborn
  <2>AdoptedNumbers.
      ASSUME TypeInv, run \in Runs, NEW E, Adopted(run, E)
      PROVE  /\ wgen' \in [Runs -> [Edges -> Nat]]
             /\ \A r \in Runs : \A e \in Edges :
                  wgen'[r][e] = wgen[r][e] \/ (r = run /\ wgen'[r][e] = st.gen[run])
    BY <2>AdoptedNumbers, CountTypes, Zenon DEF Adopted
  <2>CountByStop. ASSUME TypeInv, JobInv, CountInv, StopOld \/ CloseCaptures
                  PROVE  CountInv'
    <3> USE <2>CountByStop
    <3>1. /\ pc \in {"stopold", "close"} /\ run \in Runs /\ UNCHANGED <<st, disk>>
          /\ pc' \notin FreshPlaces \cup {"adopt"}
      BY Jobbing, Zenon DEF StopOld, CloseCaptures, JobPlaces, journal, AfterClose,
          FreshPlaces
    <3>2. st.gen[run] = disk.gen[run]
      BY <3>1, Zenon DEF JobInv, JobAt, InJob, JobPlaces, Handlers, Agree, SameCounts
    <3>3. dirs' = dirs /\ (wgen' = wgen \/ \E E : Adopted(run, E))
      BY Zenon DEF StopOld, CloseCaptures, StopCaptures, StopThrows, captures
    <3>4. /\ wgen' \in [Runs -> [Edges -> Nat]]
          /\ \A r \in Runs : \A e \in Edges :
               wgen'[r][e] = wgen[r][e] \/ (r = run /\ wgen'[r][e] = st.gen[run])
      BY <3>1, <3>3, <2>AdoptedNumbers, CountTypes, Zenon
    <3> QED  BY <3>1, <3>2, <3>3, <3>4, <2>CountByHost, Zenon
  <2>CountByArm. ASSUME TypeInv, JobInv, CountInv, Arm
                 PROVE  CountInv'
    <3> USE <2>CountByArm
    <3>1. /\ pc = "arm" /\ run \in Runs /\ UNCHANGED <<st, disk>> /\ pc' \notin FreshPlaces \cup {"adopt"}
      BY Jobbing, Zenon DEF Arm, JobPlaces, journal, FreshPlaces
    <3>2. st.gen[run] = disk.gen[run] /\ st.epoch[run] = disk.epoch[run]
      BY <3>1, Zenon DEF JobInv, JobAt, InJob, JobPlaces, Handlers, Agree, SameCounts
    <3>3. \A w \in Planned(st, run) : w[1] = run /\ w[3] = st.epoch[run]
      BY DEF Planned
    <3>4. \A w \in dirs' : w \in dirs \/ w \in Planned(st, run)
      BY Zenon DEF Arm, ArmCaptures, ArmThrows
    <3>5. /\ wgen' \in [Runs -> [Edges -> Nat]]
          /\ \A r \in Runs : \A e \in Edges :
               wgen'[r][e] = wgen[r][e] \/ (r = run /\ wgen'[r][e] = st.gen[run])
      <4>1. CASE ArmCaptures(run)
        BY <3>1, <4>1, CountTypes, Zenon DEF ArmCaptures
      <4>2. CASE ArmThrows(run)
        <5>1. PICK n \in Edges :
                wgen' = [wgen EXCEPT ![run] = [x \in Edges |-> IF x <= n THEN st.gen[run] ELSE @[x]]]
          BY <4>2, ZenonT(30) DEF ArmThrows
        <5> QED  BY <3>1, <5>1, CountTypes, Zenon
      <4> QED  BY <4>1, <4>2, Zenon DEF Arm
    <3>6. \A w \in dirs' : w \in dirs \/ (w[1] = run /\ w[3] <= disk.epoch[run])
      BY <3>1, <3>2, <3>3, <3>4, CountTypes
    <3> QED  BY <3>1, <3>2, <3>5, <3>6, <2>CountByHost, Zenon
  <2>CountByCall.
      ASSUME TypeInv, CountInv,
             \/ CatchQuiesce \/ Observe \/ Preflight \/ Prepare \/ Activate \/ Status \/ Release
             \/ Recheck \/ StopQuiesce \/ Hold \/ ClearFault \/ RemoveResource \/ FaultEffect
             \/ FaultVerdict \/ FaultUndo \/ Expire \/ FailureQuiesce \/ MonitorQuiesce
             \/ WorkerExits \/ Idle \/ RunsReconciled
      PROVE  CountInv'
    <3> USE <2>CountByCall
    <3>1. ASSUME CatchQuiesce \/ Observe \/ Preflight \/ Prepare \/ Activate \/ Status \/ Release
          PROVE  UNCHANGED <<st, disk, dirs, wgen>> /\ pc' \notin FreshPlaces \cup {"adopt"}
      BY <3>1, ZenonT(30) DEF CatchQuiesce, Observe, Preflight, Prepare, Activate,
          Status, Release, journal, world,
                  captures, Checked, AfterActivate, FreshPlaces
    <3>2. ASSUME \/ Recheck \/ StopQuiesce \/ Hold \/ ClearFault \/ RemoveResource \/ FaultEffect
                 \/ FaultVerdict \/ FaultUndo
          PROVE  UNCHANGED <<st, disk, dirs, wgen>> /\ pc' \notin FreshPlaces \cup {"adopt"}
      BY <3>2, ZenonT(30) DEF Recheck, StopQuiesce, Hold, ClearFault, RemoveResource,
          FaultEffect, FaultVerdict,
                  FaultUndo, journal, world, captures, FreshPlaces
    <3>3. ASSUME \/ Expire \/ FailureQuiesce \/ MonitorQuiesce \/ WorkerExits \/ Idle \/ RunsReconciled
          PROVE  UNCHANGED <<st, disk, dirs, wgen>> /\ pc' \notin FreshPlaces \cup {"adopt"}
      BY <3>3, Zenon DEF Expire, FailureQuiesce, MonitorQuiesce, WorkerExits, Idle,
          RunsReconciled, journal,
                  world, captures, FreshPlaces
    <3> QED  BY <3>1, <3>2, <3>3, <2>CountCall, Zenon
  <2>CountByBoot.
      ASSUME TypeInv, CountInv, Reconcile \/ Adopt \/ BootQuiesce \/ RecoverFault
      PROVE  CountInv'
    <3> USE <2>CountByBoot
    <3>0. st \in Journal /\ Recording \subseteq Runs /\ todo \subseteq Recording
      BY EngineAssumption, ZenonT(30) DEF TypeInv, TypeOK
    <3>1. CASE Reconcile
      <4>1. PICK r \in todo : Save(NewGeneration(st, r), "adopt", "off")
        BY <3>1, Zenon DEF Reconcile
      <4>2. UNCHANGED <<dirs, wgen>> /\ r \in Runs
        BY <3>0, <3>1, SameWorld, Zenon DEF Reconcile
      <4>3. PICK new : new = NewGeneration(st, r)
        OBVIOUS
      <4>4. /\ new.gen = [st.gen EXCEPT ![r] = @ + 1] /\ new.epoch = st.epoch
            /\ new.state = [st.state EXCEPT ![r] = "reconciling"] /\ st.state \in [Runs -> RunStates]
        BY <3>0, <4>3, Zenon DEF NewGeneration, Journal
      <4>5. Ahead(st, new) /\ Unborn(new) /\ new.gen \in [Runs -> Nat] /\ new.epoch \in [Runs -> Nat]
        BY <4>2, <4>4, CountTypes DEF CountInv, Ahead, Unborn
      <4>6. Lands(new) /\ pc' \in {"adopt", "off"} /\ (pc' # "off" => st' = disk')
        BY <4>1, <4>3, <1>SaveLands, Zenon
      <4> QED  BY <4>2, <4>5, <4>6, <2>CountKept, Zenon DEF FreshPlaces
    <3>2. CASE Adopt
      <4>1. /\ run \in Runs /\ st.gen[run] = disk.gen[run] /\ UNCHANGED <<disk, dirs>>
            /\ pc' \notin FreshPlaces \cup {"adopt"}
        BY <3>2, ZenonT(30) DEF Adopt, TypeInv, FrameAt, CountInv, FreshPlaces
      <4>2. st'.gen = st.gen /\ st'.epoch = st.epoch /\ st'.state = st.state
        <5>1. CovWritten(st, Incomplete, run, "incomplete")
          BY <3>0, WriteCov, Zenon DEF Incomplete
        <5> QED  BY <3>2, <5>1, Zenon DEF Adopt, CovWritten, SameCounts
      <4>3. wgen' = wgen \/ \E E : Adopted(run, E)
        BY <3>2, ZenonT(30) DEF Adopt
      <4>4. /\ wgen' \in [Runs -> [Edges -> Nat]]
            /\ \A r \in Runs : \A e \in Edges :
                 wgen'[r][e] = wgen[r][e] \/ (r = run /\ wgen'[r][e] = st.gen[run])
        BY <4>1, <4>3, <2>AdoptedNumbers, CountTypes, Zenon
      <4> QED  BY <4>1, <4>2, <4>4, <2>CountByHost, Zenon
    <3>3. CASE BootQuiesce
      <4>1. /\ disk' = disk /\ pc' = "adopted" /\ UNCHANGED <<dirs, wgen>>
            /\ st' \in {st, Incomplete, SetState(st, run, "stopped")}
        BY <3>3, Zenon DEF BootQuiesce, captures
      <4>2. Stays(st, st')
        <5>1. Stays(st, Incomplete) /\ Stays(st, SetState(st, run, "stopped"))
          BY <3>0, <1>CovStays, <1>StateStays, Zenon DEF Incomplete
        <5> QED  BY <4>1, <5>1, Zenon DEF Stays
      <4> QED  BY <4>1, <4>2, <2>CountQuiet, Zenon DEF Lands, FreshPlaces, Stays
    <3>4. CASE RecoverFault
      <4>1. PICK f \in ftodo : st' \in {st, SetFault(st, f, "removed")}
        BY <3>4, Zenon DEF RecoverFault
      <4>2. disk' = disk /\ pc' \in {"flt", "m5fail"} /\ UNCHANGED <<dirs, wgen>>
        BY <3>4, Zenon DEF RecoverFault, captures
      <4>3. Moves(st, SetFault(st, f, "removed"), f, "removed")
        BY <3>0, <1>FaultMoves, Zenon
      <4> QED  BY <4>1, <4>2, <4>3, <2>CountQuiet, Zenon DEF Lands, FreshPlaces, Moves
    <3> QED  BY <3>1, <3>2, <3>3, <3>4, Zenon
  <2>CountByDispatch. ASSUME TypeInv, JobInv, CountInv, Dispatch
                      PROVE  CountInv'
    <3> USE <2>CountByDispatch
    <3>0. ASSUME NEW new, NEW j, NEW op, NEW r, NEW f, Accepts(new, j, op, r, f)
          PROVE  Lands(new) /\ UNCHANGED <<pc, run, dirs, wgen>> /\ pc \notin FreshPlaces \cup {"adopt"}
      <4>1. UNCHANGED <<pc, run, dirs, wgen>> /\ Lands(new)
        BY <3>0, SameWorld, Zenon DEF Accepts, frame, Lands
      <4>2. pc # "adopt"
        BY <3>0, Zenon DEF Accepts, Serving, TypeInv, FrameAt, BootPlaces
      <4>3. pc \notin FreshPlaces
        <5>1. SUFFICES ASSUME pc \in FreshPlaces PROVE FALSE
          OBVIOUS
        <5>2. pc \in JobPlaces /\ InJob(pc) /\ pc \notin Handlers
          BY <5>1, Zenon DEF FreshPlaces, JobPlaces, InJob, Handlers
        <5>3. job \in JobIds /\ st.job[job].is = "running"
          BY <5>2, Jobbing, Zenon DEF JobInv, JobAt
        <5> QED  BY <3>0, <5>3, Zenon DEF Accepts, Busy, Pending
      <4> QED  BY <4>1, <4>2, <4>3, Zenon
    <3>1. ASSUME NEW new, NEW j, NEW op, NEW r, NEW f, Accepts(new, j, op, r, f),
                 SameRuns(st, new), SameCounts(st, new)
          PROVE  CountInv'
      BY <3>0, <3>1, <2>CountQuiet, Zenon DEF SameRuns, SameCounts
    <3>2. ASSUME NEW k \in Keys, NEW j \in JobIds, NEW r \in Runs, Start(k, j, r)
          PROVE  CountInv'
      <4>1. PICK new : Accepts(new, j, "start", r, NoFault) /\ RunCreated(st, new, r)
        BY <3>2, StartAccepted, Zenon
      <4>2. st.state[r] = "absent" /\ st.state \in [Runs -> RunStates]
        BY <3>2, ZenonT(30) DEF Start, TypeInv, TypeOK, Journal
      <4>3. Ahead(st, new) /\ Unborn(new) /\ new.gen \in [Runs -> Nat] /\ new.epoch \in [Runs -> Nat]
        <5>1. st.gen[r] = 0 /\ st.gen \in [Runs -> Nat] /\ st.epoch \in [Runs -> Nat]
          BY <4>2, CountTypes, Zenon DEF CountInv, Unborn
        <5>2. /\ new.gen = [st.gen EXCEPT ![r] = 1] /\ new.epoch = st.epoch
              /\ new.state = [st.state EXCEPT ![r] = "preparing"]
          BY <4>1, Zenon DEF RunCreated
        <5>3. Ahead(st, new) /\ new.gen \in [Runs -> Nat] /\ new.epoch \in [Runs -> Nat]
          BY <5>1, <5>2 DEF Ahead
        <5>4. Unborn(new)
          BY <4>2, <5>1, <5>2 DEF CountInv, Unborn
        <5> QED  BY <5>3, <5>4, Zenon
      <4> QED  BY <3>0, <4>1, <4>3, <2>CountKept, Zenon
    <3>3. ASSUME NEW k \in Keys, NEW j \in JobIds, NEW r \in Runs, NEW op, Operate(k, j, r, op)
          PROVE  CountInv'
      BY <3>1, <3>3, OperateAccepted, Zenon DEF Agree
    <3>4. ASSUME NEW k \in Keys, NEW j \in JobIds, NEW f \in Faults,
                 FaultApply(k, j, f) \/ FaultRemove(k, j, f)
          PROVE  CountInv'
      BY <3>1, <3>4, ApplyAccepted, RemoveAccepted, Zenon DEF Agree
    <3>5. ASSUME NEW k \in Keys, NEW x \in Keys, Retry(k, x) PROVE CountInv'
      BY <3>5, <2>CountCall, SameWorld, Zenon DEF Retry, journal, frame
    <3>6. ASSUME NEW j \in JobIds, Cancel(j) PROVE CountInv'
      <4>1. /\ pc' = pc /\ UNCHANGED <<run, dirs, wgen>> /\ Agree(st, st')
            /\ (disk' = st' \/ (disk' = disk /\ stopping'))
        BY <3>6, CancelMarks, SameWorld, Zenon DEF frame
      <4>2. st'.gen = st.gen /\ st'.epoch = st.epoch /\ st'.state = st.state
        BY <4>1, Zenon DEF Agree, SameCounts, SameRuns
      <4>3. pc # "adopt"
        BY <3>6, Zenon DEF Cancel, Serving, TypeInv, FrameAt, BootPlaces
      <4>4. Ahead(st, st') /\ Unborn(st') /\ st'.gen \in [Runs -> Nat] /\ st'.epoch \in [Runs -> Nat]
        BY <4>2, CountTypes DEF CountInv, Ahead, Unborn
      <4>5. pc' \in FreshPlaces => Untouched'
        BY <4>1, <4>2, Zenon DEF CountInv, Untouched
      <4> QED  BY <4>1, <4>3, <4>4, <4>5, <2>CountKept, Zenon DEF Lands
    <3> QED  BY <3>2, <3>3, <3>4, <3>5, <3>6, Zenon DEF Dispatch
  <2>CountByEnvironment.
      ASSUME TypeInv, CountInv, Environment \/ Boot \/ Crash \/ Exit \/ Shutdown \/ UNCHANGED vars
      PROVE  CountInv'
    <3> USE <2>CountByEnvironment
    <3>1. CASE Environment \/ Shutdown \/ UNCHANGED vars
      <4>1. UNCHANGED <<st, disk, pc, run, dirs, wgen>>
        BY <3>1, Zenon DEF Environment, LeaseExpires, CaptureDies, FaultDue, Shutdown,
            journal, frame, vars,
                    world, captures
      <4> QED  BY <4>1, <2>CountCall, Zenon
    <3>2. CASE Crash \/ Exit
      <4>1. st' = disk /\ disk' = disk /\ pc' = "off" /\ UNCHANGED <<dirs, wgen>>
        BY <3>2, SameWorld, Zenon DEF Crash, Exit, Dies
      <4>2. Lands(st)
        BY <4>1, Zenon DEF Lands
      <4> QED  BY <4>1, <4>2, <2>CountQuiet, Zenon DEF FreshPlaces
    <3>3. CASE Boot
      <4>1. PICK new : new = Interrupted(disk)
        OBVIOUS
      <4>2. /\ \A r \in Runs : new.state[r] = disk.state[r] \/ new.state[r] = "reconciling"
            /\ new.gen = disk.gen /\ new.epoch = disk.epoch
        <5>1. disk \in Journal
          BY ZenonT(30) DEF TypeInv, TypeOK
        <5> QED  BY <4>1, <5>1, InterruptedClears, Zenon DEF SameCounts
      <4>3. Save(new, "recover", "off") /\ UNCHANGED <<dirs, wgen>>
        BY <3>3, <4>1, SameWorld, Zenon DEF Boot
      <4>4. st' \in {new, disk} /\ disk' = st' /\ pc' \in {"recover", "off"}
        BY <4>3, Zenon DEF Save
      <4>5. Ahead(st', st') /\ Unborn(st')
        BY <4>2, <4>4, CountTypes DEF Ahead, Unborn, CountInv
      <4>6. Reached(disk)'
        BY <4>2, <4>3, <4>4, Zenon DEF CountInv, Reached
      <4> QED  BY <4>4, <4>5, <4>6, Zenon DEF CountInv, FreshPlaces
    <3> QED  BY <3>1, <3>2, <3>3, Zenon
  <2> SUFFICES ASSUME TypeInv, DurableInv, JobInv, CountInv, [Next]_vars PROVE CountInv'
    OBVIOUS
  <2>1. CASE TakeJob
    <3>1. PICK j \in JobIds : Save(SetJob(st, j, "running"), Entry(st.job[j].op), "off")
      BY <2>1, Zenon DEF TakeJob
    <3>2. Ends(st, SetJob(st, j, "running"), j, "running")
      BY <1>JobEnded, Zenon DEF TypeInv, TypeOK
    <3>3. Entry(st.job[j].op) \notin FreshPlaces \cup {"adopt"}
      <4>1. st.job[j].op \in Operations
        BY Zenon DEF TypeInv, TypeOK, Journal, Jobs
      <4> QED  BY <4>1, Zenon DEF Entry, Operations, FreshPlaces
    <3>4. UNCHANGED <<dirs, wgen>>
      BY <2>1, SameWorld, Zenon DEF TakeJob
    <3> QED  BY <3>1, <3>2, <3>3, <3>4, <1>SaveLands, <2>CountQuiet DEF Ends,
        FreshPlaces
  <2>2. CASE WorkerStep
    BY <2>1, <2>2, <2>CountByCommit, <2>CountByNote, <2>CountByEpoch, <2>CountByStop,
        <2>CountByArm,
        <2>CountByCall,
       <2>CountByBoot, Zenon
       DEF WorkerStep, JobStep, FaultStep, MonitorStep, BootStep, RunCommit
  <2> QED  BY <2>2, <2>CountByDispatch, <2>CountByEnvironment, Zenon DEF Next
<1>NextLanes. TypeInv /\ DurableInv /\ JobInv /\ LanesInv /\ [Next]_vars => LanesInv'
  <2>FaultAtElse. ASSUME pc \notin AnyFaultPlace
                  PROVE  FaultAt
    BY <2>FaultAtElse, Zenon DEF AnyFaultPlace, FaultWait, RaisePlaces, BootWait,
        FaultAt
  \* No fault is raised that was live nowhere.
  <2>DisjointKept.
      ASSUME Disjoint, NEW new, Lands(new), \A f \in Faults : Live(new.flt[f]) => LiveIn(f)
      PROVE  Disjoint'
    <3> USE <2>DisjointKept
    <3>1. \A f \in Faults : LiveIn(f)' => LiveIn(f)
      BY Zenon DEF Lands, LiveIn
    <3> QED  BY <3>1, Zenon DEF Disjoint
  \* While a job runs nothing waits.
  <2>QueueInJob.
      ASSUME JobInv, InJob(pc), NEW new, st' = new \/ pc' = "off",
             \A j \in JobIds : new.job[j].is = "queued" => st.job[j].is = "queued"
      PROVE  QueueInv'
    BY <2>QueueInJob, Zenon DEF JobInv, JobAt, QueueInv, Queued
  <2>LaneInJob.
      ASSUME JobInv, LanesInv, InJob(pc), NEW new, Lands(new), st' = new \/ pc' = "off",
             \A j \in JobIds : new.job[j].is = "queued" => st.job[j].is = "queued",
             \A f \in Faults : Live(new.flt[f]) => LiveIn(f), pc' \notin AnyFaultPlace
      PROVE  LanesInv'
    <3> USE <2>LaneInJob
    <3>1. Disjoint' /\ QueueInv'
      BY <2>DisjointKept, <2>QueueInJob, Zenon DEF LanesInv
    <3>2. FaultAt'
      BY <2>FaultAtElse, Zenon DEF AnyFaultPlace, FaultWait, RaisePlaces, BootWait,
          FaultAt
    <3> QED  BY <3>1, <3>2, Zenon DEF LanesInv
  <2>SavedOrOff. ASSUME NEW new, NEW next, NEW h, Save(new, next, h)
                 PROVE  Lands(new) /\ (st' = new \/ pc' = "off")
    BY <2>SavedOrOff, Zenon DEF Save, Lands
  \* Commits of a job that leave the faults alone.
  <2>LaneByCommit.
      ASSUME TypeInv, JobInv, LanesInv,
             \/ RunCommit \/ Epoch \/ PlanCaptures \/ RecordFailure \/ Finish \/ StartCancelled
             \/ NextResource \/ Ready
      PROVE  LanesInv'
    <3> USE <2>LaneByCommit
    <3>0. st \in Journal
      BY Zenon DEF TypeInv, TypeOK
    <3>1. pc' \notin AnyFaultPlace
      <4>1. CASE RunCommit
        BY <4>1, Zenon DEF RunCommit, Converge, Stopped, Destroy, Compensate, Destroyed,
            Armed, RecordClosed,
                    Prepared, ResourceRemoved, AfterClose, Committing, Save, AnyFaultPlace, FaultWait,
                    RaisePlaces
      <4>2. CASE Epoch \/ PlanCaptures \/ RecordFailure \/ Finish \/ StartCancelled
        BY <4>2, Zenon DEF Epoch, PlanCaptures, RecordFailure, Finish, StartCancelled,
            Committing, Save,
                    AnyFaultPlace, FaultWait, RaisePlaces
      <4>3. CASE NextResource \/ Ready
        BY <4>3, ZenonT(30) DEF NextResource, Ready, Checked, AfterResources,
            Committing,
            Save, AnyFaultPlace,
                    FaultWait, RaisePlaces
      <4> QED  BY <4>1, <4>2, <4>3, Zenon
    <3>2. ASSUME InJob(pc), NEW new, NEW next, NEW h, Save(new, next, h), new.flt = st.flt,
                 \A j \in JobIds : new.job[j].is = "queued" => st.job[j].is = "queued"
          PROVE  LanesInv'
      BY <3>1, <3>2, <2>SavedOrOff, <2>LaneInJob, ZenonT(30) DEF LiveIn
    <3>3. CASE RunCommit
      <4>1. PICK new, next : Committing(new, next, "catch") /\ Stays(st, new)
        BY <3>3, <1>RunCommits, Zenon
      <4>2. InJob(pc)
        BY <3>3, <1>RunCommits, Zenon DEF InJob
      <4> QED  BY <3>2, <4>1, <4>2, CommittingParts, Zenon DEF Stays
    <3>4. CASE Epoch
      <4>1. PICK new : Committing(new, "plan", "catch") /\ EpochWritten(st, new, run) /\ InJob(pc)
        BY <3>0, <3>4, WriteEpoch, Zenon DEF Epoch, InJob, JobPlaces
      <4> QED  BY <3>2, <4>1, CommittingParts DEF EpochWritten, SameThings
    <3>5. CASE PlanCaptures
      <4>1. PICK new : Committing(new, "arm", "catch") /\ PlanWritten(st, new, run) /\ InJob(pc)
        BY <3>0, <3>5, WritePlan, Zenon DEF PlanCaptures, InJob, JobPlaces
      <4> QED  BY <3>2, <4>1, CommittingParts DEF PlanWritten, SameThings
    <3>6. CASE RecordFailure \/ Finish \/ StartCancelled
      <4>1. PICK new, v, h : /\ Committing(new, "loop", h) /\ Ends(st, new, job, v) /\ new.flt = st.flt
                             /\ v \notin {"queued", "running"}
        BY <3>6, <1>RunEnds, Zenon
      <4>2. InJob(pc)
        BY <3>6, <1>RunEnds, Zenon DEF InJob
      <4> QED  BY <3>2, <4>1, <4>2, CommittingParts, ZenonT(30) DEF Ends
    <3>7. CASE NextResource \/ Ready
      <4>1. InJob(pc)
        BY <3>7, <1>MayCommit, Zenon DEF InJob
      <4>2. CASE \E new, next : Save(new, next, "catch") /\ Stays(st, new)
        BY <3>2, <4>1, <4>2, Zenon DEF Stays
      <4>3. CASE UNCHANGED journal
        BY <3>1, <4>1, <4>3, <2>LaneInJob, Zenon DEF journal, Lands, LiveIn
      <4> QED  BY <3>7, <4>2, <4>3, <1>MayCommit, Zenon
    <3> QED  BY <3>3, <3>4, <3>5, <3>6, <3>7, Zenon
  \* A write of one fault raises it, or lets it down.
  <2>OneFault.
      ASSUME TypeInv, NEW g, NEW f, NEW w, g = [st.flt EXCEPT ![f] = w], Live(w) => LiveIn(f)
      PROVE  \A x \in Faults : Live(g[x]) => LiveIn(x)
    <3> USE <2>OneFault
    <3>1. st.flt \in [Faults -> FaultStates]
      BY Zenon DEF TypeInv, TypeOK, Journal
    <3> QED  BY <3>1, Zenon DEF LiveIn
  <2>LaneByFault.
      ASSUME TypeInv, JobInv, LanesInv, FaultCleared \/ FaultBegin \/ FaultUndone \/ FaultSettle
      PROVE  LanesInv'
    <3> USE <2>LaneByFault
    <3>0. st \in Journal
      BY ZenonT(30) DEF TypeInv, TypeOK
    <3>1. CASE FaultCleared
      <4>1. PICK new : Committing(new, "clear", "catch") /\ Moves(st, new, tgt, "removed")
        BY <3>0, <3>1, <1>FaultMoves, Zenon DEF FaultCleared
      <4>2. \A x \in Faults : Live(new.flt[x]) => LiveIn(x)
        BY <4>1, <2>OneFault, Zenon DEF Moves, Live
      <4>3. InJob(pc) /\ Save(new, "clear", "catch") /\ pc' \notin AnyFaultPlace
        BY <3>1, <4>1, CommittingParts
           DEF FaultCleared, InJob, JobPlaces, AnyFaultPlace, FaultWait, RaisePlaces,
               Save
      <4> QED  BY <4>1, <4>2, <4>3, <2>SavedOrOff, <2>LaneInJob, ZenonT(30) DEF Moves
    <3>2. ASSUME FaultBegin \/ FaultUndone \/ FaultSettle, NEW w, Raises(w), Live(w)
          PROVE  LiveIn(tgt)
      BY <3>2, Zenon DEF LanesInv, FaultAt, RaisePlaces, Raises, LiveIn
    <3>3. ASSUME FaultBegin \/ FaultUndone \/ FaultSettle PROVE InJob(pc)
      BY <3>3, <1>FaultWrites, Faulting, Zenon DEF InJob
    <3>4. ASSUME FaultBegin \/ FaultUndone \/ FaultSettle, NEW new, NEW w,
                 Committing(new, "effect", "catch"), Moves(st, new, tgt, w), Live(w), Raises(w)
          PROVE  LanesInv'
      <4>1. \A x \in Faults : Live(new.flt[x]) => LiveIn(x)
        BY <3>2, <3>4, <2>OneFault, ZenonT(30) DEF Moves
      <4>2. /\ Save(new, "effect", "catch") /\ Lands(new) /\ st' = new /\ pc' \in {"effect", "catch"}
            /\ tgt' = tgt
        BY <3>4, CommittingParts, <1>SaveLands DEF Save
      <4>3. Disjoint' /\ QueueInv'
        BY <3>3, <3>4, <4>1, <4>2, <2>DisjointKept, <2>QueueInJob,
            ZenonT(30) DEF LanesInv, Moves
      <4>4. Live(new.flt[tgt])
        <5>1. tgt \in Faults /\ st.flt \in [Faults -> FaultStates]
          BY <3>0, <3>4, <1>FaultWrites, Faulting, ZenonT(30) DEF Journal
        <5> QED  BY <3>4, <5>1, ZenonT(30) DEF Moves
      <4>5. FaultAt'
        BY <4>2, <4>4, ZenonT(30) DEF FaultAt, FaultWait, RaisePlaces, BootWait
      <4> QED  BY <4>3, <4>5, Zenon DEF LanesInv
    <3>5. ASSUME FaultBegin \/ FaultUndone \/ FaultSettle, NEW new, NEW v, NEW w,
                 Committing(new, "loop", "catch"), Ends(st, new, job, v), v \notin {"queued", "running"},
                 new.flt = [st.flt EXCEPT ![tgt] = w], Raises(w)
          PROVE  LanesInv'
      <4>1. \A x \in Faults : Live(new.flt[x]) => LiveIn(x)
        BY <3>2, <3>5, <2>OneFault, ZenonT(30)
      <4>2. Save(new, "loop", "catch")
        BY <3>5, CommittingParts, Zenon
      <4>3. pc' \in {"loop", "catch"}
        BY <4>2, Zenon DEF Save
      <4>4. pc' \notin AnyFaultPlace
        BY <4>3, Zenon DEF AnyFaultPlace, FaultWait, RaisePlaces
      <4> QED  BY <3>3, <3>5, <4>1, <4>2, <4>4, <2>SavedOrOff, <2>LaneInJob,
          ZenonT(30) DEF Ends
    <3>6. CASE FaultBegin \/ FaultUndone \/ FaultSettle
      BY <3>4, <3>5, <3>6, <1>FaultWrites, Zenon
    <3> QED  BY <3>1, <3>6, Zenon
  <2>LaneByM5. TypeInv /\ LanesInv /\ (M5Expiring \/ Expired \/ FaultFailure) => LanesInv'
    \* m5_monitor may run while a request waits, but not for its fault.
    <3>QueuedFaults.
        ASSUME TypeInv
        PROVE  \A j \in JobIds : Queued(j) /\ st.job[j].op = "fault.apply" => st.job[j].flt \in Faults
      BY <3>QueuedFaults, Zenon DEF TypeInv, JobsOK, Queued, FaultOps
    <3> SUFFICES ASSUME TypeInv, LanesInv, M5Expiring \/ Expired \/ FaultFailure PROVE LanesInv'
      OBVIOUS
    <3>0. st \in Journal /\ st.flt \in [Faults -> FaultStates]
      BY Zenon DEF TypeInv, TypeOK, Journal
    <3>1. PICK new, next, h, w :
            /\ Save(new, next, h) /\ Moves(st, new, tgt', w)
            /\ \/ /\ pc = "m5" /\ next = "expire" /\ h = M5Error /\ w = "removing"
                  /\ st.flt[tgt'] = "active" /\ tgt' \in Faults
               \/ /\ pc = "expired" /\ next = "m5" /\ h = "m5fail" /\ w = "removed" /\ tgt' = tgt
               \/ /\ pc = "m5fail" /\ next = "m5hold" /\ h = M5Error /\ w = "recovery-required"
                  /\ tgt' = tgt
      BY <1>M5Commits, Zenon
    <3>2. UNCHANGED <<ret, ftodo>> /\ (pc # "m5fail" => ret # "boot")
      BY <3>1, <1>M5Commits, Zenon DEF TypeInv, FrameAt, BootPlaces
    <3>3. M5Error \in {"m5err", "off", "catch"} /\ M5Error \notin AnyFaultPlace /\ "m5" \notin AnyFaultPlace
      BY Zenon DEF M5Error, AnyFaultPlace, FaultWait, RaisePlaces
    <3>4. tgt' \in Faults /\ LiveIn(tgt')
      <4>1. CASE pc = "m5"
        BY <3>1, <4>1, Zenon DEF LiveIn, Live
      <4>2. CASE pc # "m5"
        BY <3>1, <4>2, ZenonT(30) DEF LanesInv, FaultAt, LiveIn, TypeInv, FrameAt,
            FaultPlaces
      <4> QED  BY <4>1, <4>2, Zenon
    <3>5. Lands(new) /\ (st' = new \/ pc' = "off") /\ pc' \in {next, h} /\ (pc' # h => st' = disk')
      BY <3>1, <1>SaveLands, <2>SavedOrOff, ZenonT(30)
    <3>6. Disjoint'
      <4>1. \A x \in Faults : Live(new.flt[x]) => LiveIn(x)
        BY <3>1, <3>4, <2>OneFault, ZenonT(30) DEF Moves
      <4> QED  BY <3>5, <4>1, <2>DisjointKept, Zenon DEF LanesInv
    <3>7. new.flt[tgt'] = w /\ \A x \in Faults : x # tgt' => new.flt[x] = st.flt[x]
      BY <3>0, <3>1, <3>4, Zenon DEF Moves
    <3>8. QueueInv'
      <4>1. ret = "boot" \/ st.flt[tgt'] # "queued"
        BY <3>1, <3>2, ZenonT(30) DEF LanesInv, FaultAt, FaultWait
      <4>2. new.job = st.job /\ ret' = ret /\ pc # "off" /\ QueueInv
        BY <3>1, <3>2, Zenon DEF Moves, LanesInv
      <4>3. \A j \in JobIds : Queued(j) /\ st.job[j].op = "fault.apply" => st.job[j].flt \in Faults
        BY <3>QueuedFaults, Zenon
      <4>4. st' = new \/ pc' = "off"
        BY <3>5, Zenon
      <4>5. \A x \in Faults : x # tgt' => new.flt[x] = st.flt[x]
        BY <3>7, Zenon
      <4> QED  BY <4>1, <4>2, <4>3, <4>4, <4>5 DEF QueueInv, Queued
    <3>9. FaultAt'
      <4>1. CASE pc' \notin AnyFaultPlace
        BY <4>1, ZenonT(30) DEF FaultAt, AnyFaultPlace, FaultWait, RaisePlaces, BootWait
      <4>2. CASE pc' = "expire"
        <5>1. w = "removing" /\ st' = new /\ disk' = new
          BY <3>1, <3>3, <3>5, <4>2, Zenon DEF AnyFaultPlace, FaultWait
        <5> QED  BY <3>7, <4>2, <5>1, Zenon DEF FaultAt, FaultWait, RaisePlaces,
            BootWait, Live
      <4>3. CASE pc' = "m5fail"
        <5>1. w = "removed" /\ st' = new /\ disk' = disk /\ pc = "expired" /\ tgt' = tgt
          BY <3>1, <3>3, <3>5, <4>3, Zenon DEF AnyFaultPlace, FaultWait, Save
        <5>2. Live(disk.flt[tgt])
          BY <5>1, Zenon DEF LanesInv, FaultAt
        <5> QED  BY <3>2, <3>7, <4>3, <5>1, <5>2, Zenon DEF FaultAt, FaultWait,
            RaisePlaces, BootWait, LiveIn
      <4>4. CASE pc' = "m5hold"
        <5>1. w = "recovery-required" /\ st' = new /\ pc = "m5fail"
          BY <3>1, <3>3, <3>5, <4>4, Zenon DEF AnyFaultPlace, FaultWait
        <5>2. ret = "boot" => \A f \in ftodo : Live(st.flt[f])
          BY <5>1, ZenonT(30) DEF LanesInv, FaultAt, BootWait
        <5>3. ret = "boot" => \A f \in ftodo : Live(new.flt[f])
          BY <3>7, <5>1, <5>2, Zenon DEF Live, TypeInv, TypeOK
        <5> QED  BY <3>2, <3>7, <4>4, <5>1, <5>3, Zenon DEF FaultAt, FaultWait,
            RaisePlaces, BootWait
      <4> QED  BY <3>1, <3>3, <3>5, <4>1, <4>2, <4>3, <4>4, Zenon
    <3> QED  BY <3>6, <3>8, <3>9, Zenon DEF LanesInv
  \* Commits and calls that touch neither faults nor jobs.
  <2>LaneSame.
      ASSUME LanesInv, NEW new, Lands(new), st' = new \/ pc' = "off", new.flt = st.flt, new.job = st.job,
             ret' = "boot" => ret = "boot", pc # "off", FaultAt'
      PROVE  LanesInv'
    <3> USE <2>LaneSame
    <3>1. Disjoint'
      BY <2>DisjointKept, Zenon DEF LanesInv, LiveIn
    <3>2. QueueInv'
      BY Zenon DEF LanesInv, QueueInv, Queued
    <3> QED  BY <3>1, <3>2, Zenon DEF LanesInv
  <2>LaneByNote.
      ASSUME TypeInv, LanesInv,
             \/ FailureNoted \/ M5Sample \/ M5Caught \/ Renew \/ MonitorFailure \/ RunReconciled
             \/ BootDone \/ Reconcile \/ Adopt \/ BootQuiesce
      PROVE  LanesInv'
    <3> USE <2>LaneByNote
    <3>0. st \in Journal
      BY Zenon DEF TypeInv, TypeOK
    <3>1. PICK new : /\ Lands(new) /\ (st' = new \/ pc' = "off") /\ new.flt = st.flt /\ new.job = st.job
      <4>1. CASE FailureNoted \/ M5Sample \/ M5Caught \/ Renew \/ RunReconciled \/ BootDone
        <5>1. UNCHANGED journal \/ \E next, h : Save(st, next, h)
          BY <4>1, ZenonT(30) DEF FailureNoted, M5Sample, M5Caught, Renew,
              RunReconciled,
              BootDone, Committing
        <5> QED  BY <5>1, <2>SavedOrOff, Zenon DEF journal, Lands
      <4>2. CASE MonitorFailure
        <5> DEFINE s == SetState(st, run, "reconciling")
                   t == SetCov(s, run, "incomplete")
        <5>1. s \in Journal /\ Stays(st, s)
          BY <3>0, SetStateType, <1>StateStays, Zenon DEF RunStates
        <5>2. Stays(st, t)
          BY <5>1, <1>CovStays, <1>StaysTrans, Zenon
        <5>3. Save(t, "loop", "off")
          BY <4>2, Zenon DEF MonitorFailure, Committing
        <5> HIDE DEF t
        <5> QED  BY <5>2, <5>3, <2>SavedOrOff, Zenon DEF Stays
      <4>3. CASE Reconcile
        <5>1. PICK r \in todo : Save(NewGeneration(st, r), "adopt", "off")
          BY <4>3, Zenon DEF Reconcile
        <5>2. NewGeneration(st, r).job = st.job /\ NewGeneration(st, r).flt = st.flt
          BY <3>0, Zenon DEF NewGeneration, Journal
        <5> QED  BY <5>1, <5>2, <2>SavedOrOff, Zenon
      <4>4. CASE Adopt \/ BootQuiesce
        <5>1. disk' = disk /\ st' \in {st, Incomplete, SetState(st, run, "stopped")}
          BY <4>4, Zenon DEF Adopt, BootQuiesce
        <5>2. Stays(st, Incomplete) /\ Stays(st, SetState(st, run, "stopped"))
          BY <3>0, <1>CovStays, <1>StateStays, Zenon DEF Incomplete
        <5> QED  BY <5>1, <5>2, Zenon DEF Lands, Stays
      <4> QED  BY <4>1, <4>2, <4>3, <4>4, Zenon
    <3>2. (ret' = "boot" => ret = "boot") /\ pc # "off"
      BY ZenonT(30) DEF FailureNoted, M5Sample, M5Caught, Renew, MonitorFailure,
          RunReconciled, BootDone,
             Reconcile, Adopt, BootQuiesce, Committing, frame
    <3>3. FaultAt'
      <4>1. CASE FailureNoted
        <5>1. /\ pc = "m5note" /\ UNCHANGED <<ret, ftodo>> /\ pc' \in {"flt", "m5", "m5err", "off", "catch"}
              /\ pc' = "flt" => st' = st /\ ret = "boot"
          BY <4>1, CommittingParts, Zenon DEF FailureNoted, M5Error, Committing, Save
        <5> QED  BY <5>1, Zenon DEF LanesInv, FaultAt, FaultWait, RaisePlaces, BootWait
      <4>2. ASSUME \/ M5Sample \/ M5Caught \/ Renew \/ MonitorFailure \/ RunReconciled \/ BootDone
                   \/ Reconcile \/ Adopt \/ BootQuiesce
            PROVE  pc' \notin AnyFaultPlace
        BY <4>2, Zenon
           DEF M5Sample, M5Caught, Renew, MonitorFailure, RunReconciled, BootDone,
               Reconcile, Adopt,
               BootQuiesce, Committing, Save, M5Continue, M5Error, AnyFaultPlace, FaultWait, RaisePlaces
      <4> QED  BY <4>1, <4>2, ZenonT(30) DEF FaultAt, AnyFaultPlace, FaultWait,
          RaisePlaces, BootWait
    <3> QED  BY <3>1, <3>2, <3>3, <2>LaneSame, Zenon
  <2>LaneByCall.
      ASSUME TypeInv, LanesInv,
             \/ JobCallStep \/ Expire \/ FailureQuiesce \/ MonitorQuiesce \/ WorkerExits \/ Idle
             \/ RunsReconciled
      PROVE  LanesInv'
    <3> USE <2>LaneByCall
    <3>1. UNCHANGED <<st, disk>> /\ pc # "off"
      <4>1. CASE JobCallStep
        BY <4>1, JobCallKeeps, Zenon DEF JobPlaces
      <4>2. CASE Expire \/ FailureQuiesce \/ MonitorQuiesce \/ WorkerExits \/ Idle \/ RunsReconciled
        BY <4>2, Zenon DEF Expire, FailureQuiesce, MonitorQuiesce, WorkerExits, Idle,
            RunsReconciled, journal
      <4> QED  BY <4>1, <4>2, Zenon
    <3>2. ret' = "boot" => ret = "boot"
      <4>1. ASSUME JobCallStep PROVE ret' = ret \/ ret' = "after"
        BY <4>1, ZenonT(30) DEF JobCallStep, CatchQuiesce, Observe, Preflight, Prepare,
            StopOld, PlanCall, Calling,
                    Arm, Activate, Status, Release, Recheck, StopQuiesce, Hold, ClearFault, CloseCaptures,
                    RemoveResource, FaultEffect, FaultVerdict, FaultUndo, frame
      <4>2. CASE Expire \/ FailureQuiesce \/ MonitorQuiesce \/ WorkerExits \/ Idle \/ RunsReconciled
        BY <4>2, Zenon DEF Expire, FailureQuiesce, MonitorQuiesce, WorkerExits, Idle,
            RunsReconciled, frame
      <4> QED  BY <4>1, <4>2, Zenon
    <3>3. FaultAt'
      <4>1. CASE FaultEffect \/ FaultVerdict
        <5>1. /\ pc \in RaisePlaces /\ UNCHANGED <<tgt, job>>
              /\ pc' \in {"verdict", "settle", "undo", "catch"}
              /\ pc' = "verdict" => This.op = "fault.apply"
          BY <4>1, Zenon DEF FaultEffect, FaultVerdict, RaisePlaces, frame
        <5>2. This' = This
          BY <3>1, <5>1, Zenon DEF This
        <5> QED  BY <3>1, <5>1, <5>2, ZenonT(30) DEF LanesInv, FaultAt, FaultWait,
            RaisePlaces, BootWait
      <4>2. CASE Expire
        BY <3>1, <4>2, ZenonT(30) DEF Expire, frame, LanesInv, FaultAt, FaultWait,
            RaisePlaces, BootWait, LiveIn,
                          TypeInv, FrameAt, BootPlaces
      <4>3. CASE FailureQuiesce
        BY <3>1, <4>3, ZenonT(30) DEF FailureQuiesce, frame, LanesInv, FaultAt,
            FaultWait, RaisePlaces, BootWait
      <4>4. CASE RunsReconciled
        <5>1. ftodo' = {f \in Faults : Unfinished(f)} /\ pc' = "flt"
          BY <4>4, Zenon DEF RunsReconciled
        <5>2. \A f \in ftodo' : Live(st'.flt[f])
          BY <3>1, <5>1, Zenon DEF Unfinished
        <5> QED  BY <5>1, <5>2, Zenon DEF FaultAt, FaultWait, RaisePlaces
      <4>5. ASSUME \/ CatchQuiesce \/ Observe \/ Preflight \/ Prepare \/ StopOld \/ PlanCall \/ Arm
                   \/ Activate \/ Status \/ Release \/ Recheck
            PROVE  pc' \notin AnyFaultPlace
        BY <4>5, ZenonT(30) DEF CatchQuiesce, Observe, Preflight, Prepare, StopOld,
            PlanCall, Calling, Arm, Activate,
                    AfterActivate, Checked, Status, Release, Recheck, AnyFaultPlace, FaultWait, RaisePlaces
      <4>6. ASSUME \/ StopQuiesce \/ Hold \/ ClearFault \/ CloseCaptures \/ RemoveResource \/ FaultUndo
                   \/ MonitorQuiesce \/ WorkerExits \/ Idle
            PROVE  pc' \notin AnyFaultPlace
        BY <4>6, ZenonT(30) DEF StopQuiesce, Hold, ClearFault, CloseCaptures,
            AfterClose,
            RemoveResource, FaultUndo,
                    MonitorQuiesce, WorkerExits, Idle, AnyFaultPlace, FaultWait, RaisePlaces
      <4>7. CASE pc' \notin AnyFaultPlace
        BY <4>7, Zenon DEF FaultAt, AnyFaultPlace, FaultWait, RaisePlaces, BootWait
      <4> QED  BY <4>1, <4>2, <4>3, <4>4, <4>5, <4>6, <4>7, Zenon DEF JobCallStep
    <3>4. Lands(st)
      BY <3>1, Zenon DEF Lands
    <3> QED  BY <3>1, <3>2, <3>3, <3>4, <2>LaneSame, Zenon
  <2>LaneByTake. ASSUME TypeInv, JobInv, LanesInv, TakeJob
                 PROVE  LanesInv'
    <3> USE <2>LaneByTake
    <3>1. PICK j \in JobIds :
            /\ st.job[j].is = "queued" /\ job' = j /\ tgt' = st.job[j].flt /\ ret' = "before"
            /\ Save(SetJob(st, j, "running"), Entry(st.job[j].op), "off")
      BY Zenon DEF TakeJob
    <3>2. PICK new : new = SetJob(st, j, "running")
      OBVIOUS
    <3>3. Ends(st, new, j, "running") /\ new.flt = st.flt
      BY <3>2, <1>JobEnded, ZenonT(30) DEF TypeInv, TypeOK
    <3>4. Lands(new) /\ (st' = new \/ pc' = "off") /\ pc' \in {Entry(st.job[j].op), "off"}
      BY <3>1, <3>2, <2>SavedOrOff, <1>SaveLands, ZenonT(30)
    <3>5. Disjoint'
      BY <3>3, <3>4, <2>DisjointKept, ZenonT(30) DEF LanesInv, LiveIn
    <3>6. QueueInv'
      <4>1. \A i \in JobIds : new.job[i].is # "queued"
        BY <3>1, <3>3, Zenon DEF JobInv, AtMostOne, Pending, Ends
      <4> QED  BY <3>4, <4>1, Zenon DEF QueueInv, Queued
    <3>7. FaultAt'
      <4>1. CASE pc' = "fault"
        <5>1. st' = new /\ This'.op = st.job[j].op
          BY <3>1, <3>3, <3>4, <4>1, ZenonT(30) DEF This, Ends, SameOrder
        <5>2. pc = "loop" /\ Queued(j)
          BY <3>1, ZenonT(30) DEF TakeJob, Queued
        <5>3. st.job[j].op = "fault.apply" => Live(new.flt[tgt'])
          BY <3>1, <3>3, <5>2, ZenonT(30) DEF LanesInv, QueueInv, Live
        <5> QED  BY <4>1, <5>1, <5>3, ZenonT(30) DEF FaultAt, FaultWait, RaisePlaces,
            BootWait
      <4>2. CASE pc' # "fault"
        <5>1. st.job[j].op \in Operations
          BY Zenon DEF TypeInv, TypeOK, Journal, Jobs
        <5>2. pc' \notin AnyFaultPlace
          BY <3>4, <4>2, <5>1, Zenon DEF Entry, Operations, AnyFaultPlace, FaultWait,
              RaisePlaces
        <5> QED  BY <5>2, Zenon DEF FaultAt, AnyFaultPlace, FaultWait, RaisePlaces,
            BootWait
      <4> QED  BY <4>1, <4>2, Zenon
    <3> QED  BY <3>5, <3>6, <3>7, Zenon DEF LanesInv
  <2>LaneByRecover. ASSUME TypeInv, LanesInv, RecoverFault
                    PROVE  LanesInv'
    <3> USE <2>LaneByRecover
    <3>0. st \in Journal /\ st.flt \in [Faults -> FaultStates] /\ ftodo \subseteq Faults
      BY Zenon DEF TypeInv, TypeOK, Journal
    <3>1. PICK f \in ftodo :
            /\ tgt' = f /\ ftodo' = ftodo \ {f}
            /\ \/ st' = SetFault(st, f, "removed") /\ pc' = "flt"
               \/ st' = st /\ pc' = "m5fail"
      BY Zenon DEF RecoverFault
    <3>2. pc = "flt" /\ ret = "boot" /\ ret' = "boot" /\ disk' = disk
      BY Zenon DEF RecoverFault, TypeInv, FrameAt, BootPlaces
    <3>3. Moves(st, SetFault(st, f, "removed"), f, "removed")
      BY <3>0, <1>FaultMoves, Zenon
    <3>4. st'.job = st.job /\ \A x \in Faults : x # f => st'.flt[x] = st.flt[x]
      BY <3>0, <3>1, <3>3, Zenon DEF Moves
    <3>5. st'.flt[f] = "removed" \/ (st'.flt = st.flt /\ pc' = "m5fail")
      BY <3>0, <3>1, <3>3, Zenon DEF Moves
    <3>6. \A x \in ftodo : Live(st.flt[x])
      BY <3>2, ZenonT(30) DEF LanesInv, FaultAt, BootWait
    <3>7. Disjoint'
      <4>1. \A x \in Faults : LiveIn(x)' => LiveIn(x)
        BY <3>2, <3>4, <3>5, Zenon DEF LiveIn, Live
      <4> QED  BY <4>1, Zenon DEF LanesInv, Disjoint
    <3>8. QueueInv'
      BY <3>2, <3>4, Zenon DEF LanesInv, QueueInv, Queued
    <3>9. FaultAt'
      <4>1. \A x \in ftodo' : Live(st'.flt[x])
        BY <3>0, <3>1, <3>4, <3>6, Zenon
      <4>2. pc' = "m5fail" => LiveIn(tgt)'
        BY <3>1, <3>5, <3>6, Zenon DEF LiveIn
      <4> QED  BY <3>1, <3>2, <4>1, <4>2, ZenonT(30) DEF FaultAt, FaultWait,
          RaisePlaces,
          BootWait
    <3> QED  BY <3>7, <3>8, <3>9, Zenon DEF LanesInv
  <2>LaneByDispatch. TypeInv /\ DurableInv /\ JobInv /\ LanesInv /\ Dispatch => LanesInv'
    \* A request that is admitted finds memory and disk the same, and no job.
    <3>Admitted.
        ASSUME TypeInv, DurableInv, JobInv, NEW new, NEW j, NEW op, NEW r, NEW f, Accepts(new, j, op, r, f)
        PROVE  /\ st = disk /\ ~InJob(pc) /\ UNCHANGED <<pc, job, run, tgt, ret, ftodo>> /\ ret # "boot"
               /\ st' = new /\ disk' \in {new, disk} /\ \A i \in JobIds : i # j => ~Pending(new, i)
      <4> USE <3>Admitted
      <4>1. SUFFICES ~InJob(pc)
        BY Zenon DEF DurableInv, Accepts, Serving, frame, Busy, Ordered, Pending
      <4>2. SUFFICES ASSUME InJob(pc) PROVE FALSE
        OBVIOUS
      <4>3. job \in JobIds /\ st.job[job].is = "running" /\ ~stopping
        BY <4>2, ZenonT(30) DEF JobInv, JobAt, Accepts, Serving, TypeInv, FrameAt
      <4> QED  BY <4>3, Zenon DEF Accepts, Busy, Pending
    <3>LaneByAccept.
        ASSUME TypeInv, DurableInv, JobInv, LanesInv,
               NEW new, NEW j, NEW op, NEW r, NEW f, Accepts(new, j, op, r, f),
               \/ new.flt = st.flt /\ op # "fault.apply"
               \/ /\ f \in Faults /\ new.flt = [st.flt EXCEPT ![f] = "queued"] /\ st.flt[f] = "none"
                  /\ LaneFree(f)
        PROVE  LanesInv'
      <4> USE <3>LaneByAccept
      <4>1. /\ st = disk /\ ~InJob(pc) /\ UNCHANGED <<pc, job, run, tgt, ret, ftodo>> /\ ret # "boot"
            /\ st' = new /\ disk' \in {new, disk} /\ \A i \in JobIds : i # j => ~Pending(new, i)
        BY <3>Admitted, ZenonT(30)
      <4>2. st.flt \in [Faults -> FaultStates]
        BY ZenonT(30) DEF TypeInv, TypeOK, Journal
      <4>3. /\ \A x \in Faults : LiveIn(x)' => Live(st.flt[x]) \/ (x = f /\ new.flt[f] = "queued" /\ LaneFree(f))
            /\ \A x \in Faults : x # f \/ st.flt[f] # "none" => new.flt[x] = st.flt[x]
        <5>1. CASE new.flt = st.flt
          BY <4>1, <5>1, ZenonT(30) DEF LiveIn
        <5>2. CASE /\ f \in Faults /\ new.flt = [st.flt EXCEPT ![f] = "queued"] /\ st.flt[f] = "none"
                   /\ LaneFree(f)
          BY <4>1, <4>2, <5>2, ZenonT(30) DEF LiveIn
        <5> QED  BY <5>1, <5>2, ZenonT(30)
      <4>4. Disjoint'
        BY <4>3, ZenonT(30) DEF LanesInv, Disjoint, LaneFree, LiveIn
      <4>5. QueueInv'
        <5>1. op = "fault.apply" => new.flt[f] = "queued"
          BY <4>2, ZenonT(30)
        <5>2. new.job[j].op = op /\ new.job[j].flt = f
          BY ZenonT(30) DEF Accepts, Ordered
        <5>3. \A i \in JobIds : new.job[i].is = "queued" => i = j
          BY <4>1, ZenonT(30) DEF Pending
        <5> QED  BY <4>1, <5>1, <5>2, <5>3, Zenon DEF QueueInv, Queued
      <4>6. FaultAt'
        <5>1. pc \notin RaisePlaces
          BY <4>1, ZenonT(30) DEF InJob, JobPlaces, RaisePlaces
        <5>2. pc \in FaultWait => new.flt[tgt] = st.flt[tgt]
          <6>1. pc \in FaultWait => tgt \in Faults
            BY Zenon DEF TypeInv, FrameAt, FaultWait, FaultPlaces
          <6> QED  BY <4>1, <4>3, <6>1, ZenonT(30) DEF LanesInv, FaultAt
        <5> QED  BY <4>1, <5>1, <5>2, ZenonT(30) DEF LanesInv, FaultAt, FaultWait,
            LiveIn
      <4> QED  BY <4>4, <4>5, <4>6, Zenon DEF LanesInv
    <3> SUFFICES ASSUME TypeInv, DurableInv, JobInv, LanesInv, Dispatch PROVE LanesInv'
      OBVIOUS
    <3>1. ASSUME NEW k \in Keys, NEW j \in JobIds, NEW r \in Runs, Start(k, j, r)
          PROVE  LanesInv'
      BY <3>1, StartAccepted, <3>LaneByAccept, Zenon DEF RunCreated, SameThings
    <3>2. ASSUME NEW k \in Keys, NEW j \in JobIds, NEW r \in Runs,
                 NEW op \in {"stop", "resume", "destroy", "recover"}, Operate(k, j, r, op)
          PROVE  LanesInv'
      BY <3>2, OperateAccepted, <3>LaneByAccept, Zenon DEF Agree, SameThings
    <3>3. ASSUME NEW k \in Keys, NEW j \in JobIds, NEW f \in Faults, FaultRemove(k, j, f)
          PROVE  LanesInv'
      BY <3>3, RemoveAccepted, <3>LaneByAccept, Zenon DEF Agree, SameThings
    <3>4. ASSUME NEW k \in Keys, NEW j \in JobIds, NEW f \in Faults, FaultApply(k, j, f)
          PROVE  LanesInv'
      <4>1. PICK new : /\ Accepts(new, j, "fault.apply", Owner[f], f)
                       /\ new.flt = [st.flt EXCEPT ![f] = "queued"] /\ new.res = st.res
                       /\ SameRuns(st, new) /\ SameCounts(st, new)
        BY <3>4, ApplyAccepted, Zenon
      <4>2. st.flt[f] = "none" /\ LaneFree(f)
        BY <3>4, Zenon DEF FaultApply
      <4> QED  BY <4>1, <4>2, <3>LaneByAccept, ZenonT(30)
    <3>5. ASSUME NEW k \in Keys, NEW x \in Keys, Retry(k, x) PROVE LanesInv'
      <4>1. UNCHANGED <<st, disk, pc, job, tgt, ret, ftodo>>
        BY <3>5, Zenon DEF Retry, journal, frame
      <4> QED  BY <4>1, Zenon DEF LanesInv, Disjoint, LiveIn, QueueInv, Queued, FaultAt,
          This
    <3>6. ASSUME NEW j \in JobIds, Cancel(j) PROVE LanesInv'
      <4>1. /\ UNCHANGED <<pc, job, tgt, ret, ftodo>> /\ pc # "off" /\ Agree(st, st')
            /\ disk' = st' \/ disk' = disk
            /\ \A i \in JobIds : st'.job[i].is = st.job[i].is /\ SameOrder(st.job[i], st'.job[i])
        BY <3>6, CancelMarks, Zenon DEF frame
      <4>2. st'.flt = st.flt /\ ret # "boot" /\ st = disk
        BY <3>6, <4>1, Zenon DEF Agree, SameThings, Cancel, Serving, DurableInv
      <4>3. Disjoint'
        BY <4>1, <4>2, ZenonT(30) DEF LanesInv, Disjoint, LiveIn
      <4>4. QueueInv'
        BY <4>1, <4>2, ZenonT(30) DEF LanesInv, QueueInv, Queued, SameOrder
      <4>5. pc \in RaisePlaces => This'.op = This.op
        <5>1. pc \in RaisePlaces => job \in JobIds
          BY Jobbing, Zenon DEF RaisePlaces, JobPlaces
        <5> QED  BY <4>1, <5>1, ZenonT(30) DEF This, SameOrder
      <4>6. FaultAt'
        BY <4>1, <4>2, <4>5, Zenon DEF LanesInv, FaultAt, LiveIn
      <4> QED  BY <4>3, <4>4, <4>6, Zenon DEF LanesInv
    <3> QED  BY <3>1, <3>2, <3>3, <3>4, <3>5, <3>6, Zenon DEF Dispatch
  <2>LaneByEnvironment.
      ASSUME TypeInv, LanesInv, Environment \/ Boot \/ Crash \/ Exit \/ Shutdown \/ UNCHANGED vars
      PROVE  LanesInv'
    <3> USE <2>LaneByEnvironment
    <3>1. CASE Environment \/ Shutdown \/ UNCHANGED vars
      <4>1. UNCHANGED <<st, disk, pc, job, tgt, ret, ftodo>>
        BY <3>1, Zenon DEF Environment, LeaseExpires, CaptureDies, FaultDue, Shutdown,
            journal, frame, vars
      <4> QED  BY <4>1, Zenon DEF LanesInv, Disjoint, LiveIn, QueueInv, Queued, FaultAt,
          This
    <3>2. CASE Crash \/ Exit
      <4>1. st' = disk /\ disk' = disk /\ pc' = "off"
        BY <3>2, Zenon DEF Crash, Exit, Dies
      <4> QED  BY <4>1, ZenonT(30) DEF LanesInv, Disjoint, LiveIn, QueueInv, FaultAt,
          FaultWait, RaisePlaces, BootWait
    <3>3. CASE Boot
      <4>1. PICK new : new = Interrupted(disk)
        OBVIOUS
      <4>2. new.flt = disk.flt /\ \A j \in JobIds : ~Pending(new, j)
        <5>1. disk \in Journal
          BY Zenon DEF TypeInv, TypeOK
        <5> QED  BY <4>1, <5>1, InterruptedClears, ZenonT(30) DEF SameThings
      <4>3. Save(new, "recover", "off")
        BY <3>3, <4>1, ZenonT(30) DEF Boot
      <4>4. st' \in {new, disk} /\ disk' = st' /\ pc' \in {"recover", "off"} /\ (pc' # "off" => st' = new)
        BY <4>3, Zenon DEF Save
      <4>5. Disjoint'
        BY <4>2, <4>4, ZenonT(30) DEF LanesInv, Disjoint, LiveIn
      <4>6. QueueInv' /\ FaultAt'
        BY <4>2, <4>4, Zenon DEF QueueInv, Queued, Pending, FaultAt, FaultWait,
            RaisePlaces, BootWait
      <4> QED  BY <4>5, <4>6, Zenon DEF LanesInv
    <3> QED  BY <3>1, <3>2, <3>3, Zenon
  <2> SUFFICES ASSUME TypeInv, DurableInv, JobInv, LanesInv, [Next]_vars PROVE LanesInv'
    OBVIOUS
  <2>1. CASE WorkerStep
    BY <2>1, <2>LaneByCommit, <2>LaneByFault, <2>LaneByM5, <2>LaneByNote,
        <2>LaneByCall, <2>LaneByTake,
        <2>LaneByRecover, Zenon
       DEF WorkerStep, JobStep, FaultStep, MonitorStep, BootStep, RunCommit, JobCallStep
  <2> QED  BY <2>1, <2>LaneByDispatch, <2>LaneByEnvironment, Zenon DEF Next
<1> SUFFICES ASSUME EngineInv, LedgerInv, [Next]_vars PROVE EngineInv' /\ LedgerInv'
  OBVIOUS
<1> QED  BY NextInv, <1>NextJob, <1>NextCount, <1>NextLanes, Zenon DEF EngineInv,
    LedgerInv

\* What the worker, the requests and the constructor all rely on: one job at a
\* time, counters that only grow, and lanes that faults do not share.
THEOREM LedgerKept == Spec => [](EngineInv /\ LedgerInv)
BY InitInv, InitLedger, NextLedger, PTL DEF Spec

\* No capture worker obeys a controller generation that is not on disk: the
\* constructor saves a new one before it adopts the workers under it.
THEOREM GenerationsDurable == Spec => []GenerationIsDurable
BY LedgerKept, LedgerImplies, PTL DEF EngineInv

\* Whatever failed or crashed before, arm meets no capture directory of its own
\* epoch: the epoch is bumped and saved before anything is launched in it.
THEOREM EpochsFresh == Spec => []EpochIsFresh
BY LedgerKept, LedgerImplies, PTL DEF EngineInv

\* No two live faults of the committed journal share an edge direction.
THEOREM LanesExclusive == Spec => []LaneIsExclusive
BY LedgerKept, LedgerImplies, PTL DEF EngineInv

=============================================================================
