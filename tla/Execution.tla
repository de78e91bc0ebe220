----------------------------- MODULE Execution -----------------------------
(***************************************************************************)
(* Engine::work and Engine::execute: the worker thread takes one queued    *)
(* job and carries it out.  One step is one backend call, made outside the *)
(* mutex, or one mutation and its commit, made inside.                     *)
(***************************************************************************)
EXTENDS Admission

This == st.job[job]
Absent(s, r) == {i \in Slots : s.res[r][i] = "absent"}
Kept(s, r) == {i \in Slots : Journaled(s.res[r][i])}

\* A commit of the worker: only the journal and the worker's place move.
Committing(new, next, handler) ==
  /\ Save(new, next, handler)
  /\ UNCHANGED <<frame, world, due, acked>>

\* A backend call that leaves the host as it is: it returns or it throws.
Calling(next) ==
  /\ \/ pc' = next /\ UNCHANGED left
     \/ pc' = "catch" /\ Spend("fail")
  /\ UNCHANGED <<journal, frame, world, due, acked>>

\* cancelled(): a stopping agent throws, a cancelled start compensates.
Checked(next) == IF stopping THEN "catch" ELSE IF This.cancel THEN "compensate" ELSE next

(***************************************************************************)
(* work()                                                                  *)
(***************************************************************************)
Entry(op) == CASE op = "start" -> "preflight"
               [] op = "stop" -> "quiesce"
               [] op = "resume" -> "m5"
               [] op \in {"destroy", "recover"} -> "destroy"
               [] op \in {"fault.apply", "fault.remove"} -> "fault"

TakeJob ==
  /\ pc = "loop" /\ ~stopping
  /\ \E j \in JobIds :
       /\ st.job[j].is = "queued"
       /\ job' = j /\ run' = st.job[j].run /\ tgt' = st.job[j].flt
       /\ ret' = "before"
       /\ Save(SetJob(st, j, "running"), Entry(st.job[j].op), "off")
  /\ UNCHANGED <<slot, was, todo, ftodo, world, due, acked>>

WorkerExits ==
  /\ pc = "loop" /\ stopping
  /\ pc' = "exited"
  /\ UNCHANGED <<journal, frame, world, due, acked, left>>

\* The catch of work(): hold the gates if they can be held, then record it.
CatchQuiesce ==
  /\ pc = "catch"
  /\ QuiesceAttempt(run)
  /\ pc' = "failed"
  /\ UNCHANGED <<journal, frame, ext, captures, qdisc, due, acked>>
Failed(s, r) ==
  LET t == SetState(s, r, "reconciling")
  IN IF r \in Recording THEN SetCov(t, r, "incomplete") ELSE t
RecordFailureUnfinished ==
  /\ pc = "failed"
  /\ Committing(Failed(st, run), "loop", "off")
RecordFailure ==
  /\ pc = "failed"
  /\ Committing(Failed(SetJob(st, job, "failed"), run), "loop", "off")

(***************************************************************************)
(* start: reserve, then create the resources one by one, intent first.     *)
(***************************************************************************)
Preflight ==
  /\ pc = "preflight"
  /\ \/ HostFree /\ pc' = "next" /\ UNCHANGED left
     \/ pc' = "catch" /\ Throws(~HostFree)
  /\ UNCHANGED <<journal, frame, world, due, acked>>

AfterResourcesUnarmed == "converge"
AfterResources == IF run \in Recording THEN "stopold" ELSE "converge"
NextResourceUnsaved ==
  /\ pc = "next"
  /\ \/ /\ ~stopping /\ ~This.cancel
        /\ \E i \in Absent(st, run) :
             /\ \A n \in Absent(st, run) : i <= n
             /\ slot' = i
             /\ st' = SetRes(st, run, i, "intent") /\ pc' = "prepare"
             /\ UNCHANGED <<disk, stopping, left>>
     \/ /\ stopping \/ This.cancel \/ Absent(st, run) = {}
        /\ pc' = Checked(AfterResources)
        /\ UNCHANGED <<journal, slot, left>>
  /\ UNCHANGED <<job, run, tgt, ret, was, todo, ftodo, world, due, acked>>
NextResource ==
  /\ pc = "next"
  /\ \/ /\ ~stopping /\ ~This.cancel
        /\ \E i \in Absent(st, run) :
             /\ \A n \in Absent(st, run) : i <= n
             /\ slot' = i
             /\ Save(SetRes(st, run, i, "intent"), "prepare", "catch")
     \/ /\ stopping \/ This.cancel \/ Absent(st, run) = {}
        /\ pc' = Checked(AfterResources)
        /\ UNCHANGED <<journal, slot, left>>
  /\ UNCHANGED <<job, run, tgt, ret, was, todo, ftodo, world, due, acked>>

Prepare ==
  /\ pc = "prepare"
  /\ \/ Created(run, slot) /\ pc' = "prepared"
     \/ CreateThrows(run, slot) /\ pc' = "catch"
  /\ UNCHANGED <<journal, frame, open, captures, qdisc, due, acked>>
Prepared ==
  /\ pc = "prepared"
  /\ Committing(SetRes(st, run, slot, "prepared"), "next", "catch")

(***************************************************************************)
(* arm: close the previous epoch, open the next, journal the capture plan, *)
(* launch its workers.                                                     *)
(***************************************************************************)
StopOld ==
  /\ pc = "stopold"
  /\ \/ StopCaptures(run) /\ pc' = "epoch"
     \/ StopThrows(run) /\ pc' = "catch"
  /\ UNCHANGED <<journal, frame, ext, open, qdisc, due, acked>>
NewEpochReused(s, r) == [s EXCEPT !.planned[r] = FALSE]
NewEpoch(s, r) == [s EXCEPT !.epoch[r] = @ + 1, !.planned[r] = FALSE]
Epoch == pc = "epoch" /\ Committing(NewEpoch(st, run), "plan", "catch")
PlanCall == pc = "plan" /\ Calling("planned")
PlanCaptures ==
  /\ pc = "planned"
  /\ Committing([st EXCEPT !.planned[run] = TRUE], "arm", "catch")
Arm ==
  /\ pc = "arm"
  /\ \/ ArmCaptures(run) /\ pc' = "armed"
     \/ ArmThrows(run) /\ pc' = "catch"
  /\ UNCHANGED <<journal, frame, ext, open, qdisc, due, acked>>
Armed ==
  /\ pc = "armed"
  /\ Committing(SetCov(SetState(st, run, "armed"), run, "armed"),
                IF This.op = "start" THEN "converge" ELSE "activate", "catch")

(***************************************************************************)
(* start and resume: activate the links, recheck the workers, open gates.  *)
(***************************************************************************)
Converge == pc = "converge" /\ Committing(SetState(st, run, "converging"), "activate", "catch")
AfterActivate == IF run \in Recording THEN "status" ELSE IF This.op = "start" THEN "release" ELSE "m5"
Activate ==
  /\ pc = "activate"
  /\ ret' = "after"
  /\ \/ /\ pc' = (IF This.op = "start" THEN Checked(AfterActivate) ELSE AfterActivate)
        /\ UNCHANGED left
     \/ pc' = "catch" /\ Spend("fail")
  /\ UNCHANGED <<journal, job, run, tgt, slot, was, todo, ftodo, world, due, acked>>
Status ==
  /\ pc = "status"
  /\ \/ /\ CapturesActive(run)
        /\ pc' = (IF This.op = "start" THEN "release" ELSE "m5")
        /\ UNCHANGED left
     \/ pc' = "catch" /\ Throws(~CapturesActive(run))
  /\ UNCHANGED <<journal, frame, world, due, acked>>
Release ==
  /\ pc = "release"
  /\ \/ Released(run) /\ pc' = "ready"
     \/ ReleaseThrows(run) /\ pc' = "catch"
  /\ UNCHANGED <<journal, frame, ext, captures, qdisc, due, acked>>
Ready ==
  /\ pc = "ready"
  /\ IF This.op = "start" /\ Checked("ready") # "ready"
     THEN pc' = Checked("ready") /\ UNCHANGED <<journal, frame, world, due, acked, left>>
     ELSE Committing(SetState(st, run, "ready"), "observe", "catch")

\* resume rechecks the run after each look at the faults.
Recheck ==
  /\ pc = "recheck"
  /\ pc' = (IF ret = "before"
            THEN IF st.state[run] # "stopped" THEN "catch"
                 ELSE IF run \in Recording THEN "stopold" ELSE "activate"
            ELSE IF st.state[run] = "reconciling" THEN "catch" ELSE "release")
  /\ UNCHANGED <<journal, frame, world, due, acked, left>>

(***************************************************************************)
(* stop                                                                    *)
(***************************************************************************)
StopQuiesceUnchecked ==
  /\ pc = "quiesce"
  /\ QuiesceAttempt(run)
  /\ pc' = (IF run \in Recording THEN "close" ELSE "stopped")
  /\ UNCHANGED <<journal, frame, ext, captures, qdisc, due, acked>>
StopQuiesce ==
  /\ pc = "quiesce"
  /\ \/ Quiesced(run) /\ pc' = (IF run \in Recording THEN "close" ELSE "stopped")
     \/ QuiesceThrows(run) /\ pc' = "catch"
  /\ UNCHANGED <<journal, frame, ext, captures, qdisc, due, acked>>
Stopped == pc = "stopped" /\ Committing(SetState(st, run, "stopped"), "observe", "catch")

(***************************************************************************)
(* destroy, recover, and the compensation of a cancelled start: hold the   *)
(* gates if possible, then clear faults, close captures, remove resources. *)
(***************************************************************************)
Destroy == pc = "destroy" /\ Committing(SetState(st, run, "destroying"), "hold", "catch")
Compensate == pc = "compensate" /\ Committing(SetState(st, run, "compensating"), "hold", "catch")
HoldSkippingFaults ==
  /\ pc = "hold"
  /\ QuiesceAttempt(run)
  /\ pc' = "close"
  /\ UNCHANGED <<journal, frame, ext, captures, qdisc, due, acked>>
Hold ==
  /\ pc = "hold"
  /\ QuiesceAttempt(run)
  /\ pc' = "clear"
  /\ UNCHANGED <<journal, frame, ext, captures, qdisc, due, acked>>
LiveFaults(s, r) == {f \in Faults : Owner[f] = r /\ Live(s.flt[f])}
ClearFault ==
  /\ pc = "clear"
  /\ \/ /\ LiveFaults(st, run) = {}
        /\ pc' = "close" /\ UNCHANGED <<tgt, qdisc, left>>
     \/ \E f \in LiveFaults(st, run) :
          /\ tgt' = f
          /\ \/ DropQdisc(f) /\ pc' = "cleared"
             \/ DropThrows(f) /\ pc' = "catch"
  /\ UNCHANGED <<journal, job, run, slot, ret, was, todo, ftodo, ext, open, captures, due, acked>>
FaultCleared ==
  pc = "cleared" /\ Committing(SetFault(st, tgt, "removed"), "clear", "catch")
AfterClose == IF This.op = "stop" THEN "stopped" ELSE "remove"
CloseCaptures ==
  /\ pc = "close"
  /\ \/ run \in Recording /\ StopCaptures(run) /\ pc' = "closed"
     \/ run \in Recording /\ StopThrows(run) /\ pc' = "catch"
     \/ run \notin Recording /\ pc' = AfterClose /\ UNCHANGED <<captures, left>>
  /\ UNCHANGED <<journal, frame, ext, open, qdisc, due, acked>>
ClosedCoverageBlind(s, r) ==
  IF s.cov[r] \in {"incomplete", "closed-incomplete"} THEN "closed-incomplete" ELSE "closed"
ClosedCoverage(s, r) ==
  IF s.cov[r] \in {"incomplete", "closed-incomplete"} \/ Gap(r) THEN "closed-incomplete" ELSE "closed"
RecordClosed ==
  pc = "closed" /\ Committing(SetCov(st, run, ClosedCoverage(st, run)), AfterClose, "catch")
RemoveResource ==
  /\ pc = "remove"
  /\ \/ /\ Kept(st, run) = {}
        /\ pc' = "destroyed" /\ UNCHANGED <<slot, ext, open, left>>
     \/ \E i \in Kept(st, run) :
          /\ \A n \in Kept(st, run) : n <= i
          /\ slot' = i
          /\ \/ Removed(run, i) /\ pc' = "removed"
             \/ RemoveThrows(run, i) /\ pc' = "catch"
  /\ UNCHANGED <<journal, job, run, tgt, ret, was, todo, ftodo, captures, qdisc, due, acked>>
ResourceRemoved ==
  pc = "removed" /\ Committing(SetRes(st, run, slot, "removed"), "remove", "catch")
Destroyed ==
  /\ pc = "destroyed"
  /\ Committing(SetState(st, run, "destroyed"),
                IF This.op = "start" THEN "cancelled" ELSE "observe", "catch")
StartCancelled == pc = "cancelled" /\ Committing(SetJob(st, job, "cancelled"), "loop", "catch")

(***************************************************************************)
(* The end of execute(): observe the run, settle its coverage, finish.     *)
(***************************************************************************)
FinalCoverageForgetful(s, r) == IF s.state[r] = "ready" THEN "recording" ELSE "closed"
FinalCoverage(s, r) ==
  IF s.state[r] = "ready" THEN "recording"
  ELSE IF s.cov[r] = "closed-incomplete" THEN "closed-incomplete" ELSE "closed"
\* observe() throws only for a guest it cannot reach.
Observe ==
  /\ pc = "observe"
  /\ \/ pc' = "finish" /\ UNCHANGED left
     \/ /\ run \in Recording /\ st.state[run] # "destroyed"
        /\ pc' = "catch" /\ Spend("fail")
  /\ UNCHANGED <<journal, frame, world, due, acked>>
Finish ==
  /\ pc = "finish"
  /\ LET s == IF run \in Recording THEN SetCov(st, run, FinalCoverage(st, run)) ELSE st
     IN Committing(SetJob(s, job, "succeeded"), "loop", "catch")
=============================================================================
