--------------------------- MODULE FaultControl ---------------------------
(***************************************************************************)
(* The life of a link fault: m5_execute carries out fault.apply and        *)
(* fault.remove, m5_monitor removes what has expired, m5_fault_failure     *)
(* records a removal that failed.                                          *)
(***************************************************************************)
EXTENDS Execution

(***************************************************************************)
(* m5_execute                                                              *)
(***************************************************************************)
FaultBegin ==
  /\ pc = "fault"
  /\ \/ /\ This.op = "fault.apply" /\ This.cancel
        /\ Committing(SetJob(SetFault(st, tgt, "cancelled"), job, "cancelled"), "loop", "catch")
     \/ /\ This.op = "fault.remove" /\ ~Live(st.flt[tgt])
        /\ Committing(SetJob(st, job, "succeeded"), "loop", "catch")
     \/ /\ This.op = "fault.apply" /\ ~This.cancel
        /\ Committing(SetFault(st, tgt, "applying"), "effect", "catch")
     \/ /\ This.op = "fault.remove" /\ Live(st.flt[tgt])
        /\ Committing(SetFault(st, tgt, "removing"), "effect", "catch")

FaultEffect ==
  /\ pc = "effect"
  /\ IF This.op = "fault.apply"
     THEN \/ PutQdisc(tgt) /\ pc' = "verdict"
          \/ PutThrows(tgt) /\ pc' = "catch"
     ELSE \/ DropQdisc(tgt) /\ pc' = "settle"
          \/ DropThrows(tgt) /\ pc' = "catch"
  /\ UNCHANGED <<journal, frame, ext, open, captures, due, acked>>

\* The flag is read, and the mutex given up, before the outcome is recorded.
FaultVerdict ==
  /\ pc = "verdict"
  /\ pc' = (IF This.cancel THEN "undo" ELSE "settle")
  /\ UNCHANGED <<journal, frame, world, due, acked, left>>
FaultUndo ==
  /\ pc = "undo"
  /\ \/ DropQdisc(tgt) /\ pc' = "undone"
     \/ DropThrows(tgt) /\ pc' = "catch"
  /\ UNCHANGED <<journal, frame, ext, open, captures, due, acked>>
FaultUndone ==
  /\ pc = "undone"
  /\ Committing(SetJob(SetFault(st, tgt, "cancelled"), job, "cancelled"), "loop", "catch")
FaultSettle ==
  /\ pc = "settle"
  /\ LET v == IF This.op = "fault.apply" THEN "active" ELSE "removed"
     IN Committing(SetJob(SetFault(st, tgt, v), job, "succeeded"), "loop", "catch")

(***************************************************************************)
(* m5_monitor, called by monitor() and twice by resume.  An exception      *)
(* reaches monitor()'s catch, or fails the job.                            *)
(***************************************************************************)
M5Error == CASE ret = "monitor" -> "m5err" [] ret = "boot" -> "off" [] OTHER -> "catch"
M5Continue == IF ret = "monitor" THEN "renew" ELSE "recheck"
OverdueIfReady(f) == f \in due /\ st.flt[f] = "active" /\ st.state[Owner[f]] = "ready"
Overdue(f) == f \in due /\ st.flt[f] = "active" /\ st.state[Owner[f]] # "destroyed"

M5Expiring ==
  /\ pc = "m5"
  /\ \E f \in Faults :
       /\ Overdue(f)
       /\ tgt' = f
       /\ Save(SetFault(st, f, "removing"), "expire", M5Error)
  /\ UNCHANGED <<job, run, slot, ret, was, todo, ftodo, world, due, acked>>
\* No fault is overdue: sample the telemetry of a ready or stopped run, which
\* ends in a commit unless the run's observation profile is minimal.
M5Sample ==
  /\ pc = "m5"
  /\ ~\E f \in Faults : Overdue(f)
  /\ \/ pc' = M5Continue /\ UNCHANGED <<journal, left>>
     \/ /\ \E r \in Runs : st.state[r] \in {"ready", "stopped"}
        /\ Save(st, M5Continue, M5Error)
  /\ UNCHANGED <<frame, world, due, acked>>

Expire ==
  /\ pc = "expire"
  /\ \/ DropQdisc(tgt) /\ pc' = "expired"
     \/ DropThrows(tgt) /\ pc' = "m5fail"
  /\ UNCHANGED <<journal, frame, ext, open, captures, due, acked>>
\* The commit that records the removal is inside the try as well.
Expired ==
  /\ pc = "expired"
  /\ Committing(Bump(SetFault(st, tgt, "removed"), Owner[tgt]), "m5", "m5fail")

\* m5_fault_failure, called by m5_monitor and by m5_recover
RecoveryRequired(s, f) ==
  Bump(SetState(SetFault(s, f, "recovery-required"), Owner[f], "reconciling"), Owner[f])
FaultFailure ==
  /\ pc = "m5fail"
  /\ Committing(RecoveryRequired(st, tgt), "m5hold", M5Error)
FailureQuiesce ==
  /\ pc = "m5hold"
  /\ QuiesceAttempt(Owner[tgt])
  /\ pc' = "m5note"
  /\ UNCHANGED <<journal, frame, ext, captures, qdisc, due, acked>>
FailureNoted ==
  /\ pc = "m5note"
  /\ Committing(st, IF ret = "boot" THEN "flt" ELSE "m5", M5Error)

(***************************************************************************)
(* monitor(), when no job is queued: faults, then capture health, then the *)
(* traffic lease of the run that is ready.                                 *)
(***************************************************************************)
Idle ==
  /\ pc = "loop" /\ ~stopping
  /\ ~\E j \in JobIds : st.job[j].is = "queued"
  /\ pc' = "m5"
  /\ job' = 0 /\ run' = NoRun /\ tgt' = NoFault /\ ret' = "monitor"
  /\ UNCHANGED <<journal, slot, was, todo, ftodo, world, due, acked, left>>
M5Caught == pc = "m5err" /\ Committing(st, "renew", "off")
ReadyRuns == {r \in Recording : st.state[r] = "ready"}
HealthyByLease(r) == Renewable(r)
Healthy(r) == CapturesActive(r) /\ Renewable(r)
Renew ==
  /\ pc = "renew"
  /\ \/ /\ ReadyRuns = {}
        /\ pc' = "loop" /\ UNCHANGED <<journal, run, left>>
     \/ \E r \in ReadyRuns :
          /\ run' = r
          /\ \/ Healthy(r) /\ Save(st, "loop", "mcatch")
             \/ Throws(~Healthy(r)) /\ pc' = "mcatch" /\ UNCHANGED journal
  /\ UNCHANGED <<job, tgt, slot, ret, was, todo, ftodo, world, due, acked>>
MonitorQuiesce ==
  /\ pc = "mcatch"
  /\ QuiesceAttempt(run)
  /\ pc' = "mfail"
  /\ UNCHANGED <<journal, frame, ext, captures, qdisc, due, acked>>
MonitorFailure ==
  /\ pc = "mfail"
  /\ Committing(SetCov(SetState(st, run, "reconciling"), run, "incomplete"), "loop", "off")
=============================================================================
