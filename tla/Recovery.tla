------------------------------ MODULE Recovery ------------------------------
(***************************************************************************)
(* The constructor of Engine: load the journal, close what the previous    *)
(* process left pending, take over the captures and hold the traffic of    *)
(* each run, then recover the faults.  An exception that escapes ends the  *)
(* process, as does a crash.                                               *)
(***************************************************************************)
EXTENDS FaultControl

\* Pending jobs fail with agent_interrupted and their runs are reconciling.
Interrupted(s) ==
  [s EXCEPT
     !.job = [j \in JobIds |-> IF Pending(s, j) THEN [s.job[j] EXCEPT !.is = "failed"] ELSE s.job[j]],
     !.state = [r \in Runs |-> IF \E j \in JobIds : Pending(s, j) /\ s.job[j].run = r
                               THEN "reconciling" ELSE s.state[r]]]

Boot ==
  /\ pc = "off"
  /\ Save(Interrupted(disk), "recover", "off")
  /\ todo' = {r \in Recording : Interrupted(disk).state[r] \notin {"absent", "destroyed"}}
  /\ job' = 0 /\ run' = NoRun /\ tgt' = NoFault /\ slot' = 0
  /\ ret' = "boot" /\ was' = FALSE /\ ftodo' = {}
  /\ UNCHANGED <<world, due, acked>>

\* captureCoverage starts with "closed"
Closed(s, r) == s.cov[r] \in {"closed", "closed-incomplete"}
NewGeneration(s, r) ==
  [s EXCEPT !.gen[r] = @ + 1, !.state[r] = "reconciling",
            !.cov[r] = IF Closed(s, r) \/ @ = "incomplete" THEN @ ELSE "interrupted-controller"]

\* The new generation is durable before any worker is told of it.
ReconcileUnsaved ==
  /\ pc = "recover"
  /\ \E r \in todo :
       /\ run' = r /\ todo' = todo \ {r} /\ was' = (st.state[r] = "stopped")
       /\ st' = NewGeneration(st, r) /\ pc' = "adopt"
  /\ UNCHANGED <<disk, stopping, job, tgt, slot, ret, ftodo, world, due, acked, left>>
Reconcile ==
  /\ pc = "recover"
  /\ \E r \in todo :
       /\ run' = r /\ todo' = todo \ {r} /\ was' = (st.state[r] = "stopped")
       /\ Save(NewGeneration(st, r), "adopt", "off")
  /\ UNCHANGED <<job, tgt, slot, ret, ftodo, world, due, acked>>

Incomplete == SetCov(st, run, "incomplete")
Adopt ==
  /\ pc = "adopt"
  /\ \/ /\ Closed(st, run)
        /\ pc' = "bquiesce" /\ UNCHANGED <<st, wgen, left>>
     \/ /\ ~Closed(st, run) /\ Adoptable(run)
        /\ Adopted(run, {w[2] : w \in Planned(st, run)})
        /\ pc' = "bquiesce" /\ UNCHANGED <<st, left>>
     \/ /\ ~Closed(st, run) /\ Planned(st, run) # {}
        /\ Throws(~Adoptable(run))
        /\ \E D \in SUBSET (Planned(st, run) \cap running) : Adopted(run, {w[2] : w \in D})
        /\ st' = Incomplete /\ pc' = "adopted"
  /\ UNCHANGED <<disk, stopping, frame, ext, open, dirs, conf, running, sealed, qdisc, due, acked>>
BootQuiesce ==
  /\ pc = "bquiesce"
  /\ \/ /\ Quiesced(run)
        /\ st' = IF was /\ Closed(st, run) THEN SetState(st, run, "stopped") ELSE st
     \/ QuiesceThrows(run) /\ st' = Incomplete
  /\ pc' = "adopted"
  /\ UNCHANGED <<disk, stopping, frame, ext, captures, qdisc, due, acked>>
RunReconciled == pc = "adopted" /\ Committing(st, "recover", "off")

(***************************************************************************)
(* m5_recover: a live fault that is not an unexpired active one is removed *)
(* from the kernel; one commit at the end records every removal.           *)
(***************************************************************************)
Unfinished(f) ==
  /\ st.state[Owner[f]] # "destroyed" /\ Live(st.flt[f])
  /\ st.flt[f] # "active" \/ f \in due
RunsReconciled ==
  /\ pc = "recover" /\ todo = {}
  /\ pc' = "flt" /\ ftodo' = {f \in Faults : Unfinished(f)}
  /\ UNCHANGED <<journal, job, run, tgt, slot, ret, was, todo, world, due, acked, left>>
RecoverFault ==
  /\ pc = "flt"
  /\ \E f \in ftodo :
       /\ tgt' = f /\ ftodo' = ftodo \ {f}
       /\ \/ DropQdisc(f) /\ st' = SetFault(st, f, "removed") /\ pc' = "flt"
          \/ DropThrows(f) /\ pc' = "m5fail" /\ UNCHANGED st
  /\ UNCHANGED <<disk, stopping, job, run, slot, ret, was, todo, ext, open, captures, due, acked>>
BootDone ==
  /\ pc = "flt" /\ ftodo = {}
  /\ ret' = "monitor"
  /\ Save(st, "loop", "off")
  /\ UNCHANGED <<job, run, tgt, slot, was, todo, ftodo, world, due, acked>>

(***************************************************************************)
(* The process ends: memory is lost, the host and the journal file stay.   *)
(***************************************************************************)
Dies ==
  /\ pc' = "off" /\ st' = disk /\ stopping' = FALSE
  /\ job' = 0 /\ run' = NoRun /\ tgt' = NoFault /\ slot' = 0
  /\ ret' = "boot" /\ was' = FALSE /\ todo' = {} /\ ftodo' = {}
  /\ UNCHANGED <<disk, world, due, acked>>
Crash == pc # "off" /\ Spend("crash") /\ Dies
Exit == pc = "exited" /\ Dies /\ UNCHANGED left
\* The destructor asks the worker to stop and waits for it.
Shutdown ==
  /\ pc # "off" /\ ret # "boot" /\ ~stopping
  /\ Spend("crash")
  /\ stopping' = TRUE
  /\ UNCHANGED <<st, disk, pc, frame, world, due, acked>>

(***************************************************************************)
(* The environment.                                                        *)
(***************************************************************************)
\* A node whose traffic lease ran out closes its own gate.
LeaseExpires(r, i) ==
  /\ r \in Recording /\ <<r, i>> \in open
  /\ open' = open \ {<<r, i>>}
  /\ UNCHANGED <<journal, pc, frame, ext, captures, qdisc, due, acked, left>>
CaptureDies(w) ==
  /\ w \in running
  /\ Spend("fail")
  /\ running' = running \ {w}
  /\ UNCHANGED <<journal, pc, frame, ext, open, dirs, conf, sealed, wgen, qdisc, due, acked>>
FaultDue(f) ==
  /\ st.flt[f] = "active" /\ f \notin due
  /\ due' = due \cup {f}
  /\ UNCHANGED <<journal, pc, frame, world, acked, left>>
=============================================================================
