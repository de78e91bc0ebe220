--------------------------- MODULE EngineClaims ---------------------------
(***************************************************************************)
(* Sentences of the repository's documents that the code does not keep.    *)
(* TLC finds how: run claim_recover for RecoverCleansUp; the README has    *)
(* the instances for the others.                                           *)
(***************************************************************************)
EXTENDS Engine

\* docs/m2-executor.md:11 "One active run and one pending mutation per agent."
\* A run is active, as dispatch() has it, until its state is destroyed.
OneActiveRun ==
  \A r, o \in Runs :
    st.state[r] \notin {"absent", "destroyed"} /\ st.state[o] \notin {"absent", "destroyed"} => r = o

\* docs/m5-telemetry-faults.md:21 "expired, incomplete or different-boot intent
\* is removed before traffic can resume."  The release of resume opens no gate
\* of a run one of whose faults is still to be recovered.
ResumeIsClean ==
  [][\A r \in Runs : (\E i \in Gated : <<r, i>> \in open' \ open) =>
       \A f \in Faults : Owner[f] = r => st.flt[f] # "recovery-required"]_vars

\* docs/m3-captures.md:59 "After agent restart, surviving captures continue
\* recording. The agent adopts them": a worker that runs while requests are
\* served obeys the agent's current controller generation.
SurvivorsAreAdopted ==
  Serving => \A w \in running : wgen[w[1]][w[2]] = st.gen[w[1]]

\* docs/m3-captures.md:59 "The current recovery operation cleans up that run":
\* a recover job after which nothing fails any more destroys its run.
RecoverCleansUp ==
  \A j \in JobIds, r \in Runs :
    (/\ st.job[j].op = "recover" /\ st.job[j].is = "queued" /\ st.job[j].run = r
     /\ \A k \in DOMAIN left : left[k] = 0)
      ~> (st.state[r] = "destroyed" \/ Down)

\* docs/m5-telemetry-faults.md:21 "Cancellation during apply compensates by
\* removing the qdisc.": an apply whose cancellation was accepted is not active.
CancelledApplyIsUndone ==
  \A j \in JobIds :
    st.job[j].op = "fault.apply" /\ st.job[j].cancel /\ ~Pending(st, j) =>
      st.flt[st.job[j].flt] # "active"

\* docs/m5-telemetry-faults.md:21 "Removal failures durably mark the fault
\* `recovery-required`": no fault is still removing between two jobs.
FailedRemovalIsMarked ==
  pc = "loop" => \A f \in Faults : disk.flt[f] # "removing"
=============================================================================
