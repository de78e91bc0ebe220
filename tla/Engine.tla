------------------------------- MODULE Engine -------------------------------
(***************************************************************************)
(* The lab-agent: requests admitted under the mutex, one worker thread     *)
(* that executes jobs and monitors between them, a constructor that        *)
(* recovers after a restart, and the host they act on.                     *)
(***************************************************************************)
EXTENDS Recovery

Init ==
  /\ st = EmptyJournal /\ disk = EmptyJournal /\ stopping = FALSE
  /\ pc = "loop" /\ job = 0 /\ run = NoRun /\ tgt = NoFault /\ slot = 0 /\ ret = "monitor"
  /\ was = FALSE /\ todo = {} /\ ftodo = {}
  /\ ext = {} /\ open = {} /\ dirs = {} /\ conf = {} /\ running = {} /\ sealed = {}
  /\ wgen = [r \in Runs |-> [e \in Edges |-> 0]]
  /\ qdisc = {} /\ due = {} /\ acked = {}
  /\ left = [crash |-> MaxCrashes, fail |-> MaxFailures, save |-> MaxSaveFailures]

JobStep ==
  \/ TakeJob \/ WorkerExits \/ CatchQuiesce \/ RecordFailure \/ Observe \/ Finish
  \/ Preflight \/ NextResource \/ Prepare \/ Prepared
  \/ StopOld \/ Epoch \/ PlanCall \/ PlanCaptures \/ Arm \/ Armed
  \/ Converge \/ Activate \/ Status \/ Release \/ Ready \/ Recheck
  \/ StopQuiesce \/ Stopped
  \/ Destroy \/ Compensate \/ Hold \/ ClearFault \/ FaultCleared
  \/ CloseCaptures \/ RecordClosed \/ RemoveResource \/ ResourceRemoved
  \/ Destroyed \/ StartCancelled
FaultStep ==
  \/ FaultBegin \/ FaultEffect \/ FaultVerdict \/ FaultUndo \/ FaultUndone \/ FaultSettle
MonitorStep ==
  \/ Idle \/ M5Expiring \/ M5Sample \/ Expire \/ Expired
  \/ FaultFailure \/ FailureQuiesce \/ FailureNoted
  \/ M5Caught \/ Renew \/ MonitorQuiesce \/ MonitorFailure
BootStep ==
  \/ Reconcile \/ Adopt \/ BootQuiesce \/ RunReconciled
  \/ RunsReconciled \/ RecoverFault \/ BootDone
WorkerStep == JobStep \/ FaultStep \/ MonitorStep \/ BootStep

Environment ==
  \/ \E r \in Runs, i \in Gated : LeaseExpires(r, i)
  \/ \E w \in running : CaptureDies(w)
  \/ \E f \in Faults : FaultDue(f)

Next == Dispatch \/ WorkerStep \/ Environment \/ Boot \/ Crash \/ Exit \/ Shutdown
Spec == Init /\ [][Next]_vars

(***************************************************************************)
(* Fairness: the worker thread and the constructor run while the process   *)
(* does.  A lease nobody renews expires; only a ready run's lease is       *)
(* renewed.  Nothing restarts the agent, and nothing has to fail.          *)
(***************************************************************************)
Unrenewed(r, i) == (pc \in {"off", "exited"} \/ st.state[r] # "ready") /\ LeaseExpires(r, i)
Fairness ==
  /\ WF_vars(WorkerStep)
  /\ \A r \in Runs, i \in Gated : WF_vars(Unrenewed(r, i))
FairSpec == Spec /\ Fairness

(***************************************************************************)
(* Properties                                                              *)
(***************************************************************************)

\* What exists on the host; a worker's directory precedes its config.json,
\* and that its launch.
HostOK ==
  /\ ext \subseteq Runs \X Slots /\ open \subseteq Runs \X Gated
  /\ dirs \subseteq Workers /\ conf \subseteq dirs /\ running \subseteq conf
  /\ sealed \subseteq dirs
  /\ wgen \in [Runs -> [Edges -> Nat]]
  /\ qdisc \subseteq Faults
Places ==
  {"off", "loop", "exited", "catch", "failed", "preflight", "next", "prepare", "prepared",
   "stopold", "epoch", "plan", "planned", "arm", "armed", "converge", "activate", "status",
   "release", "ready", "recheck", "quiesce", "stopped", "destroy", "compensate", "hold",
   "clear", "cleared", "close", "closed", "remove", "removed", "destroyed", "cancelled",
   "observe", "finish", "fault", "effect", "verdict", "undo", "undone", "settle", "m5",
   "expire", "expired", "m5fail", "m5hold", "m5note", "m5err", "renew", "mcatch", "mfail",
   "recover", "adopt", "bquiesce", "adopted", "flt"}
\* Every variable has its type: the fields of the journal in memory and on
\* disk, the worker's place in execute(), and what exists on the host.
TypeOK ==
  /\ st \in Journal /\ disk \in Journal /\ stopping \in BOOLEAN /\ pc \in Places
  /\ job \in JobIds \cup {0} /\ run \in Runs \cup {NoRun} /\ tgt \in Faults \cup {NoFault}
  /\ slot \in Slots \cup {0} /\ ret \in {"monitor", "before", "after", "boot"}
  /\ was \in BOOLEAN /\ todo \subseteq Recording /\ ftodo \subseteq Faults
  /\ HostOK
  /\ due \subseteq Faults
  /\ acked \subseteq [key : Keys, req : Requests, job : JobIds]
  /\ left \in [{"crash", "fail", "save"} -> Nat]

\* What the agent answers, it has committed: a request is served only while
\* memory and the committed journal agree, whatever failed before.
VisibleIsDurable == Serving => st = disk

\* A reply to a mutation survives every crash, and a retry gets the same one.
RepliesAreDurable ==
  \A a \in acked : disk.key[a.key] = [req |-> a.req, job |-> a.job] /\ disk.job[a.job].is # "absent"

\* cleanup() finds everything it has to remove in the journal: "Every resource
\* has a durable intent even if its creation never returned", and so have
\* every capture worker and every queueing discipline in the kernel.
InKernel == {"applying", "active", "removing", "recovery-required"}
NoOrphans ==
  /\ \A x \in ext : Journaled(disk.res[x[1]][x[2]])
  /\ \A w \in running : w \in Planned(disk, w[1])
  /\ \A f \in qdisc : disk.flt[f] \in InKernel

\* A run the journal calls destroyed has left nothing on the host.
DestroyedIsClean ==
  \A r \in Runs : disk.state[r] = "destroyed" =>
    /\ \A x \in ext \cup open \cup running : x[1] # r
    /\ \A f \in qdisc : Owner[f] # r

\* An admitted start meets nothing an earlier run left behind, although a run
\* may be destroyed or recovered again at any time: preflight only ever refuses
\* the resources of another agent.
StartFindsHostFree == pc = "preflight" => ext = {} /\ open = {} /\ running = {} /\ qdisc = {}

\* The capture barrier: a recording run lets traffic through only in an epoch
\* whose capture workers were all launched, the plan being durable.
CaptureBarrier ==
  \A r \in Recording : (\E i \in Gated : <<r, i>> \in open) =>
    disk.planned[r] /\ Planned(disk, r) \subseteq conf

\* A run that is stopped with no job pending lets no traffic through, also
\* when the agent died while it was being resumed.
Settled(r) == \A j \in JobIds : Pending(disk, j) => disk.job[j].run # r
StoppedIsQuiet ==
  \A r \in Runs : disk.state[r] = "stopped" /\ Settled(r) => \A i \in Gated : <<r, i>> \notin open

\* The coverage of a stopped or destroyed run is called closed only if each
\* capture launched in its epoch closed its manifest: close_captures hides no
\* worker that died.
CoverageIsHonest ==
  \A r \in Recording :
    disk.state[r] \in {"stopped", "destroyed"} /\ Settled(r) /\ disk.cov[r] = "closed"
      => Planned(disk, r) \cap dirs \subseteq sealed

\* "closing files does not erase a gap": once incomplete, the coverage of a run
\* stays so until a new epoch has been armed, with the gates held.
Gapped == {"incomplete", "closed-incomplete"}
GapIsSticky ==
  [][\A r \in Recording : disk.cov[r] \in Gapped /\ disk'.cov[r] \notin Gapped =>
       /\ disk'.cov[r] = "armed" /\ Planned(disk', r) \subseteq dirs
       /\ \A i \in Gated : <<r, i>> \notin open]_vars

\* Whatever failed or crashed before, the epoch a plan is armed in is new: no
\* capture directory of an earlier attempt is in its way.
EpochIsFresh == pc = "arm" => Unlaunched(run)

\* No worker obeys a controller generation that is not committed, so none is
\* out of reach of the agent that starts from the journal.
GenerationIsDurable == \A w \in running : wgen[w[1]][w[2]] <= disk.gen[w[1]]

\* The journal gives an edge direction to one fault at a time, also after a
\* removal failed, a crash or a commit that did not happen: no live fault waits
\* behind the queueing discipline of another.
LaneIsExclusive ==
  \A f, g \in Faults :
    Owner[f] = Owner[g] /\ Lane[f] = Lane[g] /\ Live(disk.flt[f]) /\ Live(disk.flt[g]) => f = g

\* Every admitted job finishes, unless the agent goes down first.
Down == pc \in {"off", "exited"}
JobsFinish == \A j \in JobIds : Pending(st, j) ~> (~Pending(st, j) \/ Down)

\* An expired fault does not stay active under a live agent.
FaultsExpire == \A f \in Faults : (f \in due /\ st.flt[f] = "active") ~> (st.flt[f] # "active" \/ Down)

\* Traffic does not outlive its recording: once a capture worker of a ready
\* run is lost, every gate of the run closes, whether or not the agent lives.
Unrecorded(r) == st.state[r] = "ready" /\ ~(Planned(st, r) \subseteq running)
TrafficStops ==
  \A r \in Recording : \A i \in Gated :
    (Unrecorded(r) /\ <<r, i>> \in open) ~> (<<r, i>> \notin open)
=============================================================================
