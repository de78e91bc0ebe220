---------------------------- MODULE EngineState ----------------------------
(***************************************************************************)
(* State of the lab-agent: the journal (one JSON document, in memory and   *)
(* in SQLite), the worker thread's place in its job, and the outside world *)
(* the agent acts on: Docker/OVS resources, workload gates, capture        *)
(* workers and kernel queueing disciplines.                                *)
(*                                                                         *)
(* A captures plan is identified by its run, edge and epoch; a fault by an *)
(* id that belongs to one run and one lane (an edge and a direction).      *)
(***************************************************************************)
EXTENDS Integers, FiniteSets

CONSTANTS
  Runs,            \* run ids
  Recording,       \* runs whose topology says capture.required
  MaxJobs,         \* capacity of the job journal (256 in the code)
  Keys,            \* idempotency keys, each with its principal
  Faults,          \* fault ids
  Owner,           \* the run each fault id is used for
  Lane,            \* the edge and direction each fault id is used for
  Slots,           \* positions in a run's resource list
  Gated,           \* positions that hold a workload container with a gate
  Edges,           \* positions that hold a data edge
  MaxCrashes,      \* bound on crashes and shutdowns of the agent
  MaxFailures,     \* bound on backend calls that fail and workers that die
  MaxSaveFailures  \* bound on journal commits that fail

ASSUME EngineAssumption ==
  /\ Recording \subseteq Runs
  /\ MaxJobs \in Nat
  /\ Owner \in [Faults -> Runs]
  /\ Slots \subseteq Nat
  /\ Gated \subseteq Slots
  /\ Edges \subseteq Slots
  /\ {MaxCrashes, MaxFailures, MaxSaveFailures} \subseteq Nat

VARIABLES
  st,        \* the journal in memory
  disk,      \* the journal as last committed
  stopping,  \* stopping_: a failed commit or a shutdown closed admission
  pc,        \* where the agent's worker thread (or its constructor) is
  job,       \* the job being executed, 0 when none is
  run,       \* the run being worked on
  tgt,       \* the fault being worked on
  slot,      \* the resource being prepared or removed
  ret,       \* who called m5_monitor, or "boot" inside the constructor
  was,       \* boot only: the run was stopped before the restart
  todo,      \* boot only: runs still to be reconciled
  ftodo,     \* boot only: faults still to be recovered
  ext,       \* <<run, slot>> of the resources that exist on the host
  open,      \* <<run, slot>> of the workload gates that let traffic through
  dirs,      \* <<run, edge, epoch>> of the capture directories created
  conf,      \* ... that hold a config.json
  running,   \* ... whose worker is active
  sealed,    \* ... whose worker closed its manifest
  wgen,      \* controller generation of the last worker of a run's edge
  qdisc,     \* faults whose queueing discipline is in the kernel
  due,       \* faults whose deadline has passed
  acked,     \* replies the agent has sent to mutating requests
  left       \* failures of each kind still to come

journal == <<st, disk, stopping>>
frame == <<job, run, tgt, slot, ret, was, todo, ftodo>>
captures == <<dirs, conf, running, sealed, wgen>>
world == <<ext, open, captures, qdisc>>
vars == <<journal, pc, frame, world, due, acked, left>>

NoRun == "no run"
NoFault == "no fault"
JobIds == 1..MaxJobs
Operations == {"start", "stop", "resume", "destroy", "recover", "fault.apply", "fault.remove"}
RunStates == {"absent", "preparing", "armed", "converging", "ready", "stopped",
              "compensating", "destroying", "destroyed", "reconciling"}
Coverage == {"unavailable", "pending", "armed", "recording", "closed",
             "closed-incomplete", "incomplete", "interrupted-controller"}
ResourceStates == {"absent", "intent", "prepared", "removed"}
FaultStates == {"none", "queued", "applying", "active", "removing", "removed",
                "cancelled", "recovery-required"}
JobStates == {"absent", "queued", "running", "succeeded", "failed", "cancelled"}
Requests == [op : Operations, run : Runs \cup {NoRun}, rev : Nat, flt : Faults \cup {NoFault}]
Jobs == [is : JobStates, op : Operations, run : Runs \cup {NoRun}, rev : Nat,
         flt : Faults \cup {NoFault}, cancel : BOOLEAN]
StartRequest == [op |-> "start", run |-> NoRun, rev |-> 0, flt |-> NoFault]
NoJob == [is |-> "absent", op |-> "start", run |-> NoRun, rev |-> 0,
          flt |-> NoFault, cancel |-> FALSE]
Entries == [req : Requests, job : JobIds \cup {0}]
NoEntry == [req |-> StartRequest, job |-> 0]
Workers == Runs \X Edges \X Nat

Journal ==
  [state : [Runs -> RunStates], rev : [Runs -> Nat], cov : [Runs -> Coverage],
   gen : [Runs -> Nat], epoch : [Runs -> Nat], planned : [Runs -> BOOLEAN],
   res : [Runs -> [Slots -> ResourceStates]], flt : [Faults -> FaultStates],
   job : [JobIds -> Jobs], key : [Keys -> Entries]]

EmptyJournal ==
  [state |-> [r \in Runs |-> "absent"], rev |-> [r \in Runs |-> 0],
   cov |-> [r \in Runs |-> "unavailable"], gen |-> [r \in Runs |-> 0],
   epoch |-> [r \in Runs |-> 0], planned |-> [r \in Runs |-> FALSE],
   res |-> [r \in Runs |-> [i \in Slots |-> "absent"]], flt |-> [f \in Faults |-> "none"],
   job |-> [j \in JobIds |-> NoJob], key |-> [k \in Keys |-> NoEntry]]

(***************************************************************************)
(* Reading the journal.                                                    *)
(***************************************************************************)
Pending(s, j) == s.job[j].is \in {"queued", "running"}
Live(v) == v \notin {"none", "removed", "cancelled"}
Journaled(v) == v \in {"intent", "prepared"}
Planned(s, r) == {<<r, e, s.epoch[r]>> : e \in {x \in Edges : s.planned[r]}}

(***************************************************************************)
(* Writing the journal.                                                    *)
(***************************************************************************)
SetState(s, r, v) == [s EXCEPT !.state[r] = v]
SetCov(s, r, v) == [s EXCEPT !.cov[r] = v]
SetRes(s, r, i, v) == [s EXCEPT !.res[r][i] = v]
SetFault(s, f, v) == [s EXCEPT !.flt[f] = v]
SetJob(s, j, v) == [s EXCEPT !.job[j].is = v]
Bump(s, r) == [s EXCEPT !.rev[r] = @ + 1]

Spend(kind) == left[kind] > 0 /\ left' = [left EXCEPT ![kind] = @ - 1]

(***************************************************************************)
(* save(): one transaction replaces the stored document.  A failed commit  *)
(* closes admission and throws, and memory keeps the mutation.  handler is *)
(* where the exception is caught; "off" is an exception nobody catches,    *)
(* which ends the process.                                                 *)
(***************************************************************************)
SaveStillOpen(new, next, handler) ==
  \/ /\ st' = new /\ disk' = new /\ pc' = next
     /\ UNCHANGED <<stopping, left>>
  \/ /\ Spend("save") /\ disk' = disk /\ pc' = handler
     /\ st' = (IF handler = "off" THEN disk ELSE new)
     /\ UNCHANGED stopping
Save(new, next, handler) ==
  \/ /\ st' = new /\ disk' = new /\ pc' = next
     /\ UNCHANGED <<stopping, left>>
  \/ /\ Spend("save") /\ disk' = disk /\ pc' = handler
     /\ st' = (IF handler = "off" THEN disk ELSE new)
     /\ stopping' = (handler # "off")
=============================================================================
