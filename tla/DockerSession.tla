---------------------------- MODULE DockerSession ----------------------------
(***************************************************************************)
(* A shell in a container: Engine::dispatch "open" and "close",            *)
(* docker_attach(), cleanup_docker() and stop() (terminal/manager.cpp),    *)
(* and the hook systemd runs when the recorder's unit ends.  stop() runs   *)
(* in the dispatch thread, under the engine's mutex, and in the job thread *)
(* that cleans a run up, without it.  They and the hook share a file lock. *)
(* Calls to Docker and systemd may fail, Docker may carry a start out      *)
(* after the agent gave up on its answer, the agent may die at any step,   *)
(* the recorder and the shell may end.                                     *)
(***************************************************************************)
EXTENDS Naturals

CONSTANTS MaxStops, MaxFaults, MaxCrashes  \* bounds on stops, failed calls, agent deaths

ASSUME SessionAssumption == {MaxStops, MaxFaults, MaxCrashes} \subseteq Nat

VARIABLES
  pc,        \* the step of each thread of the agent
  opening,   \* the mutex is held by an open, or by the stop() of one that failed
  journal,   \* the session is in the journal
  dir,       \* "none", "bare", "config": the session's directory
  known,     \* exec.json
  exec,      \* "none", "created", "running", "exited": the shell
  sent,      \* its start was sent, nobody waits for the answer, Docker has yet to act
  unit,      \* "none", "running", "ended": ended while its hook runs
  hook,      \* the hook
  lock,      \* holder of exec.lock, or "free"
  stopped,   \* who finished its last cleanup of a shell known then (history)
  missed,    \* whose last look at the shell came before a late start (history)
  stops, faults, crashes

bounds == <<stops, faults, crashes>>
vars == <<pc, opening, journal, dir, known, exec, sent, unit, hook, lock, stopped, missed, bounds>>

Threads == {"dispatch", "job"}
Cleaners == Threads \cup {"hook"}
OpenSteps == {"journal", "mkdir", "config", "launch", "lock", "create", "intent", "start",
              "attach", "await"}
StopSteps == {"stop", "guard", "inspect", "kill", "close", "reap"}

Init ==
  /\ pc = [th \in Threads |-> "idle"] /\ opening = FALSE /\ journal = FALSE /\ dir = "none"
  /\ known = FALSE /\ exec = "none" /\ sent = FALSE /\ unit = "none" /\ hook = "off"
  /\ lock = "free" /\ stopped = {} /\ missed = {} /\ stops = 0 /\ faults = 0 /\ crashes = 0

Step(th, from, to) == pc[th] = from /\ pc' = [pc EXCEPT ![th] = to]
Opens(from, to) == Step("dispatch", from, to)
Freed(who) == IF lock = who THEN "free" ELSE lock
Killed == IF exec = "running" THEN "exited" ELSE exec

-----------------------------------------------------------------------------
(* dispatch "open", under the engine's mutex.                              *)
Open ==
  /\ ~journal /\ Opens("idle", "journal") /\ opening' = TRUE
  /\ UNCHANGED <<journal, dir, known, exec, sent, unit, hook, lock, stopped, missed, bounds>>

Journal ==
  /\ Opens("journal", "mkdir") /\ journal' = TRUE
  /\ UNCHANGED <<opening, dir, known, exec, sent, unit, hook, lock, stopped, missed, bounds>>

Launch ==
  /\ \/ Opens("mkdir", "config") /\ dir' = "bare" /\ unit' = unit
     \/ Opens("config", "launch") /\ dir' = "config" /\ unit' = unit
     \/ Opens("launch", "lock") /\ dir' = dir /\ unit' = "running"
  /\ UNCHANGED <<opening, journal, known, exec, sent, hook, lock, stopped, missed, bounds>>

AttachBlind ==
  /\ \/ lock = "free" /\ Opens("lock", "create") /\ lock' = "dispatch" /\ UNCHANGED <<exec, known>>
     \/ Opens("create", "intent") /\ exec' = "created" /\ UNCHANGED <<known, lock>>
     \/ Opens("intent", "start") /\ exec' = "running" /\ UNCHANGED <<known, lock>>
     \/ Opens("start", "attach") /\ known' = TRUE /\ UNCHANGED <<exec, lock>>
     \/ unit = "running" /\ Opens("attach", "await") /\ lock' = "free" /\ UNCHANGED <<exec, known>>
  /\ UNCHANGED <<opening, journal, dir, sent, unit, hook, stopped, missed, bounds>>

\* docker_attach(): the shell is created, written down, started, and its
\* stream handed to the recorder, all under the lock.
Attach ==
  /\ \/ lock = "free" /\ Opens("lock", "create") /\ lock' = "dispatch" /\ UNCHANGED <<exec, known>>
     \/ Opens("create", "intent") /\ exec' = "created" /\ UNCHANGED <<known, lock>>
     \/ Opens("intent", "start") /\ known' = TRUE /\ UNCHANGED <<exec, lock>>
     \/ Opens("start", "attach") /\ exec' = "running" /\ UNCHANGED <<known, lock>>
     \/ unit = "running" /\ Opens("attach", "await") /\ lock' = "free" /\ UNCHANGED <<exec, known>>
  /\ UNCHANGED <<opening, journal, dir, sent, unit, hook, stopped, missed, bounds>>

Ready ==
  /\ unit = "running" /\ Opens("await", "idle") /\ opening' = FALSE
  /\ UNCHANGED <<journal, dir, known, exec, sent, unit, hook, lock, stopped, missed, bounds>>

\* What gives up on a start may leave it on its way to Docker.
GiveUp == sent' \in IF pc["dispatch"] = "start" THEN BOOLEAN ELSE {sent}

\* A step of open fails: a call of the host, or a recorder that is gone.
OpenFails ==
  /\ pc["dispatch"] \in OpenSteps
  /\ \/ faults < MaxFaults /\ faults' = faults + 1
     \/ pc["dispatch"] \in {"attach", "await"} /\ unit # "running" /\ faults' = faults
  /\ pc' = [pc EXCEPT !["dispatch"] = IF journal THEN "stop" ELSE "idle"] /\ opening' = journal
  /\ lock' = Freed("dispatch") /\ GiveUp
  /\ UNCHANGED <<journal, dir, known, exec, unit, hook, stopped, missed, stops, crashes>>

-----------------------------------------------------------------------------
(* stop(): by a failed open, by "close", or by the job that cleans the run *)
(* up, which took its copy of the session when no open held the mutex.     *)
Close(th) ==
  /\ journal /\ ~opening /\ Step(th, "idle", "stop") /\ stopped' = stopped \ {th}
  /\ stops < MaxStops /\ stops' = stops + 1
  /\ UNCHANGED <<opening, journal, dir, known, exec, sent, unit, hook, lock, missed, faults, crashes>>

\* The end of stop(): a failed open gives the mutex back.
Over(th) == opening' = (opening /\ th # "dispatch")

Stop(th) ==
  /\ \/ dir = "none" /\ Step(th, "stop", "idle") /\ Over(th) /\ stopped' = stopped \cup {th}
     \/ dir = "bare" /\ Step(th, "stop", "idle") /\ Over(th) /\ UNCHANGED stopped
     \/ dir = "config" /\ Step(th, "stop", "guard") /\ UNCHANGED <<opening, stopped>>
  /\ UNCHANGED <<journal, dir, known, exec, sent, unit, hook, lock, missed, bounds>>

CleanupHolding(th) ==
  /\ \/ lock = "free" /\ Step(th, "guard", "inspect") /\ lock' = th /\ UNCHANGED <<exec, missed>>
     \/ /\ missed' = missed \ {th} /\ UNCHANGED <<exec, lock>>
        /\ Step(th, "inspect", IF known /\ exec = "running" THEN "kill" ELSE "close")
     \/ Step(th, "kill", "close") /\ exec' = Killed /\ UNCHANGED <<lock, missed>>
  /\ UNCHANGED <<opening, journal, dir, known, sent, unit, hook, stopped, bounds>>

\* cleanup_docker(): the shell that exec.json names is inspected, and killed if
\* it runs, under the lock.
Cleanup(th) ==
  /\ \/ lock = "free" /\ Step(th, "guard", "inspect") /\ lock' = th /\ UNCHANGED <<exec, missed>>
     \/ /\ missed' = missed \ {th} /\ exec' = exec
        /\ \/ known /\ exec = "running" /\ Step(th, "inspect", "kill") /\ lock' = lock
           \/ ~(known /\ exec = "running") /\ Step(th, "inspect", "close") /\ lock' = "free"
     \/ Step(th, "kill", "close") /\ exec' = Killed /\ lock' = "free" /\ missed' = missed
  /\ UNCHANGED <<opening, journal, dir, known, sent, unit, hook, stopped, bounds>>

\* The recorder is asked to close, or found inactive; systemctl stop returns
\* when its hook has ended, and the unit is reaped.
CloseUnit(th) ==
  /\ Step(th, "close", "reap") /\ unit' = (IF unit = "running" THEN "ended" ELSE unit)
  /\ UNCHANGED <<opening, journal, dir, known, exec, sent, hook, lock, stopped, missed, bounds>>

Reap(th) ==
  /\ unit # "running" /\ (unit = "ended" => hook = "done") /\ Step(th, "reap", "idle")
  /\ Over(th) /\ unit' = "none" /\ hook' = "off" /\ stopped' = stopped \cup {th}
  /\ UNCHANGED <<journal, dir, known, exec, sent, lock, missed, bounds>>

\* A call of the host fails; the lock goes with the exception.
StopFails(th) ==
  /\ pc[th] \in StopSteps /\ faults < MaxFaults /\ faults' = faults + 1
  /\ pc' = [pc EXCEPT ![th] = "idle"] /\ Over(th) /\ lock' = Freed(th)
  /\ UNCHANGED <<journal, dir, known, exec, sent, unit, hook, stopped, missed, stops, crashes>>

-----------------------------------------------------------------------------
\* A hook that looked for a shell it knew of has done its work.
HookDone == hook' = "done" /\ stopped' = IF known THEN stopped \cup {"hook"} ELSE stopped

HookUnlocked ==
  /\ unit = "ended"
  /\ \/ hook = "off" /\ hook' = "inspect" /\ UNCHANGED <<exec, lock, missed, stopped>>
     \/ /\ hook = "inspect" /\ missed' = missed \ {"hook"} /\ UNCHANGED <<exec, lock>>
        /\ \/ known /\ exec = "running" /\ hook' = "kill" /\ UNCHANGED stopped
           \/ ~(known /\ exec = "running") /\ HookDone
     \/ hook = "kill" /\ HookDone /\ exec' = Killed /\ UNCHANGED <<lock, missed>>
  /\ UNCHANGED <<pc, opening, journal, dir, known, sent, unit, bounds>>

\* ExecStopPost: the same cleanup, by a process of its own.
Hook ==
  /\ unit = "ended"
  /\ \/ /\ hook = "off" /\ lock = "free" /\ lock' = "hook" /\ hook' = "inspect"
        /\ UNCHANGED <<exec, missed, stopped>>
     \/ /\ hook = "inspect" /\ missed' = missed \ {"hook"} /\ exec' = exec
        /\ \/ known /\ exec = "running" /\ hook' = "kill" /\ UNCHANGED <<lock, stopped>>
           \/ ~(known /\ exec = "running") /\ HookDone /\ lock' = "free"
     \/ hook = "kill" /\ HookDone /\ exec' = Killed /\ lock' = "free" /\ missed' = missed
  /\ UNCHANGED <<pc, opening, journal, dir, known, sent, unit, bounds>>

\* A call of the hook fails, or systemd ends it after TimeoutStopSec, waiting
\* for the lock or holding it.
HookFails ==
  /\ unit = "ended" /\ hook # "done" /\ faults < MaxFaults /\ faults' = faults + 1
  /\ hook' = "done" /\ lock' = Freed("hook")
  /\ UNCHANGED <<pc, opening, journal, dir, known, exec, sent, unit, stopped, missed, stops, crashes>>

\* A unit that ended, hook and all, is forgotten.
Forget ==
  /\ unit = "ended" /\ hook = "done" /\ unit' = "none" /\ hook' = "off"
  /\ UNCHANGED <<pc, opening, journal, dir, known, exec, sent, lock, stopped, missed, bounds>>

\* The recorder's process ends.
RecorderEnds ==
  /\ unit = "running" /\ unit' = "ended"
  /\ UNCHANGED <<pc, opening, journal, dir, known, exec, sent, hook, lock, stopped, missed, bounds>>

ShellEnds ==
  /\ exec = "running" /\ exec' = "exited"
  /\ UNCHANGED <<pc, opening, journal, dir, known, sent, unit, hook, lock, stopped, missed, bounds>>

\* Docker carries out a start that nobody waits for any more.
LateStart ==
  /\ sent /\ sent' = FALSE /\ exec' = "running" /\ missed' = Cleaners
  /\ UNCHANGED <<pc, opening, journal, dir, known, unit, hook, lock, stopped, bounds>>

\* The agent dies, which frees its locks, and is started again.
Crash ==
  /\ (\E th \in Threads : pc[th] # "idle") /\ crashes < MaxCrashes /\ crashes' = crashes + 1
  /\ pc' = [th \in Threads |-> "idle"] /\ opening' = FALSE /\ GiveUp
  /\ lock' = IF lock \in Threads THEN "free" ELSE lock
  /\ UNCHANGED <<journal, dir, known, exec, unit, hook, stopped, missed, stops, faults>>

Agent(th) ==
  \/ th = "dispatch" /\ (Journal \/ Launch \/ Attach \/ Ready \/ OpenFails)
  \/ Stop(th) \/ Cleanup(th) \/ CloseUnit(th) \/ Reap(th)

Next ==
  \/ Open \/ (\E th \in Threads : Close(th) \/ Agent(th) \/ StopFails(th))
  \/ Hook \/ HookFails \/ Forget \/ RecorderEnds \/ ShellEnds \/ LateStart \/ Crash

Spec == Init /\ [][Next]_vars
FairSpec == Spec /\ (\A th \in Threads : WF_vars(Agent(th))) /\ WF_vars(Hook)

-----------------------------------------------------------------------------

\* Types of all variables.
TypeOK ==
  /\ pc \in [Threads -> {"idle"} \cup OpenSteps \cup StopSteps]
  /\ {opening, journal, known, sent} \subseteq BOOLEAN /\ dir \in {"none", "bare", "config"}
  /\ exec \in {"none", "created", "running", "exited"} /\ unit \in {"none", "running", "ended"}
  /\ hook \in {"off", "inspect", "kill", "done"} /\ lock \in Cleaners \cup {"free"}
  /\ lock = "hook" <=> hook \in {"inspect", "kill"}
  /\ stopped \subseteq Cleaners /\ missed \subseteq Cleaners
  /\ stops \in 0 .. MaxStops /\ faults \in 0 .. MaxFaults /\ crashes \in 0 .. MaxCrashes

\* A shell that runs, or that a start on its way to Docker may still start, is
\* in the journal and on disk, so that a later stop finds it, whenever the agent
\* died.
ShellIsKnown == exec = "running" \/ sent => journal /\ known

\* A stop() that succeeded leaves no recorder, and no shell but one whose start
\* reached Docker after stop() had looked; nor does a hook that ran once
\* exec.json was there: it cannot look between that and the start, which the
\* lock holds together.  Whatever the other thread and the hook do meanwhile.
StopIsClean ==
  \A who \in stopped : /\ exec = "running" => who \in missed
                       /\ who \in Threads => unit = "none"

\* Each thread gets through every open and every stop: the threads and the hook
\* never wait for each other.
AgentReturns == \A th \in Threads : pc[th] # "idle" ~> pc[th] = "idle"
=============================================================================
