# A TLA+ model of Graphlab

Graphlab runs network experiments on one Linux host. A root process, the
*lab-agent*, takes requests over a unix socket, journals them, and carries them
out with Docker, Open vSwitch, QEMU, `tc` and systemd. This directory holds the
specification of its runtime: how a request becomes a durable job, how a job
becomes effects on the host, and what is still true after a backend call or a
commit fails, a capture worker dies, or the agent crashes half-way. Around it
are specifications of the processes it starts (capture workers, workload nodes,
console workers) and of the packet index it keeps.

## The system and its parts

| part | source | here |
|---|---|---|
| journal, admission, idempotency keys | `cpp/runtime/engine.cpp` | `EngineState`, `Admission` |
| worker thread: start, stop, resume, destroy, recover | `cpp/runtime/engine.cpp` | `Execution` |
| link faults: apply, remove, cancel, expire, recover | `cpp/telemetry/engine.cpp` | `FaultControl`, `Admission` |
| monitor, capture health, traffic lease | `cpp/runtime/engine.cpp` | `FaultControl` |
| restart of the agent | `cpp/runtime/engine.cpp`, `cpp/telemetry/engine.cpp` | `Recovery` |
| Linux backend: resources, gates, qdiscs | `cpp/runtime/linux.cpp` | `Backend` (by effect) |
| capture manager: arm, stop, status, adopt | `cpp/capture/manager.cpp` | `Backend` (by effect) |
| capture worker, writer, artifacts | `cpp/capture/` | `CaptureWorker` |
| node gate and its lease | `packages/lab-support/cpp/lifecycle.cpp` | `NodeGate`, implementing `TrafficGate` |
| console worker, writer lease, VM lease, runner watchdog | `cpp/terminal/`, `qemu-runners/` | `TerminalWorker` |
| shells in containers | `cpp/terminal/manager.cpp` | `DockerSession` |
| packet index | `cpp/telemetry/packet_history.cpp` | `PacketIndex` |
| source commands, process logs, messages, telemetry, planner | `cpp/`, lab-support | not modelled |
| *lab-api*, through which browsers reach the agent | `cpp/console/` | not modelled |
| catalog, contracts, command line, web console | `cpp/`, `console/web/` | not modelled |

`PROJECT.json` lists every component with its status, every definition with the
source lines it stands for, and the hazards of the code at the lines where they
bite.

The agent is one process with two kinds of actors. Request handlers run
`Engine::dispatch` under one mutex. One worker thread executes the queued job,
or monitors when there is none; it takes the mutex to read or to mutate and
commit, and calls the backend outside it. Capture workers and workload nodes are
processes of their own, which survive the agent.

## The modules

- **EngineState** declares the constants and the state. `st` is the journal in
  memory (`state_`), `disk` the document SQLite holds; both are records of the
  runs' states, revisions, coverage, controller generations, capture epochs,
  resources, faults, jobs and idempotency keys. `Save` is `save()`: one
  transaction, whose failure closes admission (`stopping`) and throws.
  `pc`, `job`, `run`, `tgt`, `slot` and `ret` are where the worker thread is.
  The other variables are the host: resources `ext`, open gates `open`, capture
  directories, config files, running workers and closed manifests (`dirs`,
  `conf`, `running`, `sealed`), the generation a worker obeys (`wgen`), and the
  queueing disciplines in the kernel (`qdisc`).
- **Backend** says what each backend call does: all of it, or a prefix of it and
  an exception. `ArmThrows`, for instance, stops at any edge, before its
  directory, before its `config.json`, before its unit, or after. Some calls
  throw in every attempt, because of what the host looks like: quiescing a
  container that was never created, stopping a capture that has no
  `config.json`, adopting a worker that is gone, preflight on a host that holds
  tagged resources, shaping a lane that holds a foreign discipline.
- **Admission** has an action for every mutating request and for the retry of
  one. A request is decided, journaled and answered under the mutex, so it is
  one step, taken at any point of the worker's progress.
- **Execution** is the worker: `TakeJob`, then one action for each backend call
  or commit of `execute()`, in the order of the code, and the `catch` of
  `work()`. `pc` names the call or commit that comes next.
- **FaultControl** continues it with `m5_execute`, `m5_monitor` (called by the
  monitor, and twice by resume), `m5_fault_failure` and `monitor`.
- **Recovery** is the constructor: interrupted jobs fail, each recording run
  gets a new controller generation, is adopted and quiesced, unfinished faults
  are removed. It also has the crash, the shutdown and the environment (leases
  run out, workers die, fault deadlines pass).
- **Engine** composes them and states the properties. **EngineClaims** states
  sentences of the documents that the code does not keep. **MCEngine** gives TLC
  its instances.
- **EngineProofs** holds the proofs of the types and of what requests see,
  **IntentProofs** that of `NoOrphans`, **LedgerProofs** those of the generations,
  the epochs and the lanes, and **BarrierProofs** those of the capture barrier and
  of stopped runs. A helper that serves one lemma is a named step inside it.

The other modules have a scope of their own; each is one part with the
environment it meets, and an `MC` module gives TLC its instances.

- **CaptureWorker**: one worker and its writer. Every change of its directory is
  a step, so that a kill, or the agent listing artifacts, comes between any two.
  `client` is who sends the requests of a behaviour: the agent, which lists
  artifacts and never asks for a rotation, or the qualification tools, which do
  the opposite.
- **TrafficGate** is what the agent relies on when it releases a node: traffic
  leaves only under a permit. **NodeGate** is the loop of `run_node`, in which
  time passes inside blocking calls; its permit is the released gate and its
  deadline.
- **TerminalWorker**: the worker's loop with leases counted in ticks, for a
  machine (as a child, or in a runner with a heartbeat), SSH and Docker shells.
  **DockerSession** is the opening and closing of a shell with the unit's hook,
  which cleans up beside the agent.
- **PacketIndex**: the index worker with its receipts, a store with its
  retention, rebuilds, stops and a reader that pages.
- **CaptureProofs**, **GateProofs**, **TerminalProofs** (with the shells) and
  **IndexProofs** hold the proofs about them.

### What is abstracted

- Ids, names, addresses, timestamps and JSON layout; a topology is the number of
  its containers and edges (`Gated`, `Edges` among `Slots`). Container networks,
  bridges and guests are resources like any other.
- Job ids are random in the code and used in order here; an idempotency key
  stands for the pair of principal and key. A request is its operation, run,
  expected revision and fault: refused requests change nothing and are no steps.
- A crash inside a backend call is a call that throws, having done a part,
  followed by a crash at the next step; the two leave the same host and journal.
- Time: a lease or a deadline may run out at any moment.
- A commit that fails leaves the stored document as it was (the atomicity of
  SQLite). A reboot of the host, which empties it, is not modelled.
- In the engine's modules, telemetry sampling is the commit it ends in; terminal
  sessions have modules of their own and are not composed with the jobs.
- Elsewhere: packets and records are numbers with a size; a decoder accepts or
  does not; quotas, windows and pages are small constants in place of the code's.
  A SQLite transaction is one step that happens or does not, and the replacement
  of a damaged packet database is one step.

## What is checked

### The engine

These runs use module `MCEngine`. "c/f/s" are the bounds on crashes (and
shutdowns), on failed backend calls and dead workers, and on failed commits.
Keys are symmetric, except where a liveness property is checked.

| run | instance | properties |
|---|---|---|
| `journal` | one recording run, one fault, 3 jobs, c/f/s 1/1/1 | `TypeOK`, `VisibleIsDurable`, `RepliesAreDurable`, `NoOrphans`, `DestroyedIsClean`, `EpochIsFresh`, `GenerationIsDurable` |
| `captures` | two containers, two recorded edges, 3 jobs, 1/2/0 | `CaptureBarrier`, `StoppedIsQuiet`, `CoverageIsHonest`, `GapIsSticky` |
| `faults` | a development run, two faults on one lane, 4 jobs, 1/1/0 | `LaneIsExclusive` |
| `runs` | a recording and a development run, 4 jobs, 1/0/0 | `StartFindsHostFree` |
| `live` | one recording run, one fault, 2 jobs, 1/1/1, `FairSpec` | `JobsFinish`, `FaultsExpire`, `TrafficStops` |

What they show:

- **Durability.** A request is served only while memory and the committed
  journal agree, and a reply, once sent, names a job the journal will hold for
  ever under that key and payload: a retry after any crash gets the same answer.
- **Intent before effect.** Every resource, capture worker and queueing
  discipline on the host is found in the *committed* journal, so cleanup after a
  crash misses none; a run recorded as destroyed has left nothing, and an
  admitted start meets nothing.
- **Capture barrier.** A recording run lets traffic through only in an epoch
  whose captures were all launched; the epoch is always a new one; a run that is
  stopped and settled lets nothing through, also after a restart in the middle
  of a resume.
- **Coverage.** The coverage of a stopped or destroyed run is "closed" only if
  every capture launched in its epoch closed its manifest; a gap, once recorded,
  is not erased but by a new epoch.
- **Fencing.** No worker obeys a controller generation that is not committed.
- **Faults.** An edge direction belongs to one live fault at a time.
- **Liveness.** Jobs finish, expired faults do not stay active, and traffic
  stops when its recording is lost, unless (for the first two) the agent is down.

**Bounds.** Three jobs are enough for start, stop or fault, and resume, destroy
or recover; the fourth in `faults` and `runs` is for the second fault or the
second start. One crash, one failed call and one failed commit, placed anywhere,
cover each failure and the failure of its own handling; `captures` has two
failures, because a gap is only hidden if the worker's death and a failed call
combine; failed commits are in `journal` and `live`. `MaxJobs` is also the
capacity of the journal, which the runs reach.

**Deadlock** is checked in every run of the engine, and there is none: an agent
that is down may start again, and one that is up monitors. The other systems end
(a worker exits, a session is closed) or use up their bounds, so their
configurations turn the check off.

**Fairness.** `FairSpec` has weak fairness on `WorkerStep`: the worker thread
and the constructor keep running while the process does. (The worker waits at
most one second on its condition variable.) It also has weak fairness on the
expiry of a lease that nobody renews, which each node checks every 100 ms by
itself. Nothing makes the agent restart, a client retry or a failure stop
happening; failures are bounded by the constants.

### The other parts

| run | module | properties |
|---|---|---|
| `capture` | `CaptureWorker` | `ClosedIsComplete`, `RoomAfterRotation`, `ArtifactsComplete`, `ManifestIsTrue`, `WithinBudget`, `ManifestAdvances`, `StopEnds` |
| `node_gate` | `NodeGate` | `HeldIsClosed`, `LapseIsPrompt`, `GateImplements` (refinement), `CommandEnds` |
| `terminal_vm` | `TerminalWorker` | `GuestIsLeased`, `AdoptionFences`, `GuestFollowsWorker` |
| `terminal_shell` | `TerminalWorker` | `RecordedFirst`, `ClosedIsDurable`, `InputIsFenced` |
| `docker_session` | `DockerSession` | `ShellIsKnown`, `StopIsClean`, `AgentReturns` |
| `packet_index` | `PacketIndex` | `IndexedOnce`, `CompletedIsComplete`, `WalkIsASnapshot`, `IndexCatchesUp` |

What they show:

- **Captures.** Under the agent, a manifest that says "closed" accounts for every
  packet read, and a reader that lists artifacts while segments are published
  misses none. Whoever drives the worker, what the manifest lists is true, the
  byte budget holds, the manifest only advances, and a stop ends although closing
  the writer may fail again in the handler of its own failure. When the tools
  request a rotation, its failure is only answered and the quota is not checked:
  `ClosedIsComplete` and `RoomAfterRotation` are therefore stated for the agent.
- **Nodes.** A held gate has no open data socket, a lapsed lease closes the gate
  within the longest wait of the loop, whatever blocked meanwhile, and every
  command ends.
- **Consoles.** A machine runs only under a lease in force, an adoption stops it
  and fences the writer, and it does not outlive its worker. A browser's input
  reaches the shell only under the writer lease in force, and after its record.
- **Shells.** A running shell is on record whenever the agent died; a successful
  stop leaves neither shell nor recorder; agent and hook never wait for each
  other.
- **Packet index.** No segment is indexed twice although receipts are recycled, a
  completed rebuild has replayed its window, the pages of one walk belong to one
  snapshot, and every published segment is dealt with in time.

Each of these modules also states its `TypeOK`; for `NodeGate` it is proved.

**Bounds.** The limits of the code become 1, 2 or 3, so that every run passes
them; where a property depends on two limits, they differ. In `capture` four
packets fill segments past the quota, with two faults, so that a failure can meet
the handling of another, and two starts. `packet_index` has three segments of two
runs over a catalog of two receipts, so that receipts are recycled while their
segments are still found, and two rebuilds, one of which can follow a stop.
`terminal_vm` has two controller generations and `terminal_shell` two browsers
and two tokens, enough for a takeover with input on its way. `docker_session`
has two agent deaths and two failing calls.

**Fairness.** It is asked of the program's own loops and timers:

- `CaptureWorker`, `NodeGate`, `DockerSession`: the process keeps running while
  it lives; `TerminalWorker`: time passes and the runner's watchdog runs.
- `PacketIndex`: the index worker runs, and a poll for each run meets it idle
  now and then (strong fairness).

### Where the documents and the code differ

`claim_recover` checks a sentence that `PROJECT.json` quotes, and TLC shows how
the code departs from it: arming fails between a capture's directory and its
`config.json`; stop then throws on every recover, and `RecoverCleansUp` fails.
Its instance is that of `live` without the fault, with c/f/s 0/1/0.

`EngineClaims` states five more sentences that do not hold. They have no run of
their own; a configuration with the constants below and the property shows each.
All have one or two runs, and `Spec` with symmetric keys.

| property | instance | what happens |
|---|---|---|
| `OneActiveRun` | two development runs, 4 jobs, 0/0/0 | a destroyed run is destroyed again beside an active one: two runs are not `destroyed` |
| `ResumeIsClean` | a development run, one fault, 4 jobs, 0/1/0 | stop is queued while an expired fault fails to be removed; the run ends `stopped`, its fault `recovery-required`, and resume does not look at it |
| `SurvivorsAreAdopted` | a recording run, 3 jobs, 1/0/0 | a crash in resume, after arming and before the commit of `armed`: coverage still reads `closed`, so the constructor does not adopt the new workers |
| `CancelledApplyIsUndone` | a development run, one fault, 2 jobs, 0/0/0 | a cancel accepted between the look at the flag and the commit of the outcome leaves the fault active |
| `FailedRemovalIsMarked` | a development run, one fault, 3 jobs, 0/1/0 | a failed `fault.remove` job leaves the fault `removing`, not `recovery-required` |

## What is proved

TLAPS proves, for every set of runs, resources, edges, faults and keys, every
capacity and every bound on failures:

- `TypeCorrect`: `Spec => []TypeOK`;
- `ServesCommitted`: `Spec => []VisibleIsDurable`;
- `RepliesSurvive`: `Spec => []RepliesAreDurable`;
- `IntentFirst`: `Spec => []NoOrphans`;
- `GenerationsDurable`: `Spec => []GenerationIsDurable`;
- `EpochsFresh`: `Spec => []EpochIsFresh`;
- `LanesExclusive`: `Spec => []LaneIsExclusive`;
- `TrafficIsCaptured`: `Spec => []CaptureBarrier`;
- `StoppedRunsQuiet`: `Spec => []StoppedIsQuiet`.

The only assumption is `EngineAssumption`, on the types of the constants.

*The invariant.* `TypeOK` is not inductive: a step at `"prepare"` indexes the
journal by `run` and `slot`, so the proof must know that these are a run and a
position there. `TypeInv` adds `FrameAt(pc)`, which says for each place which of
`job`, `run`, `tgt`, `slot` and `ret` are set, and that every admitted job names
a run (and a fault, if it is a fault's). It also carries `JobsKept(disk, st)`:
memory is ahead of the disk, never behind; each job and key on disk is in memory
with the same request.
`EngineProofs` proves once what each journal update does to the types and to the
jobs (`Follows`, transitive); it has a lemma for each group of worker steps, which
shows `TypeInv'` and `JobsKept(disk, disk')`, and then adds the constructor, the
environment and the requests.

`VisibleIsDurable` needs to know when memory may differ from the disk. `DurableInv`
says: only while `stopping` is set, inside the constructor between two commits,
or while the process is down. `RepliesAreDurable` follows from `JobsKept`: a
reply is sent with its commit, or read from a journal that equals the disk, and
no commit takes a job or a key back.

`NoOrphans` speaks of the disk alone. `IntentInv` makes it inductive:

- memory names everything on the host too, since a later commit replaces the disk
  by memory;
- between an intent and its effect, the entry the effect needs is on disk
  (`"prepare"`, `"arm"`, `"effect"`), and between a removal and its record, what
  was removed is gone (`"removed"`, `"epoch"`, `"cleared"`, `"expired"`,
  `"undone"`, and `"settle"` of a removal);
- a fault id belongs to one `fault.apply` job at most (`OneApply`), and the
  discipline of a queued one is not in the kernel (`Unapplied`). Without this, a
  cancelled `fault.apply` would record as cancelled what another job had put
  there.

`IntentProofs` shows that a step which adds nothing to the host and takes no name
out of the journal keeps it (`CalmStep`, `SteadyStep`), and applies that to the
steps of this kind; then come the steps around a creation or a removal, taking a
job, the restart, the requests, and the theorem. TLC checked `IntentInv` on the
instances of `journal` and of a three-job `faults` before it was proved.

The three theorems of `LedgerProofs` need to know that mutations come one at a
time. `JobInv` says that at most one job is pending, that the job
being carried out is running on disk and no other waits, and that memory agrees
with the disk about the runs, except in the handlers of a failed commit. On it
rest

- `CountInv`: generations and epochs in memory are those on disk or newer, no
  worker and no directory is ahead of the disk, and between the commit of an epoch
  and its arming there is no directory of that epoch;
- `LanesInv`: two faults of one lane are not both live, *in memory or on disk*. A
  failed commit leaves a fault removed in memory and live on disk, so a fault
  admitted from memory alone could meet it after a restart; the invariant says
  that nothing is admitted in between. It also knows at which places the fault at
  hand is live, and that a queued `fault.apply` has its fault queued.

TLC checked these invariants on the instances of `journal` and `faults` first.

`BarrierProofs` follows the gates of a run. `HoldInv` says where they are known to
be held (`Held`: from the hold that begins an operation to its release, the checks
of a resume included), which operation is at which place (`OpAt`), and that a run
called stopped in memory is held unless the worker is at `"ready"` or in a handler
of a failed commit. On disk it may be called stopped with its gates open only
while a job of it is pending (`Claimed`): this is the resume that crashed between
the release and its commit, and the restart holds the gates before it settles the
job. `BarrierInv` says that an open run's epoch is planned and its workers are
launched *in memory and on disk*, and that this is so from `"armed"` to the
release. A new epoch is entered only with the gates held, which is what the two
invariants need of each other.

### The node gate

For every lease, timeout and record size and both options of `run_node`, from
`GateAssumption` on the types of these constants:

- `GateSafe`: `Spec => [](TypeOK /\ HeldIsClosed /\ LapseIsPrompt)`, and
  `HeldGatesClosed`, its second part by itself;
- `GateRefines`: `Spec => GateImplements`, that is, `NodeGate` implements
  `TrafficGate`.

The invariant `GateInv` adds `Bounded`: at which places of the loop the lease is
known to be in force, and that stream I/O runs under a released gate and ends by
the deadline. Without it a record sent after a blocking read could not be placed
before the deadline. The refinement then goes action by action: sending needs a
permit, which `Bounded` gives; everything else grants, extends or withdraws one,
or stutters.

### The capture worker

For every budget, segment size, snap length, number of packets, failures and
launches, from `CaptureAssumption`: the sizes are positive, the overhead of the
quota check covers the blocks of an empty segment, and the budget is more than two
packets and that overhead.

- `ClosesComplete`: `Spec => []ClosedIsComplete`;
- `RotationsHaveRoom`, `BudgetKept`: `RoomAfterRotation`, `WithinBudget`;
- `ManifestsAreTrue`, `RepliesComplete`: `ManifestIsTrue`, `ArtifactsComplete`;
- `ManifestsAdvance`: `Spec => ManifestAdvances`.

`CaptureInv` is a conjunction, one part per concern, each kept by a lemma with one
step per action. `Control` says where the segment file is open and on whose behalf
the worker acts. `Budget` bounds the bytes; that a second segment has room follows
from the quota check, which under the agent precedes every opening but the first.
`Published` says that the segments in memory and in the manifest are closed files
with that content; it is kept because a link replaces nothing. `Manifest` says
that what will be written next continues what is written. `Reader` follows one
`artifacts()` request: each packet it has to find is found already, or lies in a
file it still has to inspect, or in a segment of the manifest it reads last; a
partial file that is gone meanwhile never comes back under that name (`Gone`),
and fails the request. `Account` is the argument for closed captures: as long as
no exception came, the finished segments and the open file hold exactly the
packets read, in order, and no other partial file exists; a "closed" manifest is
written from there, and after it no packet is read and no file begun.

### Consoles and shells

For every number of ticks, tokens, generations and deaths:

- `GuestsLeased`, `AdoptionsFence`: `GuestIsLeased`, `AdoptionFences`;
- `InputsRecorded`, `ClosesDurable`: `RecordedFirst`, `ClosedIsDurable`;
- `InputsFenced`: `Spec => InputIsFenced`;
- `ShellsKnown`, `StopsClean`, of `DockerSession`, there an instance `Docker` of
  its own variables: `Docker!Spec => []Docker!ShellIsKnown`, and `StopIsClean`.

`TermInv` adds to the properties what the worker knows between its calls. In the
rounds of its loop a machine that runs, or that a pending `cont` may yet start,
has its lease. A token in force is newer than every one revoked. On the way to a
"closed" manifest the last record, its sync, the published name and the sync of
its directory are there one after the other. `SessionInv` says which of the
journal entry, the directory, `exec.json`, the shell and the unit exist at each
place of opening and closing; the hook may be at any place of its own.

### The packet index

For every size of the catalog, window, batch and page: `NeverTwice`
(`IndexedOnce`), `RebuildsComplete` (`CompletedIsComplete`) and
`PagesAreOneSnapshot` (`WalkIsASnapshot`). The invariant relates the receipts to
the retirement floor: a segment that was indexed has its receipt, or lies below
the floor, and a replay meets neither. A replay that runs still owes exactly what
its scan has still to do. The rows a reader wants are those the store holds up to
its snapshot, as long as the snapshot's epoch and generation are the store's.

### Only model-checked

- Liveness: `JobsFinish`, `FaultsExpire`, `TrafficStops`, `StopEnds`,
  `CommandEnds`, `GuestFollowsWorker`, `AgentReturns` and `IndexCatchesUp`. The
  prover has no rules for fairness.
- Of the engine, `DestroyedIsClean`, `StartFindsHostFree`, `CoverageIsHonest` and
  `GapIsSticky`. Their invariants relate
  the state of a run to the job that brought it there at almost every place of the
  worker; TLC has checked such invariants, but they are not proved.
- The types of the modules other than the engine's and `NodeGate`, and the claims.

## Not modelled

- Source commands (`cpp/runtime/source_control.cpp` and the node's ledger of
  them): a protocol of its own beside the jobs.
- The stores of process logs, messages and telemetry with their collectors, and
  the search for a message in captures: they share nothing with a run but the
  commit a sample ends in. Of the packet history, the renames that replace a
  damaged database.
- The replay of recordings to browsers, and lab-api: sessions, sockets, the table
  of paths. To the agent they are requests in any order, repeated or lost, which
  `Admission` takes.
- The planner: a sequential computation; the engine takes its order as given.
  Preparation and removal of a QEMU machine are those of any resource.
- The catalog, contracts and validation: they judge immutable documents, without
  state or concurrency. So do the checks of QEMU artifacts.
- Parsers, decoders and encoders (PCAPNG, JSON, HTTP, base64) beyond whether they
  accept: they compute on one input.
- Which Docker, OVS, `ip`, `tc` and systemd commands make up a backend call, and
  the subprocess and socket helpers: a call does all or a part, or fails.
- The command line, the qualification tools and the web console: front ends.
- The engine composed with the other parts. Its state space is large by itself;
  the parts meet it through few calls, which each module takes in any order.
- Three hazards `PROJECT.json` lists have no property, for the reasons given
  there.
