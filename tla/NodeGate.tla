------------------------------ MODULE NodeGate ------------------------------
(***************************************************************************)
(* The gate of a workload node (lab-support lifecycle.cpp, run_node): one  *)
(* thread that polls its control socket, its UDP echo socket and its TCP   *)
(* listener, generates traffic, and serves control commands, under a       *)
(* traffic lease that expires on the monotonic clock.  Time passes in      *)
(* blocking calls: such a step moves the clock on by an arbitrary amount   *)
(* up to its timeout.  What is sent is counted only by the history         *)
(* variable tx, which records when.                                        *)
(***************************************************************************)
EXTENDS Naturals

CONSTANTS
  Lease,                                    \* ten seconds
  PollTime, RecordTime, InputTime, ProbeTime, \* 100, 500, 500 and 1200 ms
  Record,                                   \* chunks of a stream record
  EdgeTelemetry, Generator,                 \* options of run_node
  MaxTime

ASSUME GateAssumption ==
  /\ {Lease, PollTime, RecordTime, InputTime, ProbeTime, Record, MaxTime} \subseteq Nat
  /\ Lease > 0 /\ ProbeTime > 0 /\ Record > 0 /\ {EdgeTelemetry, Generator} \subseteq BOOLEAN

Commands == {"release", "release-lease", "renew-lease", "quiesce", "probe",
             "probe-stream", "status"}

VARIABLES
  pc,     \* the place in the loop
  gate,   \* released, leased, deadline, the open sockets, and those of them in which
          \* something waits that peers sent while the gate was held
  clock,
  ev,     \* the sockets poll() reported
  op,     \* the command in hand
  io,     \* the stream record in transfer: end, chunks left, role
  tx      \* the last transmission

vars == <<pc, gate, clock, ev, op, io, tx>>

Earlier(a, b) == IF a < b THEN a ELSE b
After(d) == {t \in clock .. clock + d : t =< MaxTime}
Forever == MaxTime + Lease + 1
\* The deadline of stream I/O: Deadline::max() without a lease.
Limit == IF gate.leased THEN gate.deadline ELSE Forever
Held == [released |-> FALSE, leased |-> FALSE, deadline |-> 0,
         tcp |-> FALSE, data |-> FALSE, source |-> FALSE, late |-> {}]
\* The listener and the echo socket are closed; the generator's socket is not.
Hold == [Held EXCEPT !.source = gate.source, !.late = gate.late \cap {"source"}]
NoRecord == [end |-> 0, left |-> 0, role |-> "none"]
NewRecord(t, role) ==
  [end |-> Earlier(Limit, t + RecordTime), left |-> Record, role |-> role]
Transmit(t) == tx' = [at |-> t, odd |-> ~tx.odd]

Init ==
  /\ pc = "top" /\ gate = Held /\ clock = 0 /\ ev = {} /\ op = "none"
  /\ io = NoRecord /\ tx = [at |-> 0, odd |-> FALSE]

\* expire(), at time t; the deadline of a gate without lease has no meaning.
Expire(t) == IF gate.leased /\ t >= gate.deadline THEN Hold ELSE gate

\* expire(), poll() and expire() again; poll() may be interrupted, and a
\* signal to stop ends the loop.
Interrupted ==
  /\ pc = "top" /\ gate' = Expire(clock)
  /\ UNCHANGED <<pc, clock, ev, op, io, tx>>
Poll ==
  /\ pc = "top"
  /\ \E t \in After(PollTime), e \in SUBSET {"control", "data", "tcp"} :
       /\ "data" \in e => Expire(clock).data
       /\ "tcp" \in e => Expire(clock).tcp
       /\ clock' = t /\ gate' = Expire(t) /\ ev' = e /\ pc' = "stream"
  /\ UNCHANGED <<op, io, tx>>

Stop ==
  /\ pc = "top" /\ pc' = "exited" /\ gate' = Held
  /\ UNCHANGED <<clock, ev, op, io, tx>>

\* A peer connected to the listener: its record is read, then written back.
Accept ==
  /\ pc = "stream"
  /\ \/ /\ gate.released /\ gate.tcp /\ "tcp" \in ev
        /\ pc' = "read" /\ io' = NewRecord(clock, "serve")
     \/ pc' = "data" /\ io' = io
  /\ UNCHANGED <<gate, clock, ev, op, tx>>

\* record_io ends without success, or a record was transferred.
AfterRecord == IF io.role = "probe" THEN "reply" ELSE "data"
RecordFails ==
  /\ pc \in {"connect", "read", "write"}
  /\ clock' \in {t \in After(RecordTime) : t = clock \/ t =< io.end}
  /\ pc' = AfterRecord /\ io' = NoRecord
  /\ UNCHANGED <<gate, ev, op, tx>>

\* wait_ready() and one recv(): the deadline is checked after the wait.
ReadChunk ==
  /\ pc = "read"
  /\ \E t \in After(RecordTime) :
       /\ t < io.end /\ clock' = t
       /\ \/ io.left > 1 /\ io' = [io EXCEPT !.left = @ - 1] /\ pc' = pc
          \/ io.left = 1 /\ io.role = "serve" /\ io' = NewRecord(t, "serve") /\ pc' = "write"
          \/ io.left = 1 /\ io' = NoRecord /\ pc' = AfterRecord
  /\ UNCHANGED <<gate, ev, op, tx>>

WriteChunkLate ==
  /\ pc = "write"
  /\ \E t \in After(RecordTime) :
       /\ clock < io.end /\ clock' = t /\ Transmit(t)
       /\ \/ io.left > 1 /\ io' = [io EXCEPT !.left = @ - 1] /\ pc' = pc
          \/ io.left = 1 /\ io.role = "probe" /\ io' = NewRecord(t, "probe") /\ pc' = "read"
          \/ io.left = 1 /\ io.role = "serve" /\ io' = NoRecord /\ pc' = "data"
  /\ UNCHANGED <<gate, ev, op>>

\* The same for a send().
WriteChunk ==
  /\ pc = "write"
  /\ \E t \in After(RecordTime) :
       /\ t < io.end /\ clock' = t /\ Transmit(t)
       /\ \/ io.left > 1 /\ io' = [io EXCEPT !.left = @ - 1] /\ pc' = pc
          \/ io.left = 1 /\ io.role = "probe" /\ io' = NewRecord(t, "probe") /\ pc' = "read"
          \/ io.left = 1 /\ io.role = "serve" /\ io' = NoRecord /\ pc' = "data"
  /\ UNCHANGED <<gate, ev, op>>

\* A datagram is echoed if the node is still released, or it is dropped.
Echo ==
  /\ pc = "data"
  /\ gate' = Expire(clock)
  /\ \/ "data" \in ev /\ gate'.released /\ Transmit(clock)
     \/ tx' = tx
  /\ pc' = "generate" /\ UNCHANGED <<clock, ev, op, io>>

\* The traffic generator: one datagram for each source that is not paused;
\* its socket is opened once, and a failure to open it ends the process.
Generate ==
  /\ pc = "generate"
  /\ \/ pc' = "drain" /\ io' = io /\ gate' = Expire(clock)
     \/ /\ Generator /\ Expire(clock).released
        /\ gate' = [gate EXCEPT !.source = TRUE]
        /\ pc' = "source" /\ io' = [NoRecord EXCEPT !.left = 2]
  /\ UNCHANGED <<clock, ev, op, tx>>
GeneratorThrows ==
  /\ pc = "generate" /\ Generator /\ Expire(clock).released
  /\ pc' = "exited" /\ gate' = Held /\ UNCHANGED <<clock, ev, op, io, tx>>
SendSource ==
  /\ pc = "source" /\ gate' = Expire(clock)
  /\ \/ gate'.released /\ Transmit(clock)
     \/ tx' = tx
  /\ io' = [io EXCEPT !.left = @ - 1]
  /\ pc' = IF io.left = 1 THEN "drain" ELSE pc
  /\ UNCHANGED <<clock, ev, op>>

\* What waits in the generator's socket is read, also while the gate is
\* held, and only reported; sixteen datagrams may leave some behind.
Drain ==
  /\ pc = "drain" /\ pc' = "input"
  /\ gate' \in {gate, [gate EXCEPT !.late = @ \ {"source"}]}
  /\ UNCHANGED <<clock, ev, op, io, tx>>

InputLong ==
  /\ pc = "input"
  /\ \/ clock' \in After(10 * InputTime) /\ pc' = "top" /\ UNCHANGED <<gate, op>>
     \/ /\ "control" \in ev
        /\ \E t \in After(10 * InputTime), c \in Commands :
             clock' = t /\ gate' = Expire(t) /\ op' = c /\ pc' = "serve"
  /\ UNCHANGED <<ev, io, tx>>

\* A client's command is read; a client may send none.
Input ==
  /\ pc = "input"
  /\ \/ /\ clock' \in IF "control" \in ev THEN After(InputTime) ELSE {clock}
        /\ pc' = "top" /\ UNCHANGED <<gate, op>>
     \/ /\ "control" \in ev
        /\ \E t \in After(InputTime), c \in Commands :
             clock' = t /\ gate' = Expire(t) /\ op' = c /\ pc' = "serve"
  /\ UNCHANGED <<ev, io, tx>>

\* renew-lease; an expired or absent lease is an error.
Renew ==
  /\ pc = "serve" /\ op = "renew-lease" /\ pc' = "reply"
  /\ gate' = IF gate.released /\ gate.leased
             THEN [gate EXCEPT !.deadline = clock + Lease] ELSE gate
  /\ UNCHANGED <<clock, ev, op, io, tx>>

\* release and release-lease: the gate is open before the sockets are; the
\* UDP socket may stay closed, and a failing listener is an error that
\* leaves the gate released.
Release ==
  /\ pc = "serve" /\ op \in {"release", "release-lease"} /\ pc' = "reply"
  /\ \E d \in BOOLEAN, s \in BOOLEAN :
       /\ gate.data => d
       /\ IF EdgeTelemetry THEN gate.tcp => s ELSE s = gate.tcp
       /\ gate' = [gate EXCEPT !.released = TRUE, !.leased = (op = "release-lease"),
                               !.deadline = clock + Lease, !.tcp = s, !.data = d]
  /\ UNCHANGED <<clock, ev, op, io, tx>>

QuiesceData ==
  /\ pc = "serve" /\ op = "quiesce" /\ pc' = "reply"
  /\ gate' = [Hold EXCEPT !.tcp = gate.tcp, !.late = gate.late \ {"data"}]
  /\ UNCHANGED <<clock, ev, op, io, tx>>

Quiesce ==
  /\ pc = "serve" /\ op = "quiesce" /\ gate' = Hold /\ pc' = "reply"
  /\ UNCHANGED <<clock, ev, op, io, tx>>

\* probe sends one datagram and waits for its echo; probe-alpha and
\* probe-beta connect, then write a record and read it back.
Probe ==
  /\ pc = "serve" /\ op = "probe" /\ gate.released
  /\ Transmit(clock) /\ pc' = "wait" /\ UNCHANGED <<gate, clock, ev, op, io>>
ProbeWaits ==
  /\ pc = "wait" /\ clock < MaxTime /\ clock' \in After(ProbeTime) /\ pc' = "reply"
  /\ UNCHANGED <<gate, ev, op, io, tx>>
ProbeEnds ==
  /\ pc = "wait" /\ clock' \in After(ProbeTime) /\ pc' = "reply"
  /\ UNCHANGED <<gate, ev, op, io, tx>>
StreamProbe ==
  /\ pc = "serve" /\ op = "probe-stream" /\ gate.released /\ clock < Limit
  /\ Transmit(clock) /\ pc' = "connect" /\ io' = NewRecord(clock, "probe")
  /\ UNCHANGED <<gate, clock, ev, op>>
Connected ==
  /\ pc = "connect"
  /\ \E t \in After(RecordTime) :
       t < io.end /\ clock' = t /\ io' = NewRecord(t, "probe") /\ pc' = "write"
  /\ UNCHANGED <<gate, ev, op, tx>>

\* status, and probes of a held gate.
NoEffect ==
  /\ pc = "serve" /\ pc' = "reply"
  /\ op = "status" \/ op \in {"probe", "probe-stream"}
  /\ UNCHANGED <<gate, clock, ev, op, io, tx>>

Reply ==
  /\ pc = "reply" /\ gate' = Expire(clock) /\ op' = "none" /\ pc' = "top"
  /\ UNCHANGED <<clock, ev, io, tx>>

\* A peer sends to an open socket of a node that is held.
Arrive ==
  /\ ~gate.released
  /\ \E s \in {"data", "tcp", "source"} :
       gate[s] /\ gate' = [gate EXCEPT !.late = @ \cup {s}]
  /\ UNCHANGED <<pc, clock, ev, op, io, tx>>

Node ==
  \/ Interrupted \/ Poll \/ Accept \/ RecordFails \/ ReadChunk \/ WriteChunk \/ Echo
  \/ Generate \/ GeneratorThrows \/ SendSource \/ Drain \/ Input \/ Renew
  \/ Release \/ Quiesce \/ Probe \/ ProbeEnds \/ StreamProbe \/ Connected \/ NoEffect
  \/ Reply

Next == Node \/ Stop \/ Arrive

Spec == Init /\ [][Next]_vars
\* The loop never rests: every blocking call has a timeout.
FairSpec == Spec /\ WF_vars(Node)

(***************************************************************************)
(* Properties.                                                             *)
(***************************************************************************)
Places == {"top", "stream", "read", "write", "connect", "data", "generate", "source",
           "drain", "input", "serve", "wait", "reply", "exited"}
Gates == [released : BOOLEAN, leased : BOOLEAN, deadline : Nat,
          tcp : BOOLEAN, data : BOOLEAN, source : BOOLEAN,
          late : SUBSET {"data", "tcp", "source"}]
Records == [end : Nat, left : 0 .. Record + 2, role : {"none", "serve", "probe"}]

\* Types of all variables.
TypeOK ==
  /\ pc \in Places /\ gate \in Gates /\ clock \in 0 .. MaxTime
  /\ ev \subseteq {"control", "data", "tcp"} /\ op \in Commands \cup {"none"}
  /\ io \in Records /\ tx \in [at : Nat, odd : BOOLEAN]

\* What peers send while the gate is held is never answered, not even after
\* the next release: expire() and quiesce close the echo socket and the
\* listener, from which the node answers, and with them whatever waits
\* there.  The generator's socket stays open, but is only drained.
HeldIsDeaf == gate.late \subseteq {"source"}

permit == IF gate.released THEN Limit ELSE 0
Contract == INSTANCE TrafficGate WITH now <- clock

\* The node implements the contract: whatever peers, clients and the clock
\* do, each datagram and each chunk of a stream record leaves before the
\* deadline of the permit, and only a release reopens a lapsed gate.
GateImplements == Contract!Spec

\* A lapsed lease is noticed promptly: the gate never stays released for
\* longer past its deadline than the longest wait between two calls of
\* expire(), however peers trickle their records and clients their commands.
Longest == IF InputTime < ProbeTime THEN ProbeTime ELSE InputTime
LapseIsPrompt == gate.leased => clock < gate.deadline + Longest

\* A command that was read is answered.
CommandEnds == op # "none" ~> op = "none"
=============================================================================
