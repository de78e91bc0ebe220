---------------------------- MODULE CaptureWorker ----------------------------
(***************************************************************************)
(* One capture worker (capture/worker.cpp) with its PCAPNG writer          *)
(* (capture/writer.cpp), and the agent's artifacts request, which reads    *)
(* the worker's directory while the worker goes on.  Every step that       *)
(* changes the directory is an action, so that a kill or the reader can    *)
(* come between any two of them.  A packet is its number in the order the  *)
(* worker read it; a file is the sequence of the whole packets in it, with *)
(* its size: a write that fails may leave a part of its block behind.      *)
(***************************************************************************)
EXTENDS Naturals, Sequences, FiniteSets, Functions

CONSTANTS
  ByteBudget, RotateBytes, Snaplen,  \* of the capture's config.json
  SectionBytes, InterfaceBytes,      \* the two header blocks of a segment
  TrailerBytes,                      \* its interface statistics block
  PacketBytes,                       \* what a packet's block adds to the packet
  Overhead,                          \* the 4096 of the quota check
  MaxSegments,                       \* 1024 in the code
  MaxPackets, MaxGeneration, MaxFaults, MaxLaunches

ASSUME CaptureAssumption ==
  /\ {ByteBudget, RotateBytes, Snaplen, SectionBytes, InterfaceBytes,
      TrailerBytes, PacketBytes, Overhead, MaxSegments} \subseteq Nat \ {0}
  /\ SectionBytes + InterfaceBytes + TrailerBytes + PacketBytes =< Overhead
  /\ \A n \in {SectionBytes, InterfaceBytes, TrailerBytes} : n =< Snaplen + PacketBytes
  /\ 2 * Snaplen + Overhead < ByteBudget

VARIABLES
  pc, ctx,       \* what the worker does next, and on behalf of what
  st,            \* state and generation of the manifest in memory
  fd,            \* the writer has its segment file open
  seq, bytes, total, segs,  \* the writer's counters and finished segments
  partial, closed,          \* the files n.pcapng.partial and n.pcapng
  man,           \* manifest.json: at most one record
  marker, sock,  \* worker.started and control.sock exist
  read, lost,    \* packets taken from libpcap, and those not written
  used,          \* history: bytes written to segment files, which are never removed
  rd,            \* the artifacts request
  faults, launches,
  client         \* who sends requests: the agent, which lists artifacts and asks for no
                 \* rotation, or the qualification tools, which do the opposite

writer == <<fd, seq, bytes, total, segs>>
disk == <<partial, closed, used>>
traffic == <<read, lost>>
env == <<rd, launches, client>>
vars == <<pc, ctx, st, writer, disk, man, marker, sock, traffic, env, faults>>

HeaderBytes == SectionBytes + InterfaceBytes
Without(f, n) == Restrict(f, DOMAIN f \ {n})
With(f, n, v) == [i \in DOMAIN f \cup {n} |-> IF i = n THEN v ELSE f[i]]
OnDisk == (UNION {Range(partial[n].pkts) : n \in DOMAIN partial})
          \cup (UNION {Range(closed[n].pkts) : n \in DOMAIN closed})

Idle == [pc |-> "idle", indexed |-> {}, names |-> {}, found |-> {}, began |-> {}]

Init ==
  /\ pc = "unit" /\ ctx = "start" /\ st = [state |-> "starting", gen |-> 1]
  /\ fd = FALSE /\ seq = 0 /\ bytes = 0 /\ total = 0 /\ segs = <<>>
  /\ partial = <<>> /\ closed = <<>> /\ used = 0 /\ man = {}
  /\ marker = FALSE /\ sock = FALSE /\ read = 0 /\ lost = {}
  /\ rd = Idle /\ faults = 0 /\ launches = 1 /\ client \in {"agent", "tools"}

FitsUncounted(n) == bytes + n =< ByteBudget
\* block(): the budget is checked before a block is written.
Fits(n) == total + bytes + n =< ByteBudget

\* The open segment file grows by n bytes, and by the packets of s.
Grow(n, s) ==
  /\ partial' = [partial EXCEPT ![seq] = [pkts |-> @.pkts \o s, size |-> @.size + n]]
  /\ used' = used + n

\* A system call fails.
Fault == faults < MaxFaults /\ faults' = faults + 1
Fine == faults' = faults

RaiseRetry(opened) ==
  CASE ctx \in {"control", "adopt"} -> pc' = "loop" /\ ctx' = "loop" /\ st' = st
    [] OTHER -> /\ pc' = IF opened THEN "trailer" ELSE "persist"
                /\ ctx' = "catch" /\ st' = [st EXCEPT !.state = "failed"]

\* An exception: main's catch closes the writer if it is open and reports a
\* failure; a control request is answered with the error and the loop goes
\* on; within the catch itself it is swallowed.
Raise(opened) ==
  CASE ctx \in {"control", "adopt"} -> pc' = "loop" /\ ctx' = "loop" /\ st' = st
    [] ctx = "catch" -> /\ pc' = IF pc = "persist" THEN "gone" ELSE "persist"
                        /\ UNCHANGED <<ctx, st>>
    [] OTHER -> /\ pc' = IF opened THEN "trailer" ELSE "persist"
                /\ ctx' = "catch" /\ st' = [st EXCEPT !.state = "failed"]

StartAgain ==
  /\ pc = "unit" /\ marker' = TRUE /\ pc' = "setup"
  /\ UNCHANGED <<ctx, st, writer, disk, man, sock, traffic, env, faults>>

\* main() up to worker.started: a directory is used by one worker only, and
\* a second one leaves it as it is (fresh_start is false).
Start ==
  /\ pc = "unit"
  /\ marker' = TRUE
  /\ pc' = IF marker THEN "gone" ELSE "setup"
  /\ UNCHANGED <<ctx, st, writer, disk, man, sock, traffic, env, faults>>

\* The control socket, the namespace, the interface, libpcap and the filter.
Setup ==
  /\ pc = "setup"
  /\ \/ sock' = TRUE /\ pc' = "open" /\ UNCHANGED <<ctx, st>> /\ Fine
     \/ sock' \in BOOLEAN /\ Raise(FALSE) /\ Fault
  /\ UNCHANGED <<writer, disk, man, marker, traffic, env>>

\* Writer::open.
Open ==
  /\ pc = "open"
  /\ ~fd /\ seq < MaxSegments /\ seq \notin DOMAIN partial
  /\ total + HeaderBytes =< ByteBudget
  /\ partial' = With(partial, seq, [pkts |-> <<>>, size |-> HeaderBytes])
  /\ used' = used + HeaderBytes
  /\ fd' = TRUE /\ bytes' = HeaderBytes
  /\ IF ctx = "start" THEN /\ pc' = "persist" /\ ctx' = ctx
                           /\ st' = [st EXCEPT !.state = "active"]
                      ELSE pc' = "loop" /\ ctx' = "loop" /\ st' = st
  /\ UNCHANGED <<seq, total, segs, closed, man, marker, sock, traffic, env, faults>>

\* It throws with b bytes of headers written, and k of the block after them:
\* over the budget, or because the file, a write or the sync fails.
OpenThrows ==
  /\ pc = "open"
  /\ \/ /\ IF fd \/ seq >= MaxSegments \/ seq \in DOMAIN partial THEN Fine ELSE Fault
        /\ Raise(fd) /\ UNCHANGED <<fd, bytes, partial, used>>
     \/ /\ ~fd /\ seq < MaxSegments /\ seq \notin DOMAIN partial
        /\ \E b \in {0, SectionBytes, HeaderBytes} :
           LET block == IF b = 0 THEN SectionBytes ELSE InterfaceBytes
           IN /\ b > 0 => total + b =< ByteBudget
              /\ \E k \in 0 .. block - 1 :
                   /\ IF b < HeaderBytes /\ total + b + block > ByteBudget
                      THEN k = 0 /\ Fine
                      ELSE (b = HeaderBytes => k = 0) /\ Fault
                   /\ partial' = With(partial, seq, [pkts |-> <<>>, size |-> b + k])
                   /\ used' = used + b + k
              /\ bytes' = b
        /\ fd' = TRUE /\ Raise(TRUE)
  /\ UNCHANGED <<seq, total, segs, closed, man, marker, sock, traffic, env>>

\* Writer::packet, when there is a file and budget for it.
WritePacket(n) ==
  /\ fd /\ Fits(n)
  /\ Grow(n, <<read'>>)
  /\ bytes' = bytes + n

DrainIgnores(n) ==
  /\ pc \in {"loop", "flush"} /\ bytes < RotateBytes /\ read < MaxPackets
  /\ read' = read + 1
  /\ \/ WritePacket(n) /\ UNCHANGED <<pc, ctx, st, lost>> /\ Fine
     \/ /\ lost' = lost \cup {read'} /\ bytes' = bytes
        /\ \/ ~(fd /\ Fits(n)) /\ Fine /\ Raise(fd) /\ UNCHANGED <<partial, used>>
           \/ /\ fd /\ Fits(n) /\ Fault /\ UNCHANGED <<pc, ctx, st>>
              /\ \E k \in 0 .. n - 1 : Grow(k, <<>>)
  /\ UNCHANGED <<fd, seq, total, segs, closed, man, marker, sock, env>>

\* drain() and flush_pending(): one packet, whose block has n bytes.  One
\* that libpcap has handed over is lost if the writer refuses its block, or
\* leaves a part of it; bytes_ does not count the part.
Drain(n) ==
  /\ pc \in {"loop", "flush"} /\ bytes < RotateBytes /\ read < MaxPackets
  /\ read' = read + 1
  /\ \/ WritePacket(n) /\ UNCHANGED <<pc, ctx, st, lost>> /\ Fine
     \/ /\ lost' = lost \cup {read'} /\ Raise(fd) /\ bytes' = bytes
        /\ \/ ~(fd /\ Fits(n)) /\ Fine /\ UNCHANGED <<partial, used>>
           \/ fd /\ Fits(n) /\ Fault /\ \E k \in 0 .. n - 1 : Grow(k, <<>>)
  /\ UNCHANGED <<fd, seq, total, segs, closed, man, marker, sock, env>>

\* pcap_next_ex() fails.
ReadFails ==
  /\ pc \in {"loop", "flush"} /\ bytes < RotateBytes /\ Fault /\ Raise(fd)
  /\ UNCHANGED <<writer, disk, man, marker, sock, traffic, env>>

\* persist(): the manifest is replaced atomically.
AfterPersist ==
  CASE ctx \in {"start", "beat", "adopt"} -> pc' = "loop" /\ ctx' = "loop"
    [] ctx = "rotate" -> pc' = "quota" /\ ctx' = ctx
    [] ctx = "control" -> pc' = "open" /\ ctx' = ctx
    [] ctx = "final" -> pc' = "unlink" /\ ctx' = ctx
    [] ctx = "catch" -> pc' = "gone" /\ ctx' = ctx

Persist ==
  /\ pc = "persist"
  /\ man' = {[state |-> st.state, gen |-> st.gen, segs |-> segs]}
  /\ AfterPersist
  /\ UNCHANGED <<st, writer, disk, marker, sock, traffic, env, faults>>

\* It throws before the rename or after it.
PersistThrows ==
  /\ pc = "persist" /\ Fault
  /\ man' \in {man, {[state |-> st.state, gen |-> st.gen, segs |-> segs]}}
  /\ Raise(fd)
  /\ UNCHANGED <<writer, disk, marker, sock, traffic, env>>

\* The heartbeat of the loop: the free space, the interface and the sync of
\* the file are checked, then the manifest is written.
Heartbeat ==
  /\ pc = "loop"
  /\ \/ fd /\ pc' = "persist" /\ ctx' = "beat" /\ st' = st /\ Fine
     \/ ~fd /\ Raise(fd) /\ Fine
     \/ Raise(fd) /\ Fault
  /\ UNCHANGED <<writer, disk, man, marker, sock, traffic, env>>

\* close() does nothing when there is no open file.
StartClose == pc' = IF fd THEN "trailer" ELSE "persist"

\* Rotation by size, or by time.
Rotate ==
  /\ pc = "loop" /\ StartClose /\ ctx' = "rotate"
  /\ UNCHANGED <<st, writer, disk, man, marker, sock, traffic, env, faults>>

\* A control request is served when no rotation by size is due.
Request(op, g) ==
  /\ pc = "loop" /\ sock /\ bytes < RotateBytes
  /\ \/ /\ op = "adopt" /\ g > st.gen
        /\ st' = [st EXCEPT !.gen = g] /\ pc' = "persist" /\ ctx' = "adopt"
     \/ /\ op = "stop" /\ g = st.gen
        /\ pc' = "flush" /\ ctx' = "final" /\ st' = st
     \/ /\ op = "rotate" /\ g = st.gen /\ client = "tools"
        /\ pc' = "flush" /\ ctx' = "control" /\ st' = st
  /\ UNCHANGED <<writer, disk, man, marker, sock, traffic, env, faults>>

\* SIGTERM ends the loop like a stop.
Terminate ==
  /\ pc = "loop" /\ pc' = "flush" /\ ctx' = "final"
  /\ UNCHANGED <<st, writer, disk, man, marker, sock, traffic, env, faults>>

Flushed ==
  /\ pc = "flush" /\ StartClose
  /\ st' = IF ctx = "final" /\ ~fd THEN [st EXCEPT !.state = "closed"] ELSE st
  /\ UNCHANGED <<ctx, writer, disk, man, marker, sock, traffic, env, faults>>

\* Writer::close, up to the end of the file: the trailer and the sync.
Trailer ==
  /\ pc = "trailer"
  /\ \/ /\ Fits(TrailerBytes) /\ Fine /\ Grow(TrailerBytes, <<>>)
        /\ bytes' = bytes + TrailerBytes /\ fd' = FALSE /\ pc' = "link"
        /\ UNCHANGED <<ctx, st>>
     \/ ~Fits(TrailerBytes) /\ Fine /\ Raise(TRUE) /\ UNCHANGED <<bytes, fd, partial, used>>
     \/ /\ Fits(TrailerBytes) /\ Fault /\ Raise(TRUE) /\ UNCHANGED fd
        /\ \E k \in 0 .. TrailerBytes :
             /\ Grow(k, <<>>)
             /\ bytes' = IF k < TrailerBytes THEN bytes ELSE bytes + k
  /\ UNCHANGED <<seq, total, segs, closed, man, marker, sock, traffic, env>>

\* Publication: link without replacement, unlink, and the list of segments.
Link ==
  /\ pc = "link"
  /\ \/ /\ seq \notin DOMAIN closed /\ Fine
        /\ closed' = With(closed, seq, partial[seq])
        /\ pc' = "remove" /\ UNCHANGED <<ctx, st>>
     \/ /\ (IF seq \in DOMAIN closed THEN Fine ELSE Fault)
        /\ Raise(FALSE) /\ UNCHANGED closed
  /\ UNCHANGED <<writer, partial, used, man, marker, sock, traffic, env>>

PublishLeaving ==
  /\ pc = "remove"
  /\ partial' \in {partial, Without(partial, seq)}
  /\ segs' = Append(segs, [seq |-> seq, file |-> closed[seq], size |-> bytes])
  /\ seq' = seq + 1 /\ total' = total + bytes /\ bytes' = 0
  /\ pc' = "persist"
  /\ st' = IF ctx = "final" THEN [st EXCEPT !.state = "closed"] ELSE st
  /\ UNCHANGED <<ctx, fd, closed, used, man, marker, sock, traffic, env, faults>>

Publish ==
  /\ pc = "remove"
  /\ partial' = Without(partial, seq)
  /\ segs' = Append(segs, [seq |-> seq, file |-> closed[seq], size |-> bytes])
  /\ seq' = seq + 1 /\ total' = total + bytes /\ bytes' = 0
  /\ pc' = "persist"
  /\ st' = IF ctx = "final" THEN [st EXCEPT !.state = "closed"] ELSE st
  /\ UNCHANGED <<ctx, fd, closed, used, man, marker, sock, traffic, env, faults>>

\* unlink(), the sync of the directory or the hash fails; the hash comes
\* after sequence_++.
PublishThrows ==
  /\ pc = "remove" /\ Fault /\ Raise(FALSE)
  /\ \/ partial' \in {partial, Without(partial, seq)} /\ seq' = seq
     \/ partial' = Without(partial, seq) /\ seq' = seq + 1
  /\ UNCHANGED <<fd, bytes, total, segs, closed, used, man, marker, sock, traffic, env>>

QuotaTight ==
  /\ pc = "quota"
  /\ IF total + HeaderBytes > ByteBudget
     THEN Raise(FALSE)
     ELSE pc' = "open" /\ UNCHANGED <<ctx, st>>
  /\ UNCHANGED <<writer, disk, man, marker, sock, traffic, env, faults>>

\* After a rotation the worker gives up when little of the budget is left.
Quota ==
  /\ pc = "quota"
  /\ IF total + 2 * Snaplen + Overhead >= ByteBudget
     THEN Raise(FALSE)
     ELSE pc' = "open" /\ UNCHANGED <<ctx, st>>
  /\ UNCHANGED <<writer, disk, man, marker, sock, traffic, env, faults>>

Leave ==
  /\ pc = "unlink" /\ pc' = "gone" /\ sock' = FALSE
  /\ UNCHANGED <<ctx, st, writer, disk, man, marker, traffic, env, faults>>

\* The worker is killed, or its unit is started once more.
Kill ==
  /\ pc \notin {"unit", "gone"} /\ Fault
  /\ pc' = "gone" /\ fd' = FALSE
  /\ UNCHANGED <<ctx, st, seq, bytes, total, segs, disk, man, marker, sock,
                 traffic, env>>

Relaunch ==
  /\ pc = "gone" /\ launches < MaxLaunches /\ launches' = launches + 1
  /\ pc' = "unit" /\ ctx' = "start" /\ st' = [state |-> "starting", gen |-> 1]
  /\ fd' = FALSE /\ seq' = 0 /\ bytes' = 0 /\ total' = 0 /\ segs' = <<>>
  /\ UNCHANGED <<disk, man, marker, sock, traffic, rd, client, faults>>

(***************************************************************************)
(* artifacts(): the manifest, the directory, its files, the manifest.      *)
(***************************************************************************)
Listed == UNION {{<<"closed", m.segs[i].seq>> : i \in DOMAIN m.segs} : m \in man}
Content(name) == IF name[1] = "partial" THEN partial[name[2]].pkts ELSE closed[name[2]].pkts
Present(name) == name[2] \in IF name[1] = "partial" THEN DOMAIN partial ELSE DOMAIN closed

ArtifactsBegin ==
  /\ rd.pc = "idle" /\ client = "agent"
  /\ rd' = [Idle EXCEPT !.pc = "scan", !.indexed = Listed, !.began = OnDisk]
ArtifactsScanPartial ==
  /\ rd.pc = "scan"
  /\ rd' = [rd EXCEPT !.pc = "inspect", !.names = {"partial"} \X DOMAIN partial]

ArtifactsScan ==
  /\ rd.pc = "scan"
  /\ rd' = [rd EXCEPT !.pc = "inspect", !.names =
       ({"partial"} \X DOMAIN partial) \cup (({"closed"} \X DOMAIN closed) \ rd.indexed)]
\* A name that vanished since makes the whole request fail.
ArtifactsInspect ==
  /\ rd.pc = "inspect" /\ rd.names # {}
  /\ \E name \in rd.names :
       rd' = IF Present(name)
             THEN [rd EXCEPT !.names = @ \ {name}, !.found = @ \cup Range(Content(name))]
             ELSE Idle
ArtifactsList ==
  /\ rd.pc = "inspect" /\ rd.names = {}
  /\ rd' = [rd EXCEPT !.pc = "done",
              !.found = @ \cup UNION {Range(Content(name)) : name \in Listed}]
ArtifactsEnd == rd.pc = "done" /\ rd' = Idle

Artifacts ==
  /\ \/ ArtifactsBegin \/ ArtifactsScan \/ ArtifactsInspect
     \/ ArtifactsList \/ ArtifactsEnd
  /\ UNCHANGED <<pc, ctx, st, writer, disk, man, marker, sock, traffic,
                 launches, client, faults>>

Worker ==
  \/ Start \/ Setup \/ Open \/ OpenThrows \/ Persist \/ PersistThrows
  \/ Heartbeat \/ Rotate \/ Flushed \/ Trailer \/ Link \/ Publish
  \/ PublishThrows \/ Quota \/ Leave \/ ReadFails
  \/ \E n \in PacketBytes + 1 .. PacketBytes + Snaplen : Drain(n)

Next ==
  \/ Worker \/ Terminate \/ Kill \/ Relaunch \/ Artifacts
  \/ \E op \in {"adopt", "stop", "rotate"}, g \in 1 .. MaxGeneration : Request(op, g)

Spec == Init /\ [][Next]_vars
\* The process runs while it is alive; nobody has to send requests.
FairSpec == Spec /\ WF_vars(Worker)

(***************************************************************************)
(* Properties.                                                             *)
(***************************************************************************)
Files == [pkts : Seq(1 .. MaxPackets), size : Nat]
Entries == [seq : Nat, file : Files, size : Nat]

\* Types of all variables.
TypeOK ==
  /\ pc \in {"unit", "setup", "open", "persist", "loop", "flush", "trailer", "link",
             "remove", "quota", "unlink", "gone"}
  /\ ctx \in {"start", "loop", "beat", "rotate", "control", "adopt", "final", "catch"}
  /\ st \in [state : {"starting", "active", "closed", "failed"}, gen : 1 .. MaxGeneration]
  /\ fd \in BOOLEAN /\ {seq, bytes, total, read, used} \subseteq Nat
  /\ segs \in Seq(Entries)
  /\ \A f \in {partial, closed} : DOMAIN f \subseteq 0 .. MaxSegments /\ Range(f) \subseteq Files
  /\ man \subseteq [state : {"active", "closed", "failed"}, gen : 1 .. MaxGeneration,
                   segs : Seq(Entries)]
  /\ Cardinality(man) =< 1
  /\ {marker, sock} \subseteq BOOLEAN /\ lost \subseteq 1 .. MaxPackets
  /\ rd.pc \in {"idle", "scan", "inspect", "done"}
  /\ {rd.found, rd.began} \subseteq SUBSET (1 .. MaxPackets)
  /\ faults \in 0 .. MaxFaults /\ launches \in 1 .. MaxLaunches
  /\ client \in {"agent", "tools"}

\* Every segment the manifest lists is a published file whose content is the
\* one that was hashed, at every moment and after a kill: close() publishes
\* before persist() lists, and never replaces a file.  The recorded size,
\* which is what the writer counted, is the file's: a write that tore a block
\* ends the agent's capture, and shows only in the last segment of a manifest
\* that says "failed".
ManifestIsTrue ==
  \A m \in man : \A i \in DOMAIN m.segs :
    LET s == m.segs[i] IN
    /\ s.seq \in DOMAIN closed /\ closed[s.seq] = s.file
    /\ s.size # s.file.size /\ client = "agent" => m.state = "failed" /\ i = Len(m.segs)

\* The packets in the files of s.
Packets(s) == [i \in DOMAIN s |-> s[i].file.pkts]

\* The files of s hold the packets 1 .. k, each once and in order.
Accounts(s, k) ==
  /\ \A i \in DOMAIN s : Range(s[i]) \subseteq 1 .. k
  /\ \A p \in 1 .. k : \E i \in DOMAIN s : p \in Range(s[i])
  /\ \A i, j \in DOMAIN s : \A a \in DOMAIN s[i], b \in DOMAIN s[j] :
       i < j \/ (i = j /\ a < b) => s[i][a] < s[j][b]

\* A manifest that says "closed" accounts for every packet the worker took
\* from libpcap, once and in order, and leaves no partial file: an exception
\* in between makes the worker report "failed".  The agent's "closed"
\* coverage rests on this.  An exception in a rotation the tools request is
\* only answered, and the worker goes on.
ClosedIsComplete ==
  \A m \in man : m.state = "closed" /\ client = "agent" =>
    /\ Accounts(Packets(m.segs), read)
    /\ DOMAIN partial = {}

\* The files of an agent's capture pass its byte budget by less than one
\* block, whatever write, sync or publication fails when: bytes of a torn
\* block are not counted, but the worker writes at most a trailer after them.
\* (After a failed rotation the tools asked for, the worker goes on and
\* counts neither.)
WithinBudget == client = "agent" => used < ByteBudget + Snaplen + PacketBytes

\* The margin of the quota check: a segment begun by a rotation has room for
\* a packet of any length and for its trailer.  A requested rotation checks no
\* quota.
RoomAfterRotation ==
  pc = "loop" /\ fd /\ bytes = HeaderBytes /\ segs # <<>> /\ client = "agent" =>
    Fits(Snaplen + PacketBytes + TrailerBytes)

\* A reply of artifacts() leaves out no packet that was in the directory when
\* the request came, however the worker rotates, publishes or dies meanwhile.
ArtifactsComplete == rd.pc = "done" => rd.began \subseteq rd.found

\* The sequence t continues s.
Prefix(s, t) == Len(s) =< Len(t) /\ \A i \in 1 .. Len(s) : s[i] = t[i]

\* The manifest only advances: segments are kept, the generation does not
\* fall, a failure stays a failure and a closed capture is not active again,
\* also when the unit is started a second time.
ManifestAdvances ==
  [][\A m \in man : \E n \in man' :
       /\ Prefix(m.segs, n.segs) /\ m.gen =< n.gen
       /\ m.state = "failed" => n.state = "failed"
       /\ m.state = "closed" => n.state # "active"]_vars

\* A worker that was told to stop ends, also if its files cannot be closed.
StopEnds == ctx = "final" ~> pc = "gone"
=============================================================================
