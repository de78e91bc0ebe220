---------------------------- MODULE CaptureProofs ----------------------------
(***************************************************************************)
(* What a capture worker leaves in its directory, for every budget, segment *)
(* size, snap length, number of packets, faults and launches.               *)
(***************************************************************************)
EXTENDS CaptureWorker, TLAPS

(***************************************************************************)
(* The inductive invariant, one part per concern.                          *)
(***************************************************************************)
Running == pc \notin {"unit", "gone"}

\* Where the worker is and on whose behalf; the segment file is open exactly
\* where close() still has to end it.
Control ==
  /\ fd \in BOOLEAN /\ marker \in BOOLEAN
  /\ pc \in {"unit", "setup", "open", "persist", "loop", "flush", "trailer", "link",
             "remove", "quota", "unlink", "gone"}
  /\ pc = "loop" <=> ctx = "loop" /\ Running
  /\ ctx \in {"start", "loop", "beat", "rotate", "control", "adopt", "final", "catch"}
  /\ pc = "trailer" => fd
  /\ pc \in {"link", "remove"} => ~fd
  /\ pc = "quota" => ctx = "rotate"
  /\ pc = "flush" => ctx \in {"control", "final"}
  /\ pc = "open" => ctx \in {"start", "control", "rotate"}
  /\ ctx \in {"beat", "adopt"} /\ Running => pc = "persist"
  /\ ctx = "control" => client = "tools"
  /\ pc # "unit" => marker
  /\ st = [state |-> st.state, gen |-> st.gen]
  /\ pc \in {"unit", "setup"} => ctx = "start" /\ st.state = "starting" /\ ~fd
  /\ Running => (st.state = "failed" <=> ctx = "catch")

\* The byte counters: what is counted fits, and with the agent as the only
\* client a second segment is opened only with the margin of the quota check.
Budget ==
  /\ seq \in Nat /\ bytes \in Nat /\ total \in Nat
  /\ total + bytes =< ByteBudget
  /\ pc \in {"unit", "setup"} => seq = 0
  /\ client = "agent" /\ seq # 0 /\ (fd \/ pc = "open") =>
       total + 2 * Snaplen + Overhead < ByteBudget

\* A segment file is open, or written to its end and not yet published.
InHand == fd \/ pc \in {"link", "remove"}

\* The bytes in the files: all of them are counted until an exception ends
\* the agent's capture, and then less than one block is not.
Usage ==
  /\ used \in Nat
  /\ client = "agent" =>
       /\ used < ByteBudget + Snaplen + PacketBytes
       /\ Running /\ ctx # "catch" => used = total + bytes /\ (InHand \/ bytes = 0)
       /\ pc = "trailer" => used < total + bytes + Snaplen + PacketBytes
       /\ pc = "unit" /\ ~marker => used = 0 /\ total = 0 /\ bytes = 0

\* A file, and what the list of segments says of one.
File == [pkts : Seq(Nat), size : Nat]
Segment == [seq : Nat, file : File, size : Nat]

\* A directory of segment files.
Directory(f) ==
  /\ f = [n \in DOMAIN f |-> f[n]]
  /\ DOMAIN f \subseteq Nat
  /\ \A n \in DOMAIN f : f[n] \in File

Contents ==
  /\ read \in Nat /\ Directory(partial) /\ Directory(closed)
  /\ segs \in Seq(Segment) /\ (seq = 0 => segs = <<>>)
  /\ InHand => seq \in DOMAIN partial

\* The segments s are published with the content s says.
PublishedAs(s) ==
  \A i \in 1 .. Len(s) : s[i].seq \in DOMAIN closed /\ closed[s[i].seq] = s[i].file

Published ==
  /\ PublishedAs(segs)
  /\ \A m \in man : m.segs \in Seq(Segment) /\ PublishedAs(m.segs)
  /\ pc = "remove" => seq \in DOMAIN closed /\ closed[seq] = partial[seq]

\* The recorded sizes: each is the file's, but for the last segment, after an
\* exception.
Exact(s) == \A i \in 1 .. Len(s) : s[i].size = s[i].file.size
ButLast(s) == \A i \in 1 .. Len(s) : i = Len(s) \/ s[i].size = s[i].file.size

Recorded ==
  client = "agent" =>
    /\ ButLast(segs)
    /\ Running /\ (ctx # "catch" \/ pc \in {"trailer", "link", "remove"}) => Exact(segs)
    /\ Running /\ ctx # "catch" /\ InHand => partial[seq].size = bytes
    /\ \A m \in man : Exact(m.segs) \/ (m.state = "failed" /\ ButLast(m.segs))

\* What the worker will write next continues the manifest m.
Continues(m) ==
  /\ Len(m.segs) =< Len(segs)
  /\ \A i \in 1 .. Len(m.segs) : m.segs[i] = segs[i]
  /\ m.gen =< st.gen
  /\ m.state = "failed" => st.state = "failed"
  /\ m.state = "closed" => st.state # "active"

Manifest ==
  /\ st.gen \in Nat
  /\ \A m, n \in man : m = n
  /\ \A m \in man : m.gen \in Nat
  /\ man # {} => marker
  /\ pc = "setup" => man = {}
  /\ pc = "open" /\ ctx = "start" => man = {}
  /\ Running => \A m \in man : Continues(m)

\* The sizes are positive numbers, with the margins the code provides.
LEMMA Sizes ==
  /\ ByteBudget \in Nat /\ Snaplen \in Nat /\ SectionBytes \in Nat
  /\ InterfaceBytes \in Nat /\ TrailerBytes \in Nat /\ PacketBytes \in Nat /\ Overhead \in Nat
  /\ SectionBytes > 0 /\ InterfaceBytes > 0 /\ TrailerBytes > 0 /\ Snaplen > 0
  /\ SectionBytes + InterfaceBytes + TrailerBytes + PacketBytes =< Overhead
  /\ SectionBytes =< Snaplen + PacketBytes /\ InterfaceBytes =< Snaplen + PacketBytes
  /\ TrailerBytes =< Snaplen + PacketBytes
BY CaptureAssumption

\* Where an exception leads: out of the segment at hand, and, unless a request
\* is being served, into main's catch.
LEMMA RaiseFacts ==
  ASSUME NEW o, Raise(o)
  PROVE  /\ pc' \in {"loop", "persist", "trailer", "gone"}
         /\ st' = st \/ st' = [st EXCEPT !.state = "failed"]
         /\ ctx \notin {"control", "adopt"} => ctx' = "catch"
BY Zenon DEF Raise

\* Every step keeps the control state.
LEMMA ControlStep ==
  ASSUME Control, [Next]_vars
  PROVE  Control'
<1>1. CASE Start
  BY <1>1, Zenon DEF Start, Control, Running, writer, env
<1>2. CASE Setup
  BY <1>2, Zenon DEF Setup, Raise, Fine, Fault, Control, Running, writer, env
<1>3. CASE Open
  BY <1>3, Zenon DEF Open, Control, Running, env
<1>4. CASE OpenThrows
  BY <1>4, Zenon DEF OpenThrows, Raise, Fine, Fault, Control, Running, env
<1>5. CASE Persist
  BY <1>5, Zenon DEF Persist, AfterPersist, Control, Running, writer, env
<1>6. CASE PersistThrows
  BY <1>6, Zenon DEF PersistThrows, Raise, Fault, Control, Running, writer, env
<1>7. CASE Heartbeat
  BY <1>7, Zenon DEF Heartbeat, Raise, Fine, Fault, Control, Running, writer, env
<1>8. CASE Rotate
  BY <1>8, Zenon DEF Rotate, StartClose, Control, Running, writer, env
<1>9. CASE Flushed
  BY <1>9, Zenon DEF Flushed, StartClose, Control, Running, writer, env
<1>10. CASE Trailer
  BY <1>10, Zenon DEF Trailer, Raise, Fine, Fault, Control, Running, env
<1>11. CASE Link
  BY <1>11, Zenon DEF Link, Raise, Fine, Fault, Control, Running, writer, env
<1>12. CASE Publish
  BY <1>12, Zenon DEF Publish, Control, Running, env
<1>13. CASE PublishThrows
  BY <1>13, Zenon DEF PublishThrows, Raise, Fault, Control, Running, writer, env
<1>14. CASE Quota
  BY <1>14, Zenon DEF Quota, Raise, Control, Running, writer, env
<1>15. CASE Leave
  BY <1>15, Zenon DEF Leave, Control, Running, writer, env
<1>16. ASSUME NEW n \in PacketBytes + 1 .. PacketBytes + Snaplen, Drain(n) PROVE Control'
  BY <1>16, Zenon DEF Drain, Raise, WritePacket, Control, Running, writer, env
<1>17. CASE Terminate
  BY <1>17, Zenon DEF Terminate, Control, Running, writer, env
<1>18. CASE Kill
  BY <1>18, Zenon DEF Kill, Fault, Control, Running, env
<1>19. CASE Relaunch
  BY <1>19, Zenon DEF Relaunch, Control, Running
<1>20. ASSUME NEW op, NEW g \in 1 .. MaxGeneration, Request(op, g) PROVE Control'
  BY <1>20, Zenon DEF Request, Control, Running, writer, env
<1>21. CASE Artifacts
  BY <1>21, Zenon DEF Artifacts, Control, Running, writer
<1>22. CASE UNCHANGED vars
  BY <1>22, Zenon DEF vars, Control, Running, writer, env
<1>23. CASE ReadFails
  BY <1>23, Zenon DEF ReadFails, Raise, Fault, Control, Running, writer, env
<1> QED
  BY <1>1, <1>2, <1>3, <1>4, <1>5, <1>6, <1>7, <1>8, <1>9, <1>10, <1>11, <1>12,
      <1>13, <1>14, <1>15, <1>16, <1>17, <1>18, <1>19, <1>20, <1>21, <1>22, <1>23,
      Zenon DEF Next, Worker

\* Every step keeps the budget.
LEMMA BudgetStep ==
  ASSUME Control, Budget, [Next]_vars
  PROVE  Budget'
<1> USE Sizes
<1>1. CASE Start
  BY <1>1, Zenon DEF Start, Budget, writer, env
<1>2. CASE Setup
  BY <1>2, Zenon DEF Setup, Raise, Fine, Fault, Control, Budget,
      writer, env
<1>3. CASE Open
  <2>1. bytes' \in Nat /\ total + bytes' =< ByteBudget
    BY <1>3 DEF Open, HeaderBytes
  <2>2. pc' \in {"persist", "loop"} /\ pc = "open"
    BY <1>3, Zenon DEF Open
  <2>3. seq' = seq /\ total' = total /\ client' = client
    BY <1>3, Zenon DEF Open, env
  <2> QED BY <2>1, <2>2, <2>3, Zenon DEF Budget
<1>4. CASE OpenThrows
  <2>1. bytes' \in Nat /\ total + bytes' =< ByteBudget
    <3>1. \/ bytes' = bytes
          \/ /\ bytes' \in {0, SectionBytes, HeaderBytes}
             /\ bytes' > 0 => total + bytes' =< ByteBudget
      BY <1>4, Zenon DEF OpenThrows
    <3> QED BY <3>1 DEF Budget, HeaderBytes
  <2>2. pc' \notin {"unit", "setup", "open"} /\ pc = "open"
    BY <1>4, RaiseFacts, Zenon DEF OpenThrows
  <2>3. seq' = seq /\ total' = total /\ client' = client
    BY <1>4, Zenon DEF OpenThrows, env
  <2> QED BY <2>1, <2>2, <2>3, Zenon DEF Budget
<1>5. CASE Persist
  BY <1>5, Zenon DEF Persist, AfterPersist, Control, Budget, Running,
      writer, env
<1>6. CASE PersistThrows
  BY <1>6, Zenon DEF PersistThrows, Raise, Fault, Control, Budget,
      writer, env
<1>7. CASE Heartbeat
  BY <1>7, Zenon DEF Heartbeat, Raise, Fine, Fault, Control, Budget,
      writer, env
<1>8. CASE Rotate
  BY <1>8, Zenon DEF Rotate, StartClose, Budget, writer, env
<1>9. CASE Flushed
  BY <1>9, Zenon DEF Flushed, StartClose, Budget, writer, env
<1>10. CASE Trailer
  <2>1. bytes' \in Nat /\ total + bytes' =< ByteBudget
    <3>1. \/ bytes' = bytes
          \/ Fits(TrailerBytes) /\ bytes' = bytes + TrailerBytes
          \/ /\ Fits(TrailerBytes)
             /\ \E k \in 0 .. TrailerBytes : bytes' = IF k < TrailerBytes THEN bytes ELSE bytes + k
      BY <1>10, Zenon DEF Trailer
    <3> QED BY <3>1 DEF Budget, Fits
  <2>2. pc' \notin {"unit", "setup", "open"} /\ fd
    BY <1>10, RaiseFacts, Zenon DEF Trailer, Control
  <2>3. seq' = seq /\ total' = total /\ client' = client
    BY <1>10, Zenon DEF Trailer, env
  <2> QED BY <2>1, <2>2, <2>3, Zenon DEF Budget
<1>11. CASE Link
  BY <1>11, Zenon DEF Link, Raise, Fine, Fault, Control, Budget,
      writer, env
<1>12. CASE Publish
  <2>1. seq' = seq + 1 /\ bytes' = 0 /\ total' = total + bytes
    BY <1>12, Zenon DEF Publish
  <2>2. pc' = "persist" /\ ~fd'
    BY <1>12, Zenon DEF Publish, Control
  <2> QED BY <2>1, <2>2 DEF Budget
<1>13. CASE PublishThrows
  <2>1. seq' \in {seq, seq + 1} /\ bytes' = bytes /\ total' = total
    BY <1>13, Zenon DEF PublishThrows
  <2>2. pc' \notin {"unit", "setup", "open"} /\ ~fd'
    BY <1>13, RaiseFacts, Zenon DEF PublishThrows, Control
  <2> QED BY <2>1, <2>2 DEF Budget
<1>14. CASE Quota
  BY <1>14 DEF Quota, Raise, Control, Budget, writer, env
<1>15. CASE Leave
  BY <1>15, Zenon DEF Leave, Budget, writer, env
<1>16. ASSUME NEW n \in PacketBytes + 1 .. PacketBytes + Snaplen, Drain(n) PROVE Budget'
  <2>1. bytes' \in Nat /\ total + bytes' =< ByteBudget
    BY <1>16 DEF Drain, WritePacket, Budget, Fits
  <2>2. pc' \notin {"unit", "setup", "open"} /\ fd' = fd
    BY <1>16, RaiseFacts, Zenon DEF Drain, WritePacket, Control
  <2>3. seq' = seq /\ total' = total /\ client' = client
    BY <1>16, Zenon DEF Drain, env
  <2> QED BY <2>1, <2>2, <2>3, Zenon DEF Budget
<1>17. CASE Terminate
  BY <1>17, Zenon DEF Terminate, Budget, writer, env
<1>18. CASE Kill
  BY <1>18, Zenon DEF Kill, Fault, Budget, env
<1>19. CASE Relaunch
  BY <1>19 DEF Relaunch, Budget
<1>20. ASSUME NEW op, NEW g \in 1 .. MaxGeneration, Request(op, g) PROVE Budget'
  BY <1>20, Zenon DEF Request, Budget, writer, env
<1>21. CASE Artifacts
  BY <1>21, Zenon DEF Artifacts, Control, Budget, writer
<1>22. CASE UNCHANGED vars
  BY <1>22, Zenon DEF vars, Control, Budget, writer, env
<1>23. CASE ReadFails
  BY <1>23, Zenon DEF ReadFails, Raise, Fault, Control, Budget,
      writer, env
<1> QED
  BY <1>1, <1>2, <1>3, <1>4, <1>5, <1>6, <1>7, <1>8, <1>9, <1>10, <1>11, <1>12,
      <1>13, <1>14, <1>15, <1>16, <1>17, <1>18, <1>19, <1>20, <1>21, <1>22, <1>23,
      Zenon DEF Next, Worker

\* What adding a file to a directory gives.
LEMMA WithFacts ==
  ASSUME NEW f, Directory(f), NEW n \in Nat, NEW v \in File
  PROVE  /\ Directory(With(f, n, v)) /\ DOMAIN With(f, n, v) = DOMAIN f \cup {n}
         /\ With(f, n, v)[n] = v
         /\ \A k \in DOMAIN f : k # n => With(f, n, v)[k] = f[k]
BY Zenon DEF Directory, With

\* What removing a file gives.
LEMMA WithoutFacts ==
  ASSUME NEW f, Directory(f), NEW n
  PROVE  /\ Directory(Without(f, n)) /\ DOMAIN Without(f, n) = DOMAIN f \ {n}
         /\ \A k \in DOMAIN f : k # n => Without(f, n)[k] = f[k]
BY Zenon DEF Directory, Without, Restrict

\* What more bytes, and perhaps a packet, in a file give.
LEMMA GrowFacts ==
  ASSUME NEW n \in Nat, NEW s \in Seq(Nat), Grow(n, s), Directory(partial), seq \in DOMAIN partial
  PROVE  /\ Directory(partial') /\ DOMAIN partial' = DOMAIN partial
         /\ partial'[seq].pkts = partial[seq].pkts \o s
         /\ partial'[seq].size = partial[seq].size + n
         /\ \A k \in DOMAIN partial : k # seq => partial'[k] = partial[k]
<1> DEFINE new == [pkts |-> partial[seq].pkts \o s, size |-> partial[seq].size + n]
<1>1. new \in File
  <2>1. partial[seq].pkts \in Seq(Nat) /\ partial[seq].size \in Nat
    BY Zenon DEF Directory, File
  <2> QED BY <2>1 DEF File
<1>2. partial' = [partial EXCEPT ![seq] = new]
  BY Zenon DEF Grow
<1> HIDE DEF new
<1>3. Directory(partial') /\ DOMAIN partial' = DOMAIN partial
  BY <1>1, <1>2, Zenon DEF Directory
<1>4. partial'[seq] = new /\ \A k \in DOMAIN partial : k # seq => partial'[k] = partial[k]
  BY <1>2, Zenon
<1>5. new.pkts = partial[seq].pkts \o s /\ new.size = partial[seq].size + n
  BY DEF new
<1> QED BY <1>3, <1>4, <1>5, Zenon

\* What the steps that write do to the segment file.
LEMMA OpenThrowsFacts ==
  ASSUME OpenThrows
  PROVE  \/ fd' = fd /\ partial' = partial /\ used' = used /\ bytes' = bytes
         \/ /\ ~fd /\ fd' /\ seq \notin DOMAIN partial
            /\ \E b \in Nat, k \in Nat :
                 /\ partial' = With(partial, seq, [pkts |-> <<>>, size |-> b + k])
                 /\ used' = used + b + k /\ bytes' = b
                 /\ k < Snaplen + PacketBytes
                 /\ b > 0 => total + b =< ByteBudget
<1> USE Sizes
<1>1. CASE Raise(fd) /\ UNCHANGED <<fd, bytes, partial, used>>
  BY <1>1, Zenon
<1>2. ASSUME NEW b \in {0, SectionBytes, HeaderBytes},
             NEW k \in 0 .. (IF b = 0 THEN SectionBytes ELSE InterfaceBytes) - 1
      PROVE  b \in Nat /\ k \in Nat /\ k < Snaplen + PacketBytes
  BY DEF HeaderBytes
<1>3. CASE ~(Raise(fd) /\ UNCHANGED <<fd, bytes, partial, used>>)
  <2>1. /\ ~fd /\ fd' /\ seq \notin DOMAIN partial
        /\ \E b \in {0, SectionBytes, HeaderBytes} :
             /\ b > 0 => total + b =< ByteBudget
             /\ \E k \in 0 .. (IF b = 0 THEN SectionBytes ELSE InterfaceBytes) - 1 :
                  /\ partial' = With(partial, seq, [pkts |-> <<>>, size |-> b + k])
                  /\ used' = used + b + k
             /\ bytes' = b
    BY <1>3, Zenon DEF OpenThrows
  <2>2. PICK b \in {0, SectionBytes, HeaderBytes} :
             /\ b > 0 => total + b =< ByteBudget
             /\ \E k \in 0 .. (IF b = 0 THEN SectionBytes ELSE InterfaceBytes) - 1 :
                  /\ partial' = With(partial, seq, [pkts |-> <<>>, size |-> b + k])
                  /\ used' = used + b + k
             /\ bytes' = b
    BY <2>1, Zenon
  <2>3. PICK k \in 0 .. (IF b = 0 THEN SectionBytes ELSE InterfaceBytes) - 1 :
             /\ partial' = With(partial, seq, [pkts |-> <<>>, size |-> b + k])
             /\ used' = used + b + k
    BY <2>2, Zenon
  <2>4. b \in Nat /\ k \in Nat /\ k < Snaplen + PacketBytes
    BY <1>2
  <2> QED BY <2>1, <2>2, <2>3, <2>4, Zenon
<1> QED BY <1>1, <1>3, Zenon

LEMMA TrailerFacts ==
  ASSUME Trailer
  PROVE  \/ UNCHANGED <<bytes, fd, partial, used>> /\ Raise(TRUE)
         \/ /\ Fits(TrailerBytes) /\ Grow(TrailerBytes, <<>>) /\ TrailerBytes \in Nat
            /\ bytes' = bytes + TrailerBytes /\ ((Raise(TRUE) /\ fd' = fd) \/ (~fd' /\ pc' = "link"))
         \/ /\ Fits(TrailerBytes) /\ Raise(TRUE) /\ fd' = fd /\ bytes' = bytes
            /\ \E k \in Nat : k < TrailerBytes /\ Grow(k, <<>>)
<1>1. CASE \E k \in 0 .. TrailerBytes :
             /\ Grow(k, <<>>)
             /\ bytes' = IF k < TrailerBytes THEN bytes ELSE bytes + k
  <2>1. PICK k \in 0 .. TrailerBytes :
             /\ Grow(k, <<>>)
             /\ bytes' = IF k < TrailerBytes THEN bytes ELSE bytes + k
    BY <1>1, Zenon
  <2>2. k \in Nat /\ (k < TrailerBytes \/ k = TrailerBytes) /\ ~(TrailerBytes < TrailerBytes)
    BY Sizes
  <2>3. CASE k < TrailerBytes
    BY <2>1, <2>2, <2>3, Sizes, Zenon DEF Trailer
  <2>4. CASE k = TrailerBytes
    <3>1. Grow(TrailerBytes, <<>>) /\ bytes' = bytes + TrailerBytes
      BY <2>1, <2>2, <2>4
    <3> QED BY <2>2, <2>4, <3>1, Sizes, Zenon DEF Trailer
  <2> QED BY <2>2, <2>3, <2>4, Zenon
<1>2. CASE ~\E k \in 0 .. TrailerBytes :
             /\ Grow(k, <<>>)
             /\ bytes' = IF k < TrailerBytes THEN bytes ELSE bytes + k
  BY <1>2, Sizes, Zenon DEF Trailer
<1> QED BY <1>1, <1>2, Zenon

LEMMA DrainFacts ==
  ASSUME NEW n \in PacketBytes + 1 .. PacketBytes + Snaplen, Drain(n)
  PROVE  \/ /\ Raise(fd) /\ bytes' = bytes /\ partial' = partial /\ used' = used
         \/ /\ fd /\ Raise(fd) /\ bytes' = bytes
            /\ \E k \in Nat : k < Snaplen + PacketBytes /\ Grow(k, <<>>)
         \/ /\ fd /\ Fits(n) /\ n \in Nat /\ bytes' = bytes + n /\ Grow(n, <<read'>>)
            /\ UNCHANGED <<pc, ctx, st>>
<1>1. n \in Nat /\ \A k \in 0 .. n - 1 : k \in Nat /\ k < Snaplen + PacketBytes
  BY Sizes
<1> QED BY <1>1, Zenon DEF Drain, WritePacket

\* Every step keeps the shape of the directory.
LEMMA ContentsStep ==
  ASSUME Control, Budget, Contents, Published, [Next]_vars
  PROVE  Contents'
<1>1. CASE Start
  BY <1>1, Zenon DEF Start, Contents, InHand, writer, disk, traffic
<1>2. CASE Setup
  BY <1>2, Zenon DEF Setup, Raise, Fine, Fault, Contents, InHand, writer, disk, traffic
<1>3. CASE Open
  <2> DEFINE new == [pkts |-> <<>>, size |-> HeaderBytes]
  <2>1. seq \in Nat /\ new \in File
    BY Sizes DEF Budget, File, HeaderBytes
  <2>2. Directory(partial') /\ DOMAIN partial' = DOMAIN partial \cup {seq}
    BY <1>3, <2>1, WithFacts, Zenon DEF Open, Contents
  <2> QED BY <1>3, <2>2, Zenon DEF Open, Contents, InHand, Control, traffic
<1>4. CASE OpenThrows
  <2>1. Directory(partial') /\ (fd' => seq \in DOMAIN partial')
    <3>1. CASE fd' = fd /\ partial' = partial
      BY <3>1, Zenon DEF Contents, InHand
    <3>2. ASSUME NEW b \in Nat, NEW k \in Nat,
                 partial' = With(partial, seq, [pkts |-> <<>>, size |-> b + k])
          PROVE  Directory(partial') /\ seq \in DOMAIN partial'
      <4> DEFINE new == [pkts |-> <<>>, size |-> b + k]
      <4>1. seq \in Nat /\ new \in File /\ Directory(partial)
        BY DEF Budget, File, Contents
      <4>2. partial' = With(partial, seq, new)
        BY <3>2
      <4> HIDE DEF new
      <4>3. Directory(With(partial, seq, new)) /\ DOMAIN With(partial, seq, new) = DOMAIN partial \cup {seq}
        BY <4>1, WithFacts
      <4> QED BY <4>2, <4>3
    <3> QED BY <1>4, <3>1, <3>2, OpenThrowsFacts, Zenon
  <2>2. pc' \notin {"link", "remove"}
    BY <1>4, RaiseFacts, Zenon DEF OpenThrows
  <2> QED BY <1>4, <2>1, <2>2, Zenon DEF OpenThrows, Contents, InHand, traffic
<1>5. CASE Persist
  BY <1>5, Zenon DEF Persist, AfterPersist, Contents, InHand, Control, Running, writer, disk,
      traffic
<1>6. CASE PersistThrows
  BY <1>6, Zenon DEF PersistThrows, Raise, Fault, Contents, InHand, writer, disk, traffic
<1>7. CASE Heartbeat
  BY <1>7, Zenon DEF Heartbeat, Raise, Fine, Fault, Contents, InHand, writer, disk, traffic
<1>8. CASE Rotate
  BY <1>8, Zenon DEF Rotate, StartClose, Contents, InHand, writer, disk, traffic
<1>9. CASE Flushed
  BY <1>9, Zenon DEF Flushed, StartClose, Contents, InHand, writer, disk, traffic
<1>10. CASE Trailer
  <2>1. seq \in DOMAIN partial /\ Directory(partial)
    BY <1>10, Zenon DEF Trailer, Control, Contents, InHand
  <2>2. Directory(partial') /\ DOMAIN partial' = DOMAIN partial
    <3>1. CASE partial' = partial
      BY <2>1, <3>1, Zenon
    <3>2. ASSUME NEW k \in Nat, Grow(k, <<>>)
          PROVE  Directory(partial') /\ DOMAIN partial' = DOMAIN partial
      <4>1. <<>> \in Seq(Nat)
        OBVIOUS
      <4> QED BY <2>1, <3>2, <4>1, GrowFacts, Zenon
    <3> QED BY <1>10, <3>1, <3>2, TrailerFacts, Zenon
  <2> QED BY <1>10, <2>1, <2>2, Zenon DEF Trailer, Contents, InHand, traffic
<1>11. CASE Link
  <2>1. Directory(closed')
    <3>1. partial[seq] \in File /\ seq \in Nat
      BY <1>11, Zenon DEF Link, Contents, InHand, Directory
    <3>2. Directory(closed) /\ Directory(With(closed, seq, partial[seq]))
      BY <3>1, WithFacts, Zenon DEF Contents, InHand
    <3> QED BY <1>11, <3>2, Zenon DEF Link
  <2>2. pc' \in {"loop", "persist", "trailer", "gone"} \/ pc' = "remove"
    BY <1>11, RaiseFacts, Zenon DEF Link
  <2> QED BY <1>11, <2>1, <2>2, Zenon DEF Link, Contents, InHand, writer, traffic
<1>12. CASE Publish
  <2>1. Directory(partial')
    BY <1>12, WithoutFacts, Zenon DEF Publish, Contents, InHand
  <2>2. segs' \in Seq(Segment) /\ seq' # 0
    <3>1. [seq |-> seq, file |-> closed[seq], size |-> bytes] \in Segment
      BY <1>12 DEF Publish, Published, Contents, Directory, Segment, Budget
    <3>2. /\ segs' = Append(segs, [seq |-> seq, file |-> closed[seq], size |-> bytes])
          /\ seq' = seq + 1
      BY <1>12, Zenon DEF Publish
    <3> QED BY <3>1, <3>2 DEF Contents, Budget
  <2>3. ~fd' /\ pc' = "persist"
    BY <1>12, Zenon DEF Publish, Control
  <2> QED BY <1>12, <2>1, <2>2, <2>3, Zenon DEF Publish, Contents, InHand, traffic
<1>13. CASE PublishThrows
  <2>1. Directory(partial')
    <3>1. Directory(partial) /\ Directory(Without(partial, seq))
      BY WithoutFacts, Zenon DEF Contents
    <3> QED BY <1>13, <3>1, Zenon DEF PublishThrows
  <2>2. ~InHand'
    BY <1>13, RaiseFacts, Zenon DEF PublishThrows, Control, InHand
  <2>3. seq' = 0 => seq = 0
    BY <1>13 DEF PublishThrows, Budget
  <2> QED BY <1>13, <2>1, <2>2, <2>3, Zenon DEF PublishThrows, Contents, traffic
<1>14. CASE Quota
  BY <1>14, Zenon DEF Quota, Raise, Contents, InHand, writer, disk, traffic
<1>15. CASE Leave
  BY <1>15, Zenon DEF Leave, Contents, InHand, writer, disk, traffic
<1>16. ASSUME NEW n \in PacketBytes + 1 .. PacketBytes + Snaplen, Drain(n) PROVE Contents'
  <2>1. read' = read + 1 /\ fd' = fd /\ seq' = seq /\ closed' = closed /\ segs' = segs
    BY <1>16, Zenon DEF Drain
  <2>2. Directory(partial') /\ DOMAIN partial' = DOMAIN partial
    <3>1. CASE partial' = partial
      BY <3>1, Zenon DEF Contents
    <3>2. ASSUME fd, NEW k \in Nat, NEW s \in Seq(Nat), Grow(k, s)
          PROVE  Directory(partial') /\ DOMAIN partial' = DOMAIN partial
      BY <3>2, GrowFacts, Zenon DEF Contents, InHand
    <3>3. <<>> \in Seq(Nat) /\ <<read'>> \in Seq(Nat)
      <4>1. read \in Nat
        BY DEF Contents
      <4> QED BY <2>1, <4>1
    <3> QED BY <1>16, <3>1, <3>2, <3>3, DrainFacts, Zenon
  <2>3. pc' \notin {"link", "remove"}
    BY <1>16, RaiseFacts, Zenon DEF Drain, WritePacket
  <2> QED BY <2>1, <2>2, <2>3 DEF Contents, InHand
<1>17. CASE Terminate
  BY <1>17, Zenon DEF Terminate, Contents, InHand, writer, disk, traffic
<1>18. CASE Kill
  BY <1>18, Zenon DEF Kill, Fault, Contents, InHand, disk, traffic
<1>19. CASE Relaunch
  BY <1>19 DEF Relaunch, Contents, InHand, disk, traffic
<1>20. ASSUME NEW op, NEW g \in 1 .. MaxGeneration, Request(op, g) PROVE Contents'
  BY <1>20, Zenon DEF Request, Contents, InHand, writer, disk, traffic
<1>21. CASE Artifacts
  BY <1>21, Zenon DEF Artifacts, Contents, InHand, writer, disk, traffic
<1>22. CASE UNCHANGED vars
  BY <1>22, Zenon DEF vars, Contents, InHand, writer, disk, traffic
<1>23. CASE ReadFails
  BY <1>23, Zenon DEF ReadFails, Raise, Fault, Contents, InHand, writer, disk, traffic
<1> QED
  BY <1>1, <1>2, <1>3, <1>4, <1>5, <1>6, <1>7, <1>8, <1>9, <1>10, <1>11, <1>12,
      <1>13, <1>14, <1>15, <1>16, <1>17, <1>18, <1>19, <1>20, <1>21, <1>22, <1>23,
      Zenon DEF Next, Worker

\* Every step keeps the bytes in the files near those that are counted.
LEMMA UsageStep ==
  ASSUME Control, Budget, Contents, Usage, [Next]_vars
  PROVE  Usage'
<1> USE Sizes
<1>0. client = "agent" /\ Running /\ ctx # "catch" => used < total + bytes + Snaplen + PacketBytes
  BY DEF Usage, Budget
<1>1. CASE Start
  <2>1. client = "agent" /\ Running' => used = 0 /\ total = 0 /\ bytes = 0
    BY <1>1, Zenon DEF Start, Usage, Running, env
  <2>2. client = "agent" /\ Running' => used = total + bytes /\ bytes = 0
    BY <2>1
  <2> QED BY <1>1, <2>2, Zenon DEF Start, Usage, Running, writer, disk, env
<1>2. CASE Setup
  BY <1>2, <1>0, Zenon DEF Setup, Raise, Fine, Fault, Usage, InHand, Control, Running, writer, disk, env
<1>3. CASE Open
  <2>0. /\ total' = total /\ used' = used + HeaderBytes /\ bytes' = HeaderBytes
        /\ total + HeaderBytes =< ByteBudget
    BY <1>3, Zenon DEF Open
  <2>1. client = "agent" => used' = total' + bytes' /\ total' + bytes' =< ByteBudget
    <3>1. client = "agent" => used = total + bytes /\ bytes = 0
      BY <1>3, Zenon DEF Open, Usage, InHand, Control, Running
    <3>2. client = "agent" => used = total
      BY <3>1 DEF Budget
    <3>3. HeaderBytes \in Nat /\ total \in Nat /\ ByteBudget \in Nat
      BY Sizes DEF Budget, HeaderBytes
    <3> QED BY <2>0, <3>2, <3>3
  <2>2. used' \in Nat /\ total' \in Nat /\ bytes' \in Nat
    BY <2>0 DEF Usage, Budget, HeaderBytes
  <2>3. ASSUME client = "agent" PROVE used' < ByteBudget + Snaplen + PacketBytes
    <3>1. used' =< ByteBudget
      BY <2>1, <2>3, Zenon
    <3> QED BY <2>2, <3>1, Sizes
  <2>4. fd' /\ client' = client /\ pc' \in {"persist", "loop"}
    BY <1>3, Zenon DEF Open, env
  <2> QED BY <2>1, <2>2, <2>3, <2>4, Zenon DEF Usage, InHand
<1>4. CASE OpenThrows
  <2>1. CASE UNCHANGED <<fd, partial, used, bytes>>
    BY <1>0, <1>4, <2>1, Zenon DEF OpenThrows, Raise, Usage, InHand, Control, Running, env
  <2>2. ASSUME ~fd, fd', NEW b \in Nat, NEW k \in Nat, used' = used + b + k, bytes' = b,
               k < Snaplen + PacketBytes, b > 0 => total + b =< ByteBudget
        PROVE  Usage'
    <3>1. total' = total /\ client' = client /\ pc = "open"
      BY <1>4, Zenon DEF OpenThrows, env
    <3>2. client = "agent" => used = total /\ bytes = 0
      BY <2>2, <3>1 DEF Usage, InHand, Control, Running, Budget
    <3>3. /\ used' \in Nat
          /\ client = "agent" => /\ used' < ByteBudget + Snaplen + PacketBytes
                                 /\ used' < total' + bytes' + Snaplen + PacketBytes
      BY <2>2, <3>1, <3>2 DEF Usage, Budget
    <3>4. client = "agent" => pc' = "trailer" /\ ctx' = "catch"
      BY <1>4, <2>2, Zenon DEF OpenThrows, Raise, Control
    <3> QED BY <3>1, <3>3, <3>4, Zenon DEF Usage
  <2> QED BY <1>4, <2>1, <2>2, OpenThrowsFacts, Zenon
<1>5. CASE Persist
  BY <1>5, <1>0, Zenon DEF Persist, AfterPersist, Usage, InHand, Control, Running, writer, disk, env
<1>6. CASE PersistThrows
  BY <1>6, <1>0, Zenon DEF PersistThrows, Raise, Fault, Usage, InHand, Control, Running, writer, disk, env
<1>7. CASE Heartbeat
  BY <1>7, <1>0, Zenon DEF Heartbeat, Raise, Fine, Fault, Usage, InHand, Control, Running, writer, disk, env
<1>8. CASE Rotate
  BY <1>8, <1>0, Zenon DEF Rotate, StartClose, Usage, InHand, Control, Running, writer, disk, env
<1>9. CASE Flushed
  BY <1>9, <1>0, Zenon DEF Flushed, StartClose, Usage, InHand, Control, Running, writer, disk, env
<1>10. CASE Trailer
  <2>0. /\ total' = total /\ client' = client /\ pc = "trailer" /\ fd /\ total \in Nat
        /\ bytes \in Nat /\ used \in Nat
    BY <1>10, Zenon DEF Trailer, env, Control, Budget, Usage
  <2>1. Raise(TRUE) /\ client = "agent" => ctx' = "catch" /\ pc' \in {"trailer", "persist"}
                                           /\ (ctx = "catch" => pc' = "persist")
    BY <2>0, Zenon DEF Raise, Control, Running
  <2>2. CASE UNCHANGED <<bytes, fd, partial, used>> /\ Raise(TRUE)
    BY <1>0, <2>0, <2>1, <2>2, Zenon DEF Usage
  <2>3. CASE /\ Fits(TrailerBytes) /\ Grow(TrailerBytes, <<>>)
             /\ bytes' = bytes + TrailerBytes
             /\ (Raise(TRUE) /\ fd' = fd) \/ (~fd' /\ pc' = "link")
    <3>1. /\ used' = used + TrailerBytes /\ total + bytes + TrailerBytes =< ByteBudget
      BY <2>3, Zenon DEF Grow, Fits
    <3>2. /\ used' \in Nat
          /\ client = "agent" => /\ used' < ByteBudget + Snaplen + PacketBytes
                                 /\ used' < total' + bytes' + Snaplen + PacketBytes
      BY <2>0, <2>3, <3>1 DEF Usage
    <3>3. client = "agent" /\ ctx # "catch" => used' = total' + bytes'
      BY <2>0, <2>3, <3>1 DEF Usage, Running
    <3>4. CASE Raise(TRUE)
      BY <2>0, <2>1, <3>2, <3>4, Zenon DEF Usage
    <3>5. CASE pc' = "link"
      <4>1. ctx' = ctx
        BY <1>10, <3>5, Zenon DEF Trailer, Raise
      <4> QED BY <2>0, <3>2, <3>3, <3>5, <4>1, Zenon DEF Usage, InHand
    <3> QED BY <2>3, <3>4, <3>5, Zenon
  <2>4. ASSUME NEW k \in Nat, k < TrailerBytes, Grow(k, <<>>), Fits(TrailerBytes), Raise(TRUE),
               bytes' = bytes
        PROVE  Usage'
    <3>1. /\ used' = used + k /\ total + bytes + TrailerBytes =< ByteBudget
      BY <2>4, Zenon DEF Grow, Fits
    <3>2. /\ used' \in Nat
          /\ client = "agent" => used' < ByteBudget + Snaplen + PacketBytes
      BY <2>0, <2>4, <3>1 DEF Usage
    <3>3. client = "agent" /\ ctx # "catch" => used' < total' + bytes' + Snaplen + PacketBytes
      BY <2>0, <2>4, <3>1 DEF Usage, Running
    <3> QED BY <2>0, <2>1, <2>4, <3>2, <3>3, Zenon DEF Usage
  <2> QED BY <1>10, <2>2, <2>3, <2>4, TrailerFacts, Zenon
<1>11. CASE Link
  BY <1>11, <1>0, Zenon DEF Link, Raise, Fine, Fault, Usage, InHand, Control, Running, writer, disk, env
<1>12. CASE Publish
  <2>1. total' = total + bytes /\ bytes' = 0 /\ used' = used /\ client' = client
    BY <1>12, Zenon DEF Publish, env
  <2>2. total + bytes = (total + bytes) + 0
    BY DEF Budget
  <2> QED BY <1>12, <2>1, <2>2, Zenon DEF Publish, Usage, Running
<1>13. CASE PublishThrows
  BY <1>13, <1>0, Zenon DEF PublishThrows, Raise, Fault, Usage, InHand, Control, Running, writer, disk, env
<1>14. CASE Quota
  BY <1>14, <1>0, Zenon DEF Quota, Raise, Usage, InHand, Control, Running, writer, disk, env
<1>15. CASE Leave
  BY <1>15, <1>0, Zenon DEF Leave, Usage, InHand, Control, Running, writer, disk, env
<1>16. ASSUME NEW n \in PacketBytes + 1 .. PacketBytes + Snaplen, Drain(n) PROVE Usage'
  <2>0. /\ total' = total /\ client' = client /\ fd' = fd /\ total \in Nat /\ pc \in {"loop", "flush"}
        /\ bytes \in Nat /\ used \in Nat /\ seq' = seq
    BY <1>16, Zenon DEF Drain, env, Control, Budget, Usage
  <2>1. client = "agent" => ctx \notin {"catch", "adopt", "control"} /\ Running
    BY <2>0, Zenon DEF Control, Running
  <2>2. Raise(fd) /\ client = "agent" => ctx' = "catch" /\ pc' \in {"trailer", "persist"}
    BY <2>0, <2>1, Zenon DEF Raise
  <2>3. CASE Raise(fd) /\ bytes' = bytes /\ used' = used
    BY <1>0, <2>0, <2>1, <2>2, <2>3, Zenon DEF Usage
  <2>4. ASSUME Raise(fd), bytes' = bytes, NEW k \in Nat, k < Snaplen + PacketBytes, Grow(k, <<>>)
        PROVE  Usage'
    <3>1. used' = used + k
      BY <2>4, Zenon DEF Grow
    <3>2. /\ used' \in Nat
          /\ client = "agent" => /\ used' < ByteBudget + Snaplen + PacketBytes
                                 /\ used' < total' + bytes' + Snaplen + PacketBytes
      BY <2>0, <2>1, <2>4, <3>1 DEF Usage, Budget
    <3> QED BY <2>0, <2>2, <2>4, <3>2, Zenon DEF Usage
  <2>5. CASE /\ fd /\ Fits(n) /\ n \in Nat /\ bytes' = bytes + n /\ Grow(n, <<read'>>)
             /\ UNCHANGED <<pc, ctx, st>>
    <3>1. used' = used + n /\ total + bytes + n =< ByteBudget
      BY <2>5, Zenon DEF Grow, Fits
    <3>2. /\ used' \in Nat
          /\ client = "agent" => /\ used' < ByteBudget + Snaplen + PacketBytes
                                 /\ used' = total' + bytes'
      BY <2>0, <2>1, <2>5, <3>1 DEF Usage
    <3> QED BY <2>0, <2>5, <3>2, Zenon DEF Usage, InHand
  <2> QED BY <1>16, <2>3, <2>4, <2>5, DrainFacts, Zenon
<1>17. CASE Terminate
  BY <1>17, <1>0, Zenon DEF Terminate, Usage, InHand, Control, Running, writer, disk, env
<1>18. CASE Kill
  BY <1>18, <1>0, Zenon DEF Kill, Fault, Usage, InHand, Control, Running, writer, disk, env
<1>19. CASE Relaunch
  BY <1>19, Zenon DEF Relaunch, Usage, Control, Running, disk
<1>20. ASSUME NEW op, NEW g \in 1 .. MaxGeneration, Request(op, g) PROVE Usage'
  BY <1>20, <1>0, Zenon DEF Request, Usage, InHand, Control, Running, writer, disk, env
<1>21. CASE Artifacts
  BY <1>21, <1>0, Zenon DEF Artifacts, Usage, InHand, Control, Running, writer, disk, env
<1>22. CASE UNCHANGED vars
  BY <1>22, <1>0, Zenon DEF vars, Usage, InHand, Control, Running, writer, disk, env
<1>23. CASE ReadFails
  BY <1>23, <1>0, Zenon DEF ReadFails, Raise, Fault, Usage, InHand, Control, Running, writer, disk, env
<1> QED
  BY <1>1, <1>2, <1>3, <1>4, <1>5, <1>6, <1>7, <1>8, <1>9, <1>10, <1>11, <1>12,
      <1>13, <1>14, <1>15, <1>16, <1>17, <1>18, <1>19, <1>20, <1>21, <1>22, <1>23,
      Zenon DEF Next, Worker

(***************************************************************************)
(* What any step may do to the segments, the manifest and the files.       *)
(***************************************************************************)
Entry == [state |-> st.state, gen |-> st.gen, segs |-> segs]
NewSegment == [seq |-> seq, file |-> closed[seq], size |-> bytes]

\* The list of segments only grows while a worker runs, the manifest is
\* replaced as a whole, and a publication begins with a fresh link.
Moves ==
  /\ client' = client /\ (marker => marker')
  /\ pc \in {"unit", "gone"} => pc' \in {"unit", "gone", "setup"}
  /\ \/ segs' = segs /\ seq' \in {seq, seq + 1}
     \/ /\ pc = "remove" /\ pc' = "persist" /\ ctx' = ctx
        /\ segs' = Append(segs, NewSegment) /\ seq' = seq + 1
     \/ pc = "gone" /\ pc' = "unit" /\ segs' = <<>> /\ seq' = 0
  /\ man' = man \/ (Running /\ man' = {Entry})
  /\ \/ closed' = closed
     \/ seq \notin DOMAIN closed /\ closed' = With(closed, seq, partial[seq]) /\ pc = "link"
  /\ pc' = "remove" =>
       /\ partial' = partial /\ seq' = seq
       /\ \/ pc = "remove" /\ closed' = closed
          \/ seq \notin DOMAIN closed /\ closed' = With(closed, seq, partial[seq])

\* That is all a step does to them.
LEMMA MovesStep ==
  ASSUME Control, [Next]_vars
  PROVE  Moves
<1>1. CASE Start
  BY <1>1, Zenon DEF Start, Moves, writer, disk, env
<1>2. CASE Setup
  BY <1>2, Zenon DEF Setup, Raise, Fine, Fault, Moves, writer, disk, env
<1>3. CASE Open
  BY <1>3, Zenon DEF Open, Moves, env
<1>4. CASE OpenThrows
  BY <1>4, Zenon DEF OpenThrows, Raise, Fine, Fault, Moves, env
<1>5. CASE Persist
  BY <1>5, Zenon DEF Persist, AfterPersist, Moves, Control, Entry, Running, writer,
      disk, env
<1>6. CASE PersistThrows
  BY <1>6, Zenon DEF PersistThrows, Raise, Fault, Moves, Entry, Running, writer,
      disk, env
<1>7. CASE Heartbeat
  BY <1>7, Zenon DEF Heartbeat, Raise, Fine, Fault, Moves, writer, disk, env
<1>8. CASE Rotate
  BY <1>8, Zenon DEF Rotate, StartClose, Moves, writer, disk, env
<1>9. CASE Flushed
  BY <1>9, Zenon DEF Flushed, StartClose, Moves, writer, disk, env
<1>10. CASE Trailer
  BY <1>10, Zenon DEF Trailer, Raise, Fine, Fault, Moves, disk, env
<1>11. CASE Link
  BY <1>11, Zenon DEF Link, Raise, Fine, Fault, Moves, writer, env
<1>12. CASE Publish
  BY <1>12, Zenon DEF Publish, NewSegment, Moves, env
<1>13. CASE PublishThrows
  BY <1>13, Zenon DEF PublishThrows, Raise, Fault, Moves, writer, env
<1>14. CASE Quota
  BY <1>14, Zenon DEF Quota, Raise, Moves, writer, disk, env
<1>15. CASE Leave
  BY <1>15, Zenon DEF Leave, Moves, writer, disk, env
<1>16. ASSUME NEW n \in PacketBytes + 1 .. PacketBytes + Snaplen, Drain(n) PROVE Moves
  BY <1>16, Zenon DEF Drain, Raise, WritePacket, Moves, writer, disk, env
<1>17. CASE Terminate
  BY <1>17, Zenon DEF Terminate, Moves, writer, disk, env
<1>18. CASE Kill
  BY <1>18, Zenon DEF Kill, Fault, Moves, disk, env
<1>19. CASE Relaunch
  BY <1>19, Zenon DEF Relaunch, Moves, disk
<1>20. ASSUME NEW op, NEW g \in 1 .. MaxGeneration, Request(op, g) PROVE Moves
  BY <1>20, Zenon DEF Request, Moves, writer, disk, env
<1>21. CASE Artifacts
  BY <1>21, Zenon DEF Artifacts, Moves, writer, disk
<1>22. CASE UNCHANGED vars
  BY <1>22, Zenon DEF vars, Moves, writer, disk, env
<1>23. CASE ReadFails
  BY <1>23, Zenon DEF ReadFails, Raise, Fault, Moves, writer, disk, env
<1> QED
  BY <1>1, <1>2, <1>3, <1>4, <1>5, <1>6, <1>7, <1>8, <1>9, <1>10, <1>11, <1>12,
      <1>13, <1>14, <1>15, <1>16, <1>17, <1>18, <1>19, <1>20, <1>21, <1>22, <1>23,
      Zenon DEF Next, Worker

\* A published file is never replaced, removed or changed.
ClosedKept == \A n \in DOMAIN closed : n \in DOMAIN closed' /\ closed'[n] = closed[n]

\* It follows from what a step may do.
LEMMA ClosedStep ==
  ASSUME Contents, Moves
  PROVE  ClosedKept
<1>1. CASE closed' = closed
  BY <1>1, Zenon DEF ClosedKept
<1>2. CASE seq \notin DOMAIN closed /\ closed' = With(closed, seq, partial[seq]) /\ pc = "link"
  <2>1. seq \in Nat /\ partial[seq] \in File /\ Directory(closed)
    BY <1>2, Zenon DEF Contents, InHand, Directory
  <2>2. /\ DOMAIN closed' = DOMAIN closed \cup {seq}
        /\ \A k \in DOMAIN closed : k # seq => closed'[k] = closed[k]
    <3> DEFINE new == With(closed, seq, partial[seq])
    <3>1. /\ DOMAIN new = DOMAIN closed \cup {seq}
          /\ \A k \in DOMAIN closed : k # seq => new[k] = closed[k]
      BY <2>1, WithFacts, Zenon
    <3> QED BY <1>2, <3>1, Zenon
  <2> QED BY <1>2, <2>2, Zenon DEF ClosedKept
<1> QED BY <1>1, <1>2, Zenon DEF Moves

\* So what was published stays published.
LEMMA StaysPublished ==
  ASSUME ClosedKept, NEW s, PublishedAs(s)
  PROVE  \A i \in 1 .. Len(s) : s[i].seq \in DOMAIN closed' /\ closed'[s[i].seq] = s[i].file
<1> TAKE i \in 1 .. Len(s)
<1>1. s[i].seq \in DOMAIN closed /\ closed[s[i].seq] = s[i].file
  BY Zenon DEF PublishedAs
<1> QED BY <1>1, Zenon DEF ClosedKept

\* What a new entry of the list of segments is.
LEMMA NewSegmentFacts ==
  ASSUME Budget, Contents, Published, pc = "remove"
  PROVE  /\ NewSegment \in Segment /\ NewSegment.seq = seq /\ NewSegment.size = bytes
         /\ NewSegment.file = closed[seq] /\ closed[seq] = partial[seq] /\ closed[seq] \in File
         /\ seq \in DOMAIN closed
<1>1. seq \in Nat /\ bytes \in Nat /\ closed[seq] \in File /\ closed[seq] = partial[seq]
      /\ seq \in DOMAIN closed
  BY Zenon DEF Budget, Contents, Published, Directory
<1> QED BY <1>1, Zenon DEF NewSegment, Segment

\* What appending to the list of segments gives.
LEMMA AppendFacts ==
  ASSUME NEW T, NEW s \in Seq(T), NEW e \in T
  PROVE  /\ Append(s, e) \in Seq(T) /\ Len(s) \in Nat /\ Len(Append(s, e)) = Len(s) + 1
         /\ DOMAIN s = 1 .. Len(s) /\ DOMAIN Append(s, e) = 1 .. Len(s) + 1
         /\ Append(s, e)[Len(s) + 1] = e
         /\ \A i \in 1 .. Len(s) : Append(s, e)[i] = s[i]
OBVIOUS

\* The manifest and the list of segments tell what is published.
LEMMA PublishedStep ==
  ASSUME Control, Budget, Contents, Published, Moves
  PROVE  Published'
<1>1. ClosedKept
  BY ClosedStep, Zenon
<1>2. PublishedAs(segs)'
  <2>1. CASE segs' = segs
    BY <1>1, <2>1, StaysPublished, Zenon DEF Published, PublishedAs
  <2>2. CASE pc = "remove" /\ segs' = Append(segs, NewSegment)
    <3>1. /\ segs \in Seq(Segment) /\ NewSegment \in Segment /\ NewSegment.seq = seq
          /\ NewSegment.file = closed[seq] /\ seq \in DOMAIN closed
      BY <2>2, NewSegmentFacts, Zenon DEF Contents
    <3>2. \A i \in 1 .. Len(segs) : segs[i].seq \in DOMAIN closed' /\ closed'[segs[i].seq] = segs[i].file
      BY <1>1, StaysPublished, Zenon DEF Published
    <3>3. NewSegment.seq \in DOMAIN closed' /\ closed'[NewSegment.seq] = NewSegment.file
      BY <1>1, <3>1, Zenon DEF ClosedKept
    <3>4. /\ Len(segs) \in Nat /\ Len(segs') = Len(segs) + 1 /\ segs'[Len(segs) + 1] = NewSegment
          /\ \A i \in 1 .. Len(segs) : segs'[i] = segs[i]
      <4>1. /\ Len(segs) \in Nat /\ Len(Append(segs, NewSegment)) = Len(segs) + 1
            /\ Append(segs, NewSegment)[Len(segs) + 1] = NewSegment
            /\ \A i \in 1 .. Len(segs) : Append(segs, NewSegment)[i] = segs[i]
        BY <3>1, AppendFacts
      <4> QED BY <2>2, <4>1, Zenon
    <3>5. ASSUME NEW i \in 1 .. Len(segs')
          PROVE  segs'[i].seq \in DOMAIN closed' /\ closed'[segs'[i].seq] = segs'[i].file
      <4>1. i = Len(segs) + 1 \/ i \in 1 .. Len(segs)
        BY <3>4
      <4> QED BY <3>2, <3>3, <3>4, <4>1, Zenon
    <3> QED BY <3>5, Zenon DEF PublishedAs
  <2>3. CASE segs' = <<>>
    BY <2>3 DEF PublishedAs
  <2> QED BY <2>1, <2>2, <2>3, Zenon DEF Moves
<1>3. \A m \in man' : m.segs \in Seq(Segment) /\ PublishedAs(m.segs)'
  <2> SUFFICES ASSUME NEW m \in man'
               PROVE  m.segs \in Seq(Segment) /\ PublishedAs(m.segs)'
    OBVIOUS
  <2>1. m.segs \in Seq(Segment) /\ PublishedAs(m.segs)
    <3>1. CASE m \in man
      BY <3>1, Zenon DEF Published
    <3>2. CASE m = Entry
      BY <3>2, Zenon DEF Entry, Published, Contents
    <3> QED BY <3>1, <3>2, Zenon DEF Moves
  <2> QED BY <1>1, <2>1, StaysPublished, Zenon DEF PublishedAs
<1>4. ASSUME pc' = "remove" PROVE seq' \in DOMAIN closed' /\ closed'[seq'] = partial'[seq']
  <2>1. partial' = partial /\ seq' = seq
    BY <1>4, Zenon DEF Moves
  <2>2. CASE pc = "remove" /\ closed' = closed
    BY <2>1, <2>2, Zenon DEF Published
  <2>3. CASE seq \notin DOMAIN closed /\ closed' = With(closed, seq, partial[seq])
    <3>1. seq \in Nat /\ Directory(closed)
      BY Zenon DEF Contents, Budget
    <3> QED BY <2>1, <2>3, <3>1, Zenon DEF With
  <2> QED BY <1>4, <2>2, <2>3, Zenon DEF Moves
<1> QED BY <1>2, <1>3, <1>4, Zenon DEF Published

\* While no exception has come, the segment at hand has the size that is
\* counted, and what an exception leads to does not go back.
Counts ==
  client = "agent" =>
    /\ Running' /\ (ctx' # "catch" \/ pc' \in {"trailer", "link", "remove"}) =>
         \/ Running /\ (ctx # "catch" \/ pc \in {"trailer", "link", "remove"})
         \/ pc = "unit"
    /\ Running' /\ ctx' # "catch" => (Running /\ ctx # "catch") \/ pc = "unit"
    /\ Running' /\ ctx' # "catch" /\ InHand' => partial'[seq'].size = bytes'

\* Every step does so.
LEMMA CountsStep ==
  ASSUME Control, Budget, Contents, Recorded, [Next]_vars
  PROVE  Counts
<1>1. CASE Start
  BY <1>1, Zenon DEF Start, Counts, Recorded, InHand, Control, Running, writer, disk, env
<1>2. CASE Setup
  BY <1>2, Zenon DEF Setup, Raise, Fine, Fault, Counts, Recorded, InHand, Control, Running, writer, disk, env
<1>3. CASE Open
  <2>1. partial'[seq].size = HeaderBytes
    <3> DEFINE new == [pkts |-> <<>>, size |-> HeaderBytes]
    <3>1. partial' = With(partial, seq, new)
      BY <1>3, Zenon DEF Open
    <3> HIDE DEF new
    <3>2. partial'[seq] = new
      BY <3>1, Zenon DEF With
    <3> QED BY <3>2 DEF new
  <2> QED BY <1>3, <2>1, Zenon DEF Open, Counts, InHand, Control, Running, env
<1>4. CASE OpenThrows
  BY <1>4, Zenon DEF OpenThrows, Raise, Counts, Control, Running, env
<1>5. CASE Persist
  BY <1>5, Zenon DEF Persist, AfterPersist, Counts, Recorded, InHand, Control, Running, writer, disk, env
<1>6. CASE PersistThrows
  BY <1>6, Zenon DEF PersistThrows, Raise, Fault, Counts, Recorded, InHand, Control, Running, writer, disk, env
<1>7. CASE Heartbeat
  BY <1>7, Zenon DEF Heartbeat, Raise, Fine, Fault, Counts, Recorded, InHand, Control, Running, writer, disk, env
<1>8. CASE Rotate
  BY <1>8, Zenon DEF Rotate, StartClose, Counts, Recorded, InHand, Control, Running, writer, disk, env
<1>9. CASE Flushed
  BY <1>9, Zenon DEF Flushed, StartClose, Counts, Recorded, InHand, Control, Running, writer, disk, env
<1>10. CASE Trailer
  <2>0. pc = "trailer" /\ fd /\ seq' = seq /\ client' = client
    BY <1>10, Zenon DEF Trailer, Control, env
  <2>1. CASE Raise(TRUE)
    BY <2>0, <2>1, Zenon DEF Raise, Counts, Control, Running
  <2>2. CASE Grow(TrailerBytes, <<>>) /\ bytes' = bytes + TrailerBytes /\ ~Raise(TRUE)
    <3>1. seq \in DOMAIN partial /\ Directory(partial) /\ <<>> \in Seq(Nat)
      BY <2>0 DEF Contents, InHand
    <3>2. partial'[seq].size = partial[seq].size + TrailerBytes
      BY <2>2, <3>1, Sizes, GrowFacts, Zenon
    <3>3. ctx' = ctx
      BY <1>10, <2>2, Zenon DEF Trailer
    <3> QED BY <2>0, <2>2, <3>2, <3>3, Zenon DEF Counts, Recorded, InHand, Running
  <2> QED BY <1>10, <2>1, <2>2, Zenon DEF Trailer
<1>11. CASE Link
  BY <1>11, Zenon DEF Link, Raise, Fine, Fault, Counts, Recorded, InHand, Control, Running, writer, disk, env
<1>12. CASE Publish
  BY <1>12, Zenon DEF Publish, Counts, InHand, Control, Running, env
<1>13. CASE PublishThrows
  BY <1>13, Zenon DEF PublishThrows, Raise, Fault, Counts, Recorded, InHand, Control, Running, writer, disk, env
<1>14. CASE Quota
  BY <1>14, Zenon DEF Quota, Raise, Counts, Recorded, InHand, Control, Running, writer, disk, env
<1>15. CASE Leave
  BY <1>15, Zenon DEF Leave, Counts, Recorded, InHand, Control, Running, writer, disk, env
<1>16. ASSUME NEW n \in PacketBytes + 1 .. PacketBytes + Snaplen, Drain(n) PROVE Counts
  <2>0. seq' = seq /\ client' = client /\ fd' = fd /\ pc \in {"loop", "flush"}
    BY <1>16, Zenon DEF Drain, env
  <2>1. CASE Raise(fd)
    BY <2>0, <2>1, Zenon DEF Raise, Counts, Control, Running
  <2>2. CASE fd /\ n \in Nat /\ bytes' = bytes + n /\ Grow(n, <<read'>>) /\ UNCHANGED <<pc, ctx, st>>
    <3>1. seq \in DOMAIN partial /\ Directory(partial) /\ <<read'>> \in Seq(Nat)
      BY <1>16, <2>2 DEF Contents, InHand, Drain
    <3>2. partial'[seq].size = partial[seq].size + n
      BY <2>2, <3>1, GrowFacts, Zenon
    <3> QED BY <2>0, <2>2, <3>2, Zenon DEF Counts, Recorded, InHand, Running
  <2> QED BY <1>16, <2>1, <2>2, DrainFacts, Zenon
<1>17. CASE Terminate
  BY <1>17, Zenon DEF Terminate, Counts, Recorded, InHand, Control, Running, writer, disk, env
<1>18. CASE Kill
  BY <1>18, Zenon DEF Kill, Fault, Counts, Recorded, InHand, Control, Running, writer, disk, env
<1>19. CASE Relaunch
  BY <1>19, Zenon DEF Relaunch, Counts, Running
<1>20. ASSUME NEW op, NEW g \in 1 .. MaxGeneration, Request(op, g) PROVE Counts
  BY <1>20, Zenon DEF Request, Counts, Recorded, InHand, Control, Running, writer, disk, env
<1>21. CASE Artifacts
  BY <1>21, Zenon DEF Artifacts, Counts, Recorded, InHand, Control, Running, writer, disk, env
<1>22. CASE UNCHANGED vars
  BY <1>22, Zenon DEF vars, Counts, Recorded, InHand, Control, Running, writer, disk, env
<1>23. CASE ReadFails
  BY <1>23, Zenon DEF ReadFails, Raise, Fault, Counts, Recorded, InHand, Control, Running, writer, disk, env
<1> QED
  BY <1>1, <1>2, <1>3, <1>4, <1>5, <1>6, <1>7, <1>8, <1>9, <1>10, <1>11, <1>12,
      <1>13, <1>14, <1>15, <1>16, <1>17, <1>18, <1>19, <1>20, <1>21, <1>22, <1>23,
      Zenon DEF Next, Worker

\* So the recorded sizes are those of the files, up to the first exception.
LEMMA RecordedStep ==
  ASSUME Control, Budget, Contents, Published, Moves, Counts, Recorded
  PROVE  Recorded'
<1> SUFFICES ASSUME client = "agent" PROVE Recorded'
  BY Zenon DEF Recorded, Moves
<1>0. segs \in Seq(Segment) /\ client' = client
  BY Zenon DEF Contents, Moves
<1>1. pc = "unit" => segs = <<>>
  BY Zenon DEF Budget, Contents
<1>2. Exact(<<>>) /\ ButLast(<<>>)
  BY DEF Exact, ButLast
<1>3. ASSUME pc = "remove", segs' = Append(segs, NewSegment)
      PROVE  ButLast(segs') /\ (ctx # "catch" => Exact(segs'))
  <2>1. Exact(segs) /\ NewSegment \in Segment
    BY <1>3, NewSegmentFacts, Zenon DEF Recorded, Running
  <2>2. /\ Len(segs) \in Nat /\ Len(segs') = Len(segs) + 1 /\ segs'[Len(segs) + 1] = NewSegment
        /\ \A i \in 1 .. Len(segs) : segs'[i] = segs[i]
    <3>1. /\ Len(segs) \in Nat /\ Len(Append(segs, NewSegment)) = Len(segs) + 1
          /\ Append(segs, NewSegment)[Len(segs) + 1] = NewSegment
          /\ \A i \in 1 .. Len(segs) : Append(segs, NewSegment)[i] = segs[i]
      BY <1>0, <2>1, AppendFacts
    <3> QED BY <1>3, <3>1, Zenon
  <2>3. ctx # "catch" => NewSegment.size = NewSegment.file.size
    BY <1>3, NewSegmentFacts, Zenon DEF Recorded, Running, InHand
  <2>4. \A i \in 1 .. Len(segs') : i = Len(segs) + 1 \/ i \in 1 .. Len(segs)
    BY <2>2
  <2>5. \A i \in 1 .. Len(segs) : segs'[i].size = segs'[i].file.size
    BY <2>1, <2>2, Zenon DEF Exact
  <2> QED BY <2>2, <2>3, <2>4, <2>5, Zenon DEF Exact, ButLast
<1>4. ButLast(segs')
  <2>1. CASE segs' = segs
    BY <2>1, Zenon DEF Recorded
  <2>2. CASE segs' = <<>>
    BY <1>2, <2>2, Zenon
  <2> QED BY <1>3, <2>1, <2>2, Zenon DEF Moves
<1>5. ASSUME Running', ctx' # "catch" \/ pc' \in {"trailer", "link", "remove"} PROVE Exact(segs')
  <2>1. CASE segs' = segs
    BY <1>1, <1>2, <1>5, <2>1, Zenon DEF Counts, Recorded
  <2>2. CASE segs' = <<>>
    BY <1>2, <2>2, Zenon
  <2>3. CASE pc = "remove" /\ pc' = "persist" /\ ctx' = ctx /\ segs' = Append(segs, NewSegment)
    BY <1>3, <1>5, <2>3, Zenon
  <2> QED BY <2>1, <2>2, <2>3, Zenon DEF Moves
<1>6. ASSUME NEW m \in man' PROVE Exact(m.segs) \/ (m.state = "failed" /\ ButLast(m.segs))
  <2>1. CASE m \in man
    BY <2>1, Zenon DEF Recorded
  <2>2. CASE Running /\ m = Entry
    <3>1. m.segs = segs /\ m.state = st.state
      BY <2>2, Zenon DEF Entry
    <3> QED BY <2>2, <3>1, Zenon DEF Recorded, Control
  <2> QED BY <2>1, <2>2, Zenon DEF Moves
<1> QED BY <1>0, <1>4, <1>5, <1>6, Zenon DEF Recorded, Counts

\* What the worker would write only advances, and it becomes active only
\* before it has written anything.
Grows ==
  /\ st'.gen \in Nat /\ st.gen =< st'.gen
  /\ st.state = "failed" => st'.state = "failed"
  /\ st'.state = "active" => st.state = "active" \/ (man = {} /\ man' = {})

\* Every step of a running worker does so.
LEMMA GrowsStep ==
  ASSUME Control, Manifest, Running, Running', [Next]_vars
  PROVE  Grows
<1>1. CASE Start
  BY <1>1 DEF Start, Grows, Control, Manifest
<1>2. CASE Setup
  BY <1>2 DEF Setup, Raise, Fine, Fault, Grows, Control, Manifest
<1>3. CASE Open
  BY <1>3 DEF Open, Grows, Control, Manifest
<1>4. CASE OpenThrows
  BY <1>4 DEF OpenThrows, Raise, Fine, Fault, Grows, Control, Manifest
<1>5. CASE Persist
  BY <1>5 DEF Persist, AfterPersist, Grows, Control, Manifest
<1>6. CASE PersistThrows
  BY <1>6 DEF PersistThrows, Raise, Fault, Grows, Control, Manifest
<1>7. CASE Heartbeat
  BY <1>7 DEF Heartbeat, Raise, Fine, Fault, Grows, Control, Manifest
<1>8. CASE Rotate
  BY <1>8 DEF Rotate, StartClose, Grows, Control, Manifest
<1>9. CASE Flushed
  BY <1>9 DEF Flushed, StartClose, Grows, Control, Manifest
<1>10. CASE Trailer
  <2>1. st' = st \/ st' = [st EXCEPT !.state = "failed"]
    BY <1>10, RaiseFacts, Zenon DEF Trailer
  <2> QED BY <2>1 DEF Grows, Control, Manifest
<1>11. CASE Link
  BY <1>11 DEF Link, Raise, Fine, Fault, Grows, Control, Manifest
<1>12. CASE Publish
  BY <1>12 DEF Publish, Grows, Control, Manifest
<1>13. CASE PublishThrows
  BY <1>13 DEF PublishThrows, Raise, Fault, Grows, Control, Manifest
<1>14. CASE Quota
  BY <1>14 DEF Quota, Raise, Grows, Control, Manifest
<1>15. CASE Leave
  BY <1>15 DEF Leave, Grows, Control, Manifest
<1>16. ASSUME NEW n \in PacketBytes + 1 .. PacketBytes + Snaplen, Drain(n) PROVE Grows
  BY <1>16 DEF Drain, Raise, WritePacket, Grows, Control, Manifest
<1>17. CASE Terminate
  BY <1>17 DEF Terminate, Grows, Control, Manifest
<1>18. CASE Kill
  BY <1>18 DEF Kill, Fault, Grows, Control, Manifest
<1>19. CASE Relaunch
  BY <1>19, Zenon DEF Relaunch, Running
<1>20. ASSUME NEW op, NEW g \in 1 .. MaxGeneration, Request(op, g) PROVE Grows
  BY <1>20 DEF Request, Grows, Control, Manifest
<1>21. CASE Artifacts
  BY <1>21 DEF Artifacts, Grows, Control, Manifest
<1>22. CASE UNCHANGED vars
  BY <1>22 DEF vars, Grows, Control, Manifest
<1>23. CASE ReadFails
  BY <1>23 DEF ReadFails, Raise, Fault, Grows, Control, Manifest
<1> QED
  BY <1>1, <1>2, <1>3, <1>4, <1>5, <1>6, <1>7, <1>8, <1>9, <1>10, <1>11, <1>12,
      <1>13, <1>14, <1>15, <1>16, <1>17, <1>18, <1>19, <1>20, <1>21, <1>22, <1>23,
      Zenon DEF Next, Worker

\* Whatever continues the manifest goes on doing so.
LEMMA ContinuesStep ==
  ASSUME Budget, Contents, Published, Manifest, Moves, Grows, Running, Running', NEW m, m.segs \in Seq(Segment),
         m \in man', m.gen \in Nat, Continues(m)
  PROVE  Continues(m)'
<1>1. m.gen =< st'.gen /\ (m.state = "failed" => st'.state = "failed")
  BY DEF Continues, Grows, Manifest
<1>2. m.state = "closed" => st'.state # "active"
  BY Zenon DEF Continues, Grows
<1>3. segs' = segs \/ (segs' = Append(segs, NewSegment) /\ NewSegment \in Segment)
  BY NewSegmentFacts, Zenon DEF Moves, Running
<1>4. /\ Len(m.segs) =< Len(segs')
      /\ \A i \in 1 .. Len(m.segs) : m.segs[i] = segs'[i]
  <2>1. /\ Len(m.segs) \in Nat /\ Len(m.segs) =< Len(segs)
        /\ \A i \in 1 .. Len(m.segs) : m.segs[i] = segs[i]
    <3>1. Len(m.segs) \in Nat
      OBVIOUS
    <3> QED BY <3>1, Zenon DEF Continues
  <2>2. CASE segs' = segs
    BY <2>1, <2>2, Zenon
  <2>3. CASE segs' = Append(segs, NewSegment) /\ NewSegment \in Segment
    <3>1. Len(segs) \in Nat /\ Len(segs') = Len(segs) + 1 /\ \A i \in 1 .. Len(segs) : segs'[i] = segs[i]
      BY <2>3 DEF Contents
    <3> QED BY <2>1, <3>1
  <2> QED BY <1>3, <2>2, <2>3, Zenon
<1> QED BY <1>1, <1>2, <1>4, Zenon DEF Continues

\* No manifest exists before the first segment is open.
Fresh ==
  /\ st'.gen \in Nat
  /\ pc' = "setup" => man' = {}
  /\ pc' = "open" /\ ctx' = "start" => man' = {}

\* Every step keeps it so.
LEMMA FreshStep ==
  ASSUME Control, Manifest, [Next]_vars
  PROVE  Fresh
<1>1. CASE Start
  BY <1>1, Zenon DEF Start, Fresh, Control, Manifest
<1>2. CASE Setup
  BY <1>2, Zenon DEF Setup, Raise, Fine, Fault, Fresh, Control, Manifest
<1>3. CASE Open
  BY <1>3, Zenon DEF Open, Fresh, Control, Manifest
<1>4. CASE OpenThrows
  BY <1>4, Zenon DEF OpenThrows, Raise, Fine, Fault, Fresh, Control, Manifest
<1>5. CASE Persist
  BY <1>5, Zenon DEF Persist, AfterPersist, Fresh, Control, Running, Manifest
<1>6. CASE PersistThrows
  BY <1>6, Zenon DEF PersistThrows, Raise, Fault, Fresh, Control, Manifest
<1>7. CASE Heartbeat
  BY <1>7, Zenon DEF Heartbeat, Raise, Fine, Fault, Fresh, Control, Manifest
<1>8. CASE Rotate
  BY <1>8, Zenon DEF Rotate, StartClose, Fresh, Control, Manifest
<1>9. CASE Flushed
  BY <1>9, Zenon DEF Flushed, StartClose, Fresh, Control, Manifest
<1>10. CASE Trailer
  BY <1>10, Zenon DEF Trailer, Raise, Fine, Fault, Fresh, Control, Manifest
<1>11. CASE Link
  BY <1>11, Zenon DEF Link, Raise, Fine, Fault, Fresh, Control, Manifest
<1>12. CASE Publish
  BY <1>12, Zenon DEF Publish, Fresh, Control, Manifest
<1>13. CASE PublishThrows
  BY <1>13, Zenon DEF PublishThrows, Raise, Fault, Fresh, Control, Manifest
<1>14. CASE Quota
  BY <1>14, Zenon DEF Quota, Raise, Fresh, Control, Manifest
<1>15. CASE Leave
  BY <1>15, Zenon DEF Leave, Fresh, Control, Manifest
<1>16. ASSUME NEW n \in PacketBytes + 1 .. PacketBytes + Snaplen, Drain(n) PROVE Fresh
  BY <1>16, Zenon DEF Drain, Raise, WritePacket, Fresh, Control, Manifest
<1>17. CASE Terminate
  BY <1>17, Zenon DEF Terminate, Fresh, Control, Manifest
<1>18. CASE Kill
  BY <1>18, Zenon DEF Kill, Fault, Fresh, Control, Manifest
<1>19. CASE Relaunch
  BY <1>19, Zenon DEF Relaunch, Fresh, Control, Manifest
<1>20. ASSUME NEW op, NEW g \in 1 .. MaxGeneration, Request(op, g) PROVE Fresh
  BY <1>20 DEF Request, Fresh, Control, Manifest
<1>21. CASE Artifacts
  BY <1>21, Zenon DEF Artifacts, Fresh, Control, Manifest
<1>22. CASE UNCHANGED vars
  BY <1>22, Zenon DEF vars, Fresh, Control, Manifest
<1>23. CASE ReadFails
  BY <1>23, Zenon DEF ReadFails, Raise, Fault, Fresh, Control, Manifest
<1> QED
  BY <1>1, <1>2, <1>3, <1>4, <1>5, <1>6, <1>7, <1>8, <1>9, <1>10, <1>11, <1>12,
      <1>13, <1>14, <1>15, <1>16, <1>17, <1>18, <1>19, <1>20, <1>21, <1>22, <1>23,
      Zenon DEF Next, Worker

\* The manifest is at most one record, and what is written next continues it.
LEMMA ManifestStep ==
  ASSUME Control, Budget, Contents, Published, Manifest, [Next]_vars
  PROVE  Manifest'
<1>1. Moves /\ Fresh
  BY MovesStep, FreshStep, Zenon
<1>2. man' = man \/ (Running /\ man' = {Entry})
  BY <1>1, Zenon DEF Moves
<1>3. (\A m, n \in man' : m = n) /\ (\A m \in man' : m.gen \in Nat)
  BY <1>2 DEF Manifest, Entry
<1>4. man' # {} => marker'
  BY <1>1, <1>2, Zenon DEF Manifest, Control, Running, Moves
<1>5. ASSUME Running', NEW m \in man' PROVE Continues(m)'
  <2>1. CASE Running
    <3>1. Grows
      BY <1>5, <2>1, GrowsStep, Zenon
    <3>2. m.segs \in Seq(Segment) /\ Continues(m)
      <4>1. CASE m \in man
        BY <2>1, <4>1, Zenon DEF Manifest, Published
      <4>2. CASE m = Entry
        BY <4>2 DEF Entry, Continues, Manifest, Contents
      <4> QED BY <1>2, <4>1, <4>2, Zenon
    <3> QED BY <1>1, <1>3, <1>5, <2>1, <3>1, <3>2, ContinuesStep, Zenon
  <2>2. CASE ~Running
    <3>1. pc' \in {"unit", "gone", "setup"}
      BY <1>1, <2>2, Zenon DEF Moves, Running
    <3>2. pc' # "setup"
      BY <1>1, <1>5, Zenon DEF Fresh
    <3> QED BY <1>5, <3>1, <3>2, Zenon DEF Running
  <2> QED BY <2>1, <2>2, Zenon
<1> QED BY <1>1, <1>3, <1>4, <1>5, Zenon DEF Manifest, Fresh

(***************************************************************************)
(* The reader.                                                             *)
(***************************************************************************)
\* What a step may do to the segment being written, and to a worker that
\* will open no further one.
FileMoves ==
  /\ \/ partial' = partial
     \/ /\ pc = "open" /\ seq \notin DOMAIN partial
        /\ \E z \in Nat : partial' = With(partial, seq, [pkts |-> <<>>, size |-> z])
     \/ /\ fd /\ read' \in {read, read + 1}
        /\ \E k \in Nat : \E s \in {<<>>, <<read'>>} : Grow(k, s)
     \/ /\ pc = "remove" /\ partial' = Without(partial, seq) /\ closed' = closed
        /\ seq' = seq + 1 \/ ctx' = "catch" \/ ctx \in {"control", "adopt"}
  /\ ctx = "catch" => ctx' = "catch" \/ pc' \in {"gone", "unit"}
  /\ pc = "gone" => pc' \in {"gone", "unit"}
  /\ pc = "unit" /\ marker => pc' \in {"gone", "unit"}

\* That is all a step does to it.
LEMMA FileMovesStep ==
  ASSUME Control, [Next]_vars
  PROVE  FileMoves
<1>1. CASE Start
  BY <1>1, Zenon DEF Start, FileMoves, Control, Running, disk
<1>2. CASE Setup
  BY <1>2, Zenon DEF Setup, Raise, Fine, Fault, FileMoves, Control, Running, disk
<1>3. CASE Open
  <2>1. HeaderBytes \in Nat
    BY Sizes DEF HeaderBytes
  <2> QED BY <1>3, <2>1, Zenon DEF Open, FileMoves, Control, Running
<1>4. CASE OpenThrows
  <2>1. CASE partial' = partial
    BY <1>4, <2>1, Zenon DEF OpenThrows, Raise, FileMoves, Control, Running
  <2>2. ASSUME NEW b \in Nat, NEW k \in Nat, seq \notin DOMAIN partial,
               partial' = With(partial, seq, [pkts |-> <<>>, size |-> b + k])
        PROVE  FileMoves
    <3>1. b + k \in Nat
      OBVIOUS
    <3> QED BY <1>4, <2>2, <3>1, Zenon DEF OpenThrows, Raise, FileMoves, Control, Running
  <2> QED BY <1>4, <2>1, <2>2, OpenThrowsFacts, Zenon
<1>5. CASE Persist
  BY <1>5, Zenon DEF Persist, AfterPersist, FileMoves, Control, Running, disk
<1>6. CASE PersistThrows
  BY <1>6, Zenon DEF PersistThrows, Raise, Fault, FileMoves, Control, Running, disk
<1>7. CASE Heartbeat
  BY <1>7, Zenon DEF Heartbeat, Raise, Fine, Fault, FileMoves, Control, Running, disk
<1>8. CASE Rotate
  BY <1>8, Zenon DEF Rotate, StartClose, FileMoves, Control, Running, disk
<1>9. CASE Flushed
  BY <1>9, Zenon DEF Flushed, StartClose, FileMoves, Control, Running, disk
<1>10. CASE Trailer
  <2>1. \/ partial' = partial
        \/ \E k \in Nat : Grow(k, <<>>)
    BY <1>10, TrailerFacts, Zenon
  <2> QED BY <1>10, <2>1, Zenon DEF Trailer, Raise, FileMoves, Control, Running, traffic
<1>11. CASE Link
  BY <1>11, Zenon DEF Link, Raise, Fine, Fault, FileMoves, Control, Running
<1>12. CASE Publish
  BY <1>12, Zenon DEF Publish, FileMoves, Control, Running
<1>13. CASE PublishThrows
  BY <1>13, Zenon DEF PublishThrows, Raise, Fault, FileMoves, Control, Running
<1>14. CASE Quota
  BY <1>14, Zenon DEF Quota, Raise, FileMoves, Control, Running, disk
<1>15. CASE Leave
  BY <1>15, Zenon DEF Leave, FileMoves, Control, Running, disk
<1>16. ASSUME NEW n \in PacketBytes + 1 .. PacketBytes + Snaplen, Drain(n) PROVE FileMoves
  <2>1. \/ partial' = partial
        \/ fd /\ \E k \in Nat : \E s \in {<<>>, <<read'>>} : Grow(k, s)
    BY <1>16, DrainFacts, Zenon
  <2> QED BY <1>16, <2>1, Zenon DEF Drain, Raise, FileMoves, Control, Running
<1>17. CASE Terminate
  BY <1>17, Zenon DEF Terminate, FileMoves, Control, Running, disk
<1>18. CASE Kill
  BY <1>18, Zenon DEF Kill, Fault, FileMoves, Control, Running, disk
<1>19. CASE Relaunch
  BY <1>19, Zenon DEF Relaunch, FileMoves, Control, Running, disk
<1>20. ASSUME NEW op, NEW g \in 1 .. MaxGeneration, Request(op, g) PROVE FileMoves
  BY <1>20, Zenon DEF Request, FileMoves, Control, Running, disk
<1>21. CASE Artifacts
  BY <1>21, Zenon DEF Artifacts, FileMoves, Control, Running, disk
<1>22. CASE UNCHANGED vars
  BY <1>22, Zenon DEF vars, FileMoves, Control, Running, disk
<1>23. CASE ReadFails
  BY <1>23, Zenon DEF ReadFails, Raise, Fault, FileMoves, Control, Running, disk
<1> QED
  BY <1>1, <1>2, <1>3, <1>4, <1>5, <1>6, <1>7, <1>8, <1>9, <1>10, <1>11, <1>12,
      <1>13, <1>14, <1>15, <1>16, <1>17, <1>18, <1>19, <1>20, <1>21, <1>22, <1>23,
      Zenon DEF Next, Worker

\* Packet p is in the directory.
Stored(p) ==
  \/ \E n \in DOMAIN partial : p \in Range(partial[n].pkts)
  \/ \E n \in DOMAIN closed : p \in Range(closed[n].pkts)

\* The worker never opens segment n again.
Gone(n) == n < seq \/ ctx = "catch" \/ pc = "gone" \/ (pc = "unit" /\ marker)

\* The request has found packet p, or will: in a name it has yet to inspect,
\* unless that has vanished, which fails the request, or in a listed segment.
Held(p) ==
  \/ p \in rd.found
  \/ \E n \in Nat : /\ <<"partial", n>> \in rd.names
                    /\ n \in DOMAIN partial => p \in Range(partial[n].pkts)
  \/ \E n \in DOMAIN closed : /\ <<"closed", n>> \in rd.names \cup rd.indexed
                              /\ p \in Range(closed[n].pkts)

Reader ==
  /\ rd \in [pc : {"idle", "scan", "inspect", "done"},
             indexed : SUBSET ({"closed"} \X Nat),
             names : SUBSET ({"partial", "closed"} \X Nat),
             found : SUBSET Nat, began : SUBSET Nat]
  /\ rd.pc # "idle" => client = "agent"
  /\ rd.pc \in {"scan", "inspect"} => rd.indexed \subseteq Listed
  /\ rd.pc = "scan" => \A p \in rd.began : Stored(p)
  /\ rd.pc = "inspect" =>
       /\ \A p \in rd.began : Held(p)
       /\ \A n \in Nat : <<"closed", n>> \in rd.names => n \in DOMAIN closed
       /\ \A n \in Nat : <<"partial", n>> \in rd.names => n \in DOMAIN partial \/ Gone(n)
  /\ ArtifactsComplete

\* A longer file holds what the shorter one held.
LEMMA RangeGrows ==
  ASSUME NEW s \in Seq(Nat), NEW t \in Seq(Nat)
  PROVE  Range(s) \subseteq Range(s \o t)
<1> SUFFICES ASSUME NEW i \in DOMAIN s PROVE s[i] \in Range(s \o t)
  BY DEF Range
<1>1. i \in DOMAIN (s \o t) /\ (s \o t)[i] = s[i]
  OBVIOUS
<1> QED BY <1>1, Zenon DEF Range

\* No packet leaves the directory: an open segment grows, and it is removed
\* only under the name it was published by.
PartialKept ==
  \A n \in DOMAIN partial :
    \/ n \in DOMAIN partial' /\ Range(partial[n].pkts) \subseteq Range(partial'[n].pkts)
    \/ /\ n \notin DOMAIN partial' /\ n \in DOMAIN closed' /\ closed'[n] = partial[n]
       /\ client = "agent" => Gone(n)'

LEMMA PartialStep ==
  ASSUME Control, Budget, Contents, Published, Moves, FileMoves
  PROVE  PartialKept
<1> SUFFICES ASSUME NEW n \in DOMAIN partial
             PROVE  \/ n \in DOMAIN partial' /\ Range(partial[n].pkts) \subseteq Range(partial'[n].pkts)
                    \/ /\ n \notin DOMAIN partial' /\ n \in DOMAIN closed'
                       /\ closed'[n] = partial[n]
                       /\ client = "agent" => Gone(n)'
  BY Zenon DEF PartialKept
<1>0. Directory(partial) /\ seq \in Nat /\ partial[n].pkts \in Seq(Nat)
  BY Zenon DEF Contents, Budget, Directory, File
<1>1. CASE partial' = partial
  BY <1>1, Zenon
<1>2. ASSUME seq \notin DOMAIN partial, NEW v, partial' = With(partial, seq, v)
      PROVE  n \in DOMAIN partial' /\ partial'[n] = partial[n]
  BY <1>2, Zenon DEF With
<1>3. ASSUME fd, read' \in {read, read + 1}, NEW k \in Nat, NEW s \in {<<>>, <<read'>>}, Grow(k, s)
      PROVE  n \in DOMAIN partial' /\ Range(partial[n].pkts) \subseteq Range(partial'[n].pkts)
  <2>0. read' \in Nat
    <3>1. read \in Nat
      BY DEF Contents
    <3> QED BY <1>3, <3>1
  <2>1. s \in Seq(Nat) /\ seq \in DOMAIN partial
    <3>1. s \in Seq(Nat)
      <4> DEFINE e == <<>>
                 x == <<read'>>
      <4>1. e \in Seq(Nat) /\ x \in Seq(Nat)
        BY <2>0
      <4>2. s = e \/ s = x
        BY <1>3, Zenon
      <4> HIDE DEF e, x
      <4> QED BY <4>1, <4>2, Zenon
    <3>2. seq \in DOMAIN partial
      BY <1>3, Zenon DEF Contents, InHand
    <3> QED BY <3>1, <3>2
  <2>2. /\ DOMAIN partial' = DOMAIN partial
        /\ partial'[seq].pkts = partial[seq].pkts \o s
        /\ n # seq => partial'[n] = partial[n]
    BY <1>0, <1>3, <2>1, GrowFacts, Zenon
  <2>3. CASE n = seq
    <3>1. partial'[n].pkts = partial[n].pkts \o s
      BY <2>2, <2>3, Zenon
    <3> QED BY <1>0, <2>1, <2>2, <3>1, RangeGrows, Zenon
  <2>4. CASE n # seq
    BY <2>2, <2>4, Zenon
  <2> QED BY <2>3, <2>4, Zenon
<1>4. CASE /\ pc = "remove" /\ partial' = Without(partial, seq) /\ closed' = closed
           /\ seq' = seq + 1 \/ ctx' = "catch" \/ ctx \in {"control", "adopt"}
  <2>1. /\ DOMAIN Without(partial, seq) = DOMAIN partial \ {seq}
        /\ \A k \in DOMAIN partial : k # seq => Without(partial, seq)[k] = partial[k]
    BY <1>0, WithoutFacts, Zenon
  <2>2. CASE n # seq
    BY <1>4, <2>1, <2>2, Zenon
  <2>3. CASE n = seq
    <3>1. seq \in DOMAIN closed /\ closed[seq] = partial[seq]
      BY <1>4, Zenon DEF Published
    <3>2. client = "agent" => ctx \notin {"control", "adopt"}
      BY <1>4, Zenon DEF Control, Running
    <3>3. client = "agent" => Gone(n)'
      BY <1>0, <1>4, <2>3, <3>2 DEF Gone
    <3> QED BY <1>4, <2>1, <2>3, <3>1, <3>3, Zenon
  <2> QED BY <2>2, <2>3, Zenon
<1> QED BY <1>1, <1>2, <1>3, <1>4, Zenon DEF FileMoves

\* A segment that will not be opened again is not, and stays so.
LEMMA GoneStep ==
  ASSUME Control, Budget, Contents, Moves, FileMoves, NEW n \in Nat, Gone(n)
  PROVE  Gone(n)' /\ (n \in DOMAIN partial' => n \in DOMAIN partial)
<1>1. Gone(n)'
  <2>1. CASE pc = "gone" \/ ctx = "catch" \/ (pc = "unit" /\ marker)
    BY <2>1, Zenon DEF Gone, FileMoves, Moves, Control
  <2>2. CASE n < seq
    <3>1. CASE seq' = seq \/ seq' = seq + 1
      BY <2>2, <3>1 DEF Gone, Budget
    <3>2. CASE pc = "gone"
      BY <3>2, <2>1, Zenon
    <3> QED BY <3>1, <3>2, Zenon DEF Moves
  <2> QED BY <2>1, <2>2, Zenon DEF Gone
<1>2. ASSUME n \in DOMAIN partial' PROVE n \in DOMAIN partial
  <2>0. Directory(partial) /\ seq \in Nat
    BY Zenon DEF Contents, Budget
  <2>1. CASE partial' = partial
    BY <1>2, <2>1, Zenon
  <2>2. ASSUME pc = "open", NEW v, partial' = With(partial, seq, v) PROVE n \in DOMAIN partial
    <3>1. DOMAIN With(partial, seq, v) = DOMAIN partial \cup {seq}
      BY Zenon DEF With
    <3>2. n # seq
      BY <2>0, <2>2 DEF Gone, Control
    <3> QED BY <1>2, <2>2, <3>1, <3>2, Zenon
  <2>3. ASSUME NEW k, NEW s, Grow(k, s) PROVE n \in DOMAIN partial
    BY <1>2, <2>3, Zenon DEF Grow
  <2>4. CASE partial' = Without(partial, seq)
    <3>1. DOMAIN Without(partial, seq) = DOMAIN partial \ {seq}
      BY <2>0, WithoutFacts, Zenon
    <3> QED BY <1>2, <2>4, <3>1, Zenon
  <2> QED BY <2>1, <2>2, <2>3, <2>4, Zenon DEF FileMoves
<1> QED BY <1>1, <1>2, Zenon

\* What a manifest lists.
LEMMA ListedFacts ==
  ASSUME NEW name
  PROVE  name \in Listed <=> \E m \in man : \E i \in DOMAIN m.segs : name = <<"closed", m.segs[i].seq>>
BY DEF Listed

\* A listed segment stays listed.
LEMMA ListedStep ==
  ASSUME Contents, Published, Manifest, Moves
  PROVE  Listed \subseteq Listed'
<1>1. CASE man' = man
  BY <1>1, Zenon DEF Listed
<1>2. CASE Running /\ man' = {Entry}
  <2> SUFFICES ASSUME NEW name \in Listed PROVE name \in Listed'
    OBVIOUS
  <2>1. PICK m \in man : \E i \in DOMAIN m.segs : name = <<"closed", m.segs[i].seq>>
    BY ListedFacts, Zenon
  <2>2. PICK i \in DOMAIN m.segs : name = <<"closed", m.segs[i].seq>>
    BY <2>1, Zenon
  <2>3. i \in DOMAIN segs /\ m.segs[i] = segs[i]
    <3>1. m.segs \in Seq(Segment) /\ segs \in Seq(Segment)
      BY Zenon DEF Published, Contents
    <3>2. Len(m.segs) =< Len(segs) /\ \A j \in 1 .. Len(m.segs) : m.segs[j] = segs[j]
      BY <1>2, Zenon DEF Manifest, Continues
    <3> QED BY <3>1, <3>2
  <2>4. i \in DOMAIN Entry.segs /\ Entry \in man' /\ Entry.segs[i] = m.segs[i]
    BY <1>2, <2>3, Zenon DEF Entry
  <2>5. \E n \in man' : \E j \in DOMAIN n.segs : name = <<"closed", n.segs[j].seq>>
    BY <2>2, <2>4, Zenon
  <2> QED BY <2>5 DEF Listed
<1> QED BY <1>1, <1>2, Zenon DEF Moves

\* Whatever the worker does, the request still finds what it would have found.
LEMMA ReaderFrame ==
  ASSUME Control, Budget, Contents, Published, Manifest, Reader, Moves, FileMoves, rd' = rd
  PROVE  Reader'
<1>1. ClosedKept /\ PartialKept /\ Listed \subseteq Listed' /\ client' = client
  BY ClosedStep, PartialStep, ListedStep, Zenon DEF Moves
<1>2. ASSUME rd.pc = "scan", NEW p \in rd.began PROVE Stored(p)'
  <2>1. CASE \E n \in DOMAIN partial : p \in Range(partial[n].pkts)
    <3>1. PICK n \in DOMAIN partial : p \in Range(partial[n].pkts)
      BY <2>1, Zenon
    <3> QED BY <1>1, <3>1, Zenon DEF PartialKept, Stored
  <2>2. CASE \E n \in DOMAIN closed : p \in Range(closed[n].pkts)
    <3>1. PICK n \in DOMAIN closed : p \in Range(closed[n].pkts)
      BY <2>2, Zenon
    <3> QED BY <1>1, <3>1, Zenon DEF ClosedKept, Stored
  <2> QED BY <1>2, <2>1, <2>2, Zenon DEF Reader, Stored
<1>3. ASSUME rd.pc = "inspect" PROVE client = "agent"
  BY <1>3, Zenon DEF Reader
<1>4. ASSUME rd.pc = "inspect", NEW n \in Nat, <<"partial", n>> \in rd.names
      PROVE  n \in DOMAIN partial' \/ Gone(n)'
  <2>1. CASE n \in DOMAIN partial
    BY <1>1, <1>3, <1>4, <2>1, Zenon DEF PartialKept
  <2>2. CASE Gone(n)
    BY <2>2, GoneStep, Zenon
  <2> QED BY <1>4, <2>1, <2>2, Zenon DEF Reader
<1>5. ASSUME rd.pc = "inspect", NEW p \in rd.began PROVE Held(p)'
  <2>1. CASE p \in rd.found
    BY <2>1, Zenon DEF Held
  <2>2. ASSUME NEW n \in Nat, <<"partial", n>> \in rd.names,
               n \in DOMAIN partial => p \in Range(partial[n].pkts)
        PROVE  Held(p)'
    <3>1. ASSUME n \in DOMAIN partial' PROVE p \in Range(partial'[n].pkts)
      <4>1. n \in DOMAIN partial
        BY <1>5, <2>2, <3>1, GoneStep, Zenon DEF Reader
      <4> QED BY <1>1, <2>2, <3>1, <4>1, Zenon DEF PartialKept
    <3> QED BY <2>2, <3>1, Zenon DEF Held
  <2>3. ASSUME NEW n \in DOMAIN closed, <<"closed", n>> \in rd.names \cup rd.indexed,
               p \in Range(closed[n].pkts)
        PROVE  Held(p)'
    BY <1>1, <2>3, Zenon DEF ClosedKept, Held
  <2>4. Held(p)
    BY <1>5, Zenon DEF Reader
  <2> QED BY <2>1, <2>2, <2>3, <2>4, Zenon DEF Held
<1>6. ASSUME rd.pc = "inspect", NEW n \in Nat, <<"closed", n>> \in rd.names
      PROVE  n \in DOMAIN closed'
  BY <1>1, <1>6, Zenon DEF ClosedKept, Reader
<1>7. rd.pc \in {"scan", "inspect"} => rd.indexed \subseteq Listed'
  BY <1>1, Zenon DEF Reader
<1>8. ArtifactsComplete'
  BY Zenon DEF Reader, ArtifactsComplete
<1> QED BY <1>1, <1>2, <1>4, <1>5, <1>6, <1>7, <1>8, Zenon DEF Reader

\* The steps of the request itself.
LEMMA ReaderStep ==
  ASSUME Control, Budget, Contents, Published, Manifest, Reader, Artifacts
  PROVE  Reader'
<1> DEFINE Names == {"partial", "closed"} \X Nat
<1>0. /\ partial' = partial /\ closed' = closed /\ man' = man /\ client' = client
      /\ pc' = pc /\ ctx' = ctx /\ seq' = seq /\ marker' = marker
  BY Zenon DEF Artifacts, writer, disk
<1>1. Listed' = Listed /\ Listed \subseteq {"closed"} \X Nat
  <2>1. Listed' = Listed
    BY <1>0, Zenon DEF Listed
  <2>2. ASSUME NEW m \in man, NEW i \in DOMAIN m.segs PROVE m.segs[i].seq \in Nat
    <3>1. m.segs \in Seq(Segment)
      BY Zenon DEF Published
    <3>2. m.segs[i] \in Segment
      BY <3>1
    <3> QED BY <3>2 DEF Segment
  <2>3. ASSUME NEW name \in Listed PROVE name \in {"closed"} \X Nat
    <3>1. PICK m \in man : \E i \in DOMAIN m.segs : name = <<"closed", m.segs[i].seq>>
      BY ListedFacts, Zenon
    <3>2. PICK i \in DOMAIN m.segs : name = <<"closed", m.segs[i].seq>>
      BY <3>1, Zenon
    <3> QED BY <2>2, <3>2, Zenon
  <2> QED BY <2>1, <2>3, Zenon
<1>2. CASE rd' = Idle
  BY <1>2, Zenon DEF Idle, Reader, ArtifactsComplete
<1>3. CASE ArtifactsBegin
  <2>1. rd' = [pc |-> "scan", indexed |-> Listed, names |-> {}, found |-> {}, began |-> OnDisk]
        /\ client = "agent"
    BY <1>3, Zenon DEF ArtifactsBegin, Idle
  <2>2. OnDisk \subseteq Nat /\ \A p \in OnDisk : Stored(p)
    <3>1. \A n \in DOMAIN partial : Range(partial[n].pkts) \subseteq Nat
      BY DEF Contents, Directory, Range, File
    <3>2. \A n \in DOMAIN closed : Range(closed[n].pkts) \subseteq Nat
      BY DEF Contents, Directory, Range, File
    <3>3. ASSUME NEW p \in OnDisk PROVE Stored(p)
      <4>1. CASE p \in UNION {Range(partial[n].pkts) : n \in DOMAIN partial}
        <5>1. \E n \in DOMAIN partial : p \in Range(partial[n].pkts)
          BY <4>1, Zenon
        <5> QED BY <5>1, Zenon DEF Stored
      <4>2. CASE p \in UNION {Range(closed[n].pkts) : n \in DOMAIN closed}
        <5>1. \E n \in DOMAIN closed : p \in Range(closed[n].pkts)
          BY <4>2, Zenon
        <5> QED BY <5>1, Zenon DEF Stored
      <4> QED BY <3>3, <4>1, <4>2, Zenon DEF OnDisk
    <3> QED BY <3>1, <3>2, <3>3, Zenon DEF Stored
  <2>3. \A p \in OnDisk : Stored(p)'
    BY <1>0, <2>2, Zenon DEF Stored
  <2> QED BY <1>0, <1>1, <2>1, <2>2, <2>3, Zenon DEF Reader, ArtifactsComplete
<1>4. CASE ArtifactsScan
  <2> DEFINE new == ({"partial"} \X DOMAIN partial) \cup (({"closed"} \X DOMAIN closed) \ rd.indexed)
  <2>1. /\ rd.pc = "scan" /\ rd' = [rd EXCEPT !.pc = "inspect", !.names = new]
    BY <1>4, Zenon DEF ArtifactsScan
  <2>2. /\ rd'.pc = "inspect" /\ rd'.names = new /\ rd'.indexed = rd.indexed
        /\ rd'.began = rd.began /\ rd'.found = rd.found
    BY <2>1, Zenon DEF Reader
  <2>3. new \subseteq Names
    BY Zenon DEF Contents, Directory
  <2>4. ASSUME NEW p \in rd.began PROVE Held(p)'
    <3>1. ASSUME NEW n \in DOMAIN partial, p \in Range(partial[n].pkts) PROVE Held(p)'
      <4>1. n \in Nat /\ <<"partial", n>> \in new
        BY Zenon DEF Contents, Directory
      <4> QED BY <1>0, <2>2, <3>1, <4>1, Zenon DEF Held
    <3>2. ASSUME NEW n \in DOMAIN closed, p \in Range(closed[n].pkts) PROVE Held(p)'
      <4>1. <<"closed", n>> \in new \cup rd.indexed
        OBVIOUS
      <4> QED BY <1>0, <2>2, <3>2, <4>1, Zenon DEF Held
    <3>3. Stored(p)
      BY <2>1, Zenon DEF Reader
    <3> QED BY <3>1, <3>2, <3>3, Zenon DEF Stored
  <2>5. \A n \in Nat : /\ <<"closed", n>> \in new => n \in DOMAIN closed
                       /\ <<"partial", n>> \in new => n \in DOMAIN partial
    OBVIOUS
  <2>6. rd' \in [pc : {"idle", "scan", "inspect", "done"},
                 indexed : SUBSET ({"closed"} \X Nat), names : SUBSET Names,
                 found : SUBSET Nat, began : SUBSET Nat]
    BY <2>1, <2>3, Zenon DEF Reader
  <2>7. client = "agent" /\ rd.indexed \subseteq Listed
    BY <2>1, Zenon DEF Reader
  <2> QED BY <1>0, <1>1, <2>2, <2>4, <2>5, <2>6, <2>7, Zenon DEF Reader,
      ArtifactsComplete
<1>5. ASSUME ArtifactsInspect, rd' # Idle PROVE Reader'
  <2>1. PICK name \in rd.names :
          /\ Present(name)
          /\ rd' = [rd EXCEPT !.names = @ \ {name}, !.found = @ \cup Range(Content(name))]
    BY <1>5, Zenon DEF ArtifactsInspect
  <2>2. /\ rd.pc = "inspect" /\ rd'.pc = "inspect" /\ rd'.names = rd.names \ {name}
        /\ rd'.indexed = rd.indexed /\ rd'.began = rd.began
        /\ rd'.found = rd.found \cup Range(Content(name))
    BY <1>5, <2>1, Zenon DEF Reader, ArtifactsInspect
  <2>3. PICK k \in {"partial", "closed"}, i \in Nat : name = <<k, i>>
    BY DEF Reader
  <2>4. Range(Content(name)) \subseteq Nat
    BY <2>1, <2>3 DEF Present, Content, Contents, Directory, Range, File
  <2>5. ASSUME NEW p \in rd.began PROVE Held(p)'
    <3>1. CASE p \in rd.found
      BY <2>2, <3>1, Zenon DEF Held
    <3>2. ASSUME NEW n \in Nat, <<"partial", n>> \in rd.names,
                 n \in DOMAIN partial => p \in Range(partial[n].pkts)
          PROVE  Held(p)'
      <4>1. CASE name = <<"partial", n>>
        <5>1. p \in Range(Content(name))
          BY <2>1, <3>2, <4>1, Zenon DEF Present, Content
        <5> QED BY <2>2, <5>1, Zenon DEF Held
      <4>2. CASE name # <<"partial", n>>
        <5>1. <<"partial", n>> \in rd'.names
          BY <2>2, <3>2, <4>2, Zenon
        <5> QED BY <1>0, <3>2, <5>1, Zenon DEF Held
      <4> QED BY <4>1, <4>2, Zenon
    <3>3. ASSUME NEW n \in DOMAIN closed, <<"closed", n>> \in rd.names \cup rd.indexed,
                 p \in Range(closed[n].pkts)
          PROVE  Held(p)'
      <4>1. CASE name = <<"closed", n>>
        <5>1. p \in Range(Content(name))
          BY <3>3, <4>1, Zenon DEF Content
        <5> QED BY <2>2, <5>1, Zenon DEF Held
      <4>2. CASE name # <<"closed", n>>
        <5>1. <<"closed", n>> \in rd'.names \cup rd'.indexed
          BY <2>2, <3>3, <4>2, Zenon
        <5> QED BY <1>0, <3>3, <5>1, Zenon DEF Held
      <4> QED BY <4>1, <4>2, Zenon
    <3>4. Held(p)
      BY <2>2, Zenon DEF Reader
    <3> QED BY <3>1, <3>2, <3>3, <3>4, Zenon DEF Held
  <2>6. rd' \in [pc : {"idle", "scan", "inspect", "done"},
                 indexed : SUBSET ({"closed"} \X Nat), names : SUBSET Names,
                 found : SUBSET Nat, began : SUBSET Nat]
    BY <2>1, <2>4, Zenon DEF Reader
  <2>7. /\ \A n \in Nat : <<"closed", n>> \in rd'.names => n \in DOMAIN closed'
        /\ \A n \in Nat : <<"partial", n>> \in rd'.names => n \in DOMAIN partial' \/ Gone(n)'
    BY <1>0, <2>2, Zenon DEF Reader, Gone
  <2>8. client = "agent" /\ rd'.indexed \subseteq Listed
    BY <2>2, Zenon DEF Reader
  <2> QED BY <1>0, <1>1, <2>2, <2>5, <2>6, <2>7, <2>8, Zenon DEF Reader,
      ArtifactsComplete
<1>6. CASE ArtifactsList
  <2> DEFINE all == UNION {Range(Content(name)) : name \in Listed}
  <2>1. /\ rd.pc = "inspect" /\ rd.names = {}
        /\ rd' = [rd EXCEPT !.pc = "done", !.found = @ \cup all]
    BY <1>6, Zenon DEF ArtifactsList
  <2>2. /\ rd'.pc = "done" /\ rd'.began = rd.began /\ rd'.found = rd.found \cup all
    BY <2>1, Zenon DEF Reader
  <2>3. ASSUME NEW name \in Listed PROVE Range(Content(name)) \subseteq Nat
    <3>1. PICK m \in man : \E i \in DOMAIN m.segs : name = <<"closed", m.segs[i].seq>>
      BY ListedFacts, Zenon
    <3>2. PICK i \in DOMAIN m.segs : name = <<"closed", m.segs[i].seq>>
      BY <3>1, Zenon
    <3>3. m.segs[i].seq \in DOMAIN closed
      BY DEF Published, PublishedAs
    <3> QED BY <3>2, <3>3 DEF Content, Contents, Directory, Range, File
  <2>4. ASSUME NEW p \in rd.began PROVE p \in rd.found \cup all
    <3>1. Held(p) /\ rd.indexed \subseteq Listed
      BY <2>1, Zenon DEF Reader
    <3>2. ASSUME NEW n \in DOMAIN closed, <<"closed", n>> \in rd.indexed, p \in Range(closed[n].pkts)
          PROVE  p \in all
      <4>1. Content(<<"closed", n>>) = closed[n].pkts
        BY Zenon DEF Content
      <4> QED BY <3>1, <3>2, <4>1, Zenon
    <3> QED BY <2>1, <3>1, <3>2, Zenon DEF Held
  <2>5. rd' \in [pc : {"idle", "scan", "inspect", "done"},
                 indexed : SUBSET ({"closed"} \X Nat), names : SUBSET Names,
                 found : SUBSET Nat, began : SUBSET Nat]
    <3>1. rd.found \cup all \in SUBSET Nat
      BY <2>3 DEF Reader
    <3> QED BY <2>1, <3>1, Zenon DEF Reader
  <2> QED BY <1>0, <2>1, <2>2, <2>4, <2>5, Zenon DEF Reader, ArtifactsComplete
<1> QED BY <1>2, <1>3, <1>4, <1>5, <1>6, Zenon DEF Artifacts, ArtifactsEnd

(***************************************************************************)
(* A closed capture lacks no packet.                                       *)
(***************************************************************************)
\* Under the agent, a worker that no exception has reached: where its segment
\* is open, and what it has written so far.
Sound == client = "agent" /\ ctx # "catch" /\ (Running \/ (pc = "unit" /\ ~marker))
Writing == \/ pc \in {"loop", "flush", "trailer"}
           \/ pc = "persist" /\ ctx \in {"start", "beat", "adopt"}
Written == IF seq \in DOMAIN partial THEN Append(Packets(segs), partial[seq].pkts) ELSE Packets(segs)

OneFile ==
  Sound => /\ fd <=> Writing
           /\ DOMAIN partial = IF Writing \/ pc \in {"link", "remove"} THEN {seq} ELSE {}
           /\ pc \in {"trailer", "link", "remove"} => ctx \in {"rotate", "final"}
AllWritten == Sound => Accounts(Written, read)
Closing == Running /\ st.state = "closed" => ctx = "final" /\ pc \in {"persist", "unlink"}
\* Once the manifest says "closed", no packet is read and no file begun.
Over == \/ pc \in {"unlink", "gone"} \/ (pc = "unit" /\ marker)
        \/ pc = "persist" /\ ctx = "catch"
Account ==
  /\ OneFile /\ AllWritten /\ Closing /\ ClosedIsComplete
  /\ \A m \in man : m.state = "closed" /\ client = "agent" => Over

\* The packets in a list of segments.
LEMMA PacketsFacts ==
  ASSUME NEW s \in Seq(Segment)
  PROVE  /\ Packets(s) \in Seq(Seq(Nat))
         /\ \A e \in Segment : Packets(Append(s, e)) = Append(Packets(s), e.file.pkts)
<1>1. \A e \in Segment : e.file.pkts \in Seq(Nat)
  BY Zenon DEF Segment, File
<1>2. /\ DOMAIN s = 1 .. Len(s) /\ Len(s) \in Nat
      /\ \A i \in DOMAIN s : s[i] \in Segment
  OBVIOUS
<1>3. \A i \in DOMAIN s : s[i].file.pkts \in Seq(Nat)
  BY <1>1, <1>2, Zenon
<1>4. Packets(s) = [i \in 1 .. Len(s) |-> s[i].file.pkts]
  BY <1>2, Zenon DEF Packets
<1>5. Packets(s) \in Seq(Seq(Nat)) /\ Len(Packets(s)) = Len(s)
  BY <1>2, <1>3, <1>4
<1>6. ASSUME NEW e \in Segment PROVE Packets(Append(s, e)) = Append(Packets(s), e.file.pkts)
  <2> DEFINE t == Append(s, e)  u == Append(Packets(s), e.file.pkts)
  <2>1. /\ DOMAIN t = 1 .. Len(s) + 1 /\ t[Len(s) + 1] = e
        /\ \A i \in 1 .. Len(s) : t[i] = s[i]
    OBVIOUS
  <2>2. /\ u = [i \in DOMAIN u |-> u[i]]
        /\ DOMAIN u = 1 .. Len(s) + 1 /\ u[Len(s) + 1] = e.file.pkts
        /\ \A i \in 1 .. Len(s) : u[i] = Packets(s)[i]
    <3>1. e.file.pkts \in Seq(Nat)
      BY <1>1, Zenon
    <3>2. u \in Seq(Seq(Nat))
      BY <1>5, <3>1
    <3>3. u = [i \in DOMAIN u |-> u[i]]
      BY <3>2
    <3> QED BY <1>5, <3>1, <3>3
  <2>3. Packets(t) = [i \in DOMAIN t |-> t[i].file.pkts]
    BY Zenon DEF Packets
  <2> HIDE DEF t, u
  <2>4. \A i \in 1 .. Len(s) + 1 : i \in 1 .. Len(s) \/ i = Len(s) + 1
    BY <1>2
  <2>5. \A i \in 1 .. Len(s) + 1 : u[i] = t[i].file.pkts
    BY <1>4, <2>1, <2>2, <2>4, Zenon
  <2>6. Packets(t) = u
    BY <2>1, <2>2, <2>3, <2>5, Zenon
  <2> QED BY <2>6, Zenon DEF t, u
<1> QED BY <1>5, <1>6, Zenon

\* The end of a longer sequence of packets.
LEMMA LongerFacts ==
  ASSUME NEW s \in Seq(Nat), NEW x \in Nat
  PROVE  s \o <<>> = s /\ s \o <<x>> = Append(s, x)
OBVIOUS

\* A new, empty file changes nothing.
LEMMA AccountsOpen ==
  ASSUME NEW s \in Seq(Seq(Nat)), NEW k \in Nat, Accounts(s, k)
  PROVE  Accounts(Append(s, <<>>), k)
<1> DEFINE t == Append(s, <<>>)
<1>1. /\ DOMAIN t = 1 .. Len(s) + 1 /\ DOMAIN s = 1 .. Len(s) /\ Len(s) \in Nat
      /\ \A i \in DOMAIN s : i \in DOMAIN t /\ t[i] = s[i]
      /\ \A i \in DOMAIN t : i \in DOMAIN s \/ t[i] = <<>>
  OBVIOUS
<1>2. DOMAIN <<>> = {} /\ Range(<<>>) = {}
  BY DEF Range
<1> HIDE DEF t
<1>3. \A i \in DOMAIN t : Range(t[i]) \subseteq 1 .. k
  BY <1>1, <1>2, Zenon DEF Accounts
<1>4. \A p \in 1 .. k : \E i \in DOMAIN t : p \in Range(t[i])
  BY <1>1, Zenon DEF Accounts
<1>5. \A i, j \in DOMAIN t : \A a \in DOMAIN t[i], b \in DOMAIN t[j] :
        i < j \/ (i = j /\ a < b) => t[i][a] < t[j][b]
  BY <1>1, <1>2, Zenon DEF Accounts
<1> QED BY <1>3, <1>4, <1>5, Zenon DEF Accounts, t

\* One packet more in the last file is the next one.
LEMMA AccountsWrite ==
  ASSUME NEW s \in Seq(Seq(Nat)), NEW f \in Seq(Nat), NEW k \in Nat, Accounts(Append(s, f), k)
  PROVE  Accounts(Append(s, Append(f, k + 1)), k + 1)
<1> DEFINE g == Append(f, k + 1)  t == Append(s, f)  u == Append(s, g)  e == Len(s) + 1
<1>1. g \in Seq(Nat) /\ DOMAIN f = 1 .. Len(f) /\ DOMAIN g = 1 .. Len(f) + 1 /\ Len(f) \in Nat
  OBVIOUS
<1>2. g[Len(f) + 1] = k + 1 /\ \A a \in DOMAIN f : a \in DOMAIN g /\ g[a] = f[a]
  OBVIOUS
<1>3. e \in Nat /\ DOMAIN t = 1 .. e /\ DOMAIN u = 1 .. e /\ t[e] = f /\ u[e] = g
  BY <1>1
<1>4. \A i \in 1 .. e : i # e => u[i] = t[i]
  BY <1>1
<1>5. \A i \in 1 .. e : t[i] \in Seq(Nat) /\ DOMAIN t[i] \subseteq Nat
  OBVIOUS
<1> HIDE DEF g, t, u, e
<1>6. \A i \in 1 .. e : Range(t[i]) \subseteq 1 .. k
  BY <1>3, Zenon DEF Accounts, t
<1>7. Range(g) = Range(f) \cup {k + 1}
  <2>1. DOMAIN g = DOMAIN f \cup {Len(f) + 1}
    BY <1>1
  <2>2. \A x : x \in Range(g) <=> x \in Range(f) \/ x = k + 1
    BY <1>2, <2>1, Zenon DEF Range
  <2> QED BY <2>2, Zenon
<1>8. \A i \in 1 .. e : Range(u[i]) \subseteq 1 .. k + 1
  <2>1. 1 .. k \subseteq 1 .. k + 1 /\ k + 1 \in 1 .. k + 1 /\ e \in 1 .. e
    BY <1>3 DEF e
  <2> QED BY <1>3, <1>4, <1>6, <1>7, <2>1, Zenon
<1>9. ASSUME NEW p \in 1 .. k + 1 PROVE \E i \in 1 .. e : p \in Range(u[i])
  <2>1. e \in 1 .. e
    BY <1>3 DEF e
  <2>2. CASE p = k + 1
    BY <1>3, <1>7, <2>1, <2>2, Zenon
  <2>3. CASE p \in 1 .. k
    <3>1. PICK i \in 1 .. e : p \in Range(t[i])
      BY <1>3, <2>3, Zenon DEF Accounts, t
    <3> QED BY <1>3, <1>4, <1>7, <3>1, Zenon
  <2> QED BY <2>2, <2>3
<1>10. ASSUME NEW i \in 1 .. e, NEW j \in 1 .. e, NEW a \in DOMAIN u[i], NEW b \in DOMAIN u[j],
              i < j \/ (i = j /\ a < b)
       PROVE  u[i][a] < u[j][b]
  <2>1. \A h \in 1 .. e : \A c \in DOMAIN t[h] : t[h][c] \in 1 .. k
    BY <1>6, Zenon DEF Range
  <2>2. a \in DOMAIN t[i] /\ u[i][a] = t[i][a]
    <3>1. CASE i = e
      <4>1. j = e /\ a < b /\ a \in 1 .. Len(f) + 1 /\ b \in 1 .. Len(f) + 1
        BY <1>1, <1>3, <1>10, <3>1
      <4>2. a \in DOMAIN f
        BY <1>1, <4>1
      <4> QED BY <1>2, <1>3, <3>1, <4>2, Zenon
    <3>2. CASE i # e
      BY <1>4, <3>2, Zenon
    <3> QED BY <3>1, <3>2
  <2>3. CASE b \in DOMAIN t[j] /\ u[j][b] = t[j][b]
    BY <1>3, <1>10, <2>2, <2>3, Zenon DEF Accounts, t
  <2>4. CASE u[j][b] = k + 1
    BY <2>1, <2>2, <2>4
  <2>5. \/ b \in DOMAIN t[j] /\ u[j][b] = t[j][b]
        \/ u[j][b] = k + 1
    <3>1. CASE j = e
      <4>1. b \in DOMAIN f \/ b = Len(f) + 1
        BY <1>1, <1>3, <3>1
      <4> QED BY <1>2, <1>3, <3>1, <4>1, Zenon
    <3>2. CASE j # e
      BY <1>4, <3>2, Zenon
    <3> QED BY <3>1, <3>2
  <2> QED BY <2>3, <2>4, <2>5
<1>11. Accounts(u, k + 1)
  BY <1>3, <1>8, <1>9, <1>10, Zenon DEF Accounts
<1> QED BY <1>11, Zenon DEF u, g

\* The segment at hand is the only partial file, while no exception came.
LEMMA OneFileStep ==
  ASSUME Control, Budget, Contents, OneFile, [Next]_vars
  PROVE  OneFile'
<1>1. CASE Start
  BY <1>1, Zenon DEF Start, OneFile, Sound, Writing, Running, Control, writer, disk, env
<1>2. CASE Setup
  BY <1>2, Zenon DEF Setup, Raise, Fine, Fault, OneFile, Sound, Writing, Running,
      Control, writer, disk, env
<1>3. CASE Open
  <2>1. DOMAIN partial' = DOMAIN partial \cup {seq}
    BY <1>3, Zenon DEF Open, With
  <2> QED BY <1>3, <2>1, Zenon DEF Open, OneFile, Sound, Writing, Running, Control, env
<1>4. CASE OpenThrows
  BY <1>4, RaiseFacts, Zenon DEF OpenThrows, OneFile, Sound, Control, env
<1>5. CASE Persist
  BY <1>5, Zenon DEF Persist, AfterPersist, OneFile, Sound, Writing, Running,
      Control, writer, disk, env
<1>6. CASE PersistThrows
  BY <1>6, Zenon DEF PersistThrows, Raise, Fault, OneFile, Sound, Writing, Running,
      Control, writer, disk, env
<1>7. CASE Heartbeat
  BY <1>7, Zenon DEF Heartbeat, Raise, Fine, Fault, OneFile, Sound, Writing, Running,
      Control, writer, disk, env
<1>8. CASE Rotate
  BY <1>8, Zenon DEF Rotate, StartClose, OneFile, Sound, Writing, Running, Control,
      writer, disk, env
<1>9. CASE Flushed
  BY <1>9, Zenon DEF Flushed, StartClose, OneFile, Sound, Writing, Running, Control,
      writer, disk, env
<1>10. CASE Trailer
  <2>0. client' = client /\ seq' = seq /\ pc = "trailer"
    BY <1>10, Zenon DEF Trailer, env
  <2>1. CASE Raise(TRUE)
    <3>1. ctx \notin {"control", "adopt"} \/ client # "agent"
      BY <2>0, Zenon DEF Control, Running
    <3> QED BY <2>0, <2>1, <3>1, RaiseFacts, Zenon DEF OneFile, Sound
  <2>2. CASE Grow(TrailerBytes, <<>>) /\ ~fd' /\ pc' = "link" /\ ctx' = ctx
    <3>1. DOMAIN partial' = DOMAIN partial
      BY <2>2, Zenon DEF Grow
    <3> QED BY <2>0, <2>2, <3>1, Zenon DEF OneFile, Sound, Writing, Running
  <2> QED BY <1>10, <2>1, <2>2, Zenon DEF Trailer
<1>11. CASE Link
  BY <1>11, Zenon DEF Link, Raise, Fine, Fault, OneFile, Sound, Writing, Running,
      Control, writer, disk, env
<1>12. CASE Publish
  <2>1. DOMAIN partial' = DOMAIN partial \ {seq}
    BY <1>12, WithoutFacts, Zenon DEF Publish, Contents
  <2>2. ASSUME Sound' PROVE Sound /\ ctx' = ctx /\ fd' = fd /\ pc = "remove" /\ pc' = "persist"
    BY <1>12, <2>2, Zenon DEF Publish, Sound, Running, env
  <2>3. ASSUME Sound' PROVE DOMAIN partial' = {} /\ ~fd' /\ ~Writing'
    <3>1. DOMAIN partial = {seq} /\ ctx \in {"rotate", "final"}
      BY <2>2, <2>3, Zenon DEF OneFile
    <3>2. ~Writing /\ ~Writing'
      BY <2>2, <2>3, <3>1, Zenon DEF Writing
    <3>3. ~fd'
      BY <2>2, <2>3, <3>2, Zenon DEF OneFile
    <3>4. DOMAIN partial' = {}
      BY <2>1, <3>1, SMT
    <3> QED BY <3>2, <3>3, <3>4, Zenon
  <2> QED BY <2>2, <2>3, Zenon DEF OneFile
<1>13. CASE PublishThrows
  <2>1. ctx \notin {"control", "adopt"} \/ client # "agent"
    BY <1>13, Zenon DEF PublishThrows, Control, Running
  <2> QED BY <1>13, <2>1, RaiseFacts, Zenon DEF PublishThrows, OneFile, Sound, env
<1>14. CASE Quota
  BY <1>14, Zenon DEF Quota, Raise, OneFile, Sound, Writing, Running, Control,
      writer, disk, env
<1>15. CASE Leave
  BY <1>15, Zenon DEF Leave, OneFile, Sound, Writing, Running, Control, writer, disk,
      env
<1>16. ASSUME NEW n \in PacketBytes + 1 .. PacketBytes + Snaplen, Drain(n) PROVE OneFile'
  <2>1. CASE UNCHANGED <<pc, ctx>> /\ WritePacket(n)
    <3>1. DOMAIN partial' = DOMAIN partial
      BY <2>1, Zenon DEF WritePacket, Grow
    <3> QED BY <1>16, <2>1, <3>1, Zenon DEF Drain, OneFile, Sound, Writing, Running,
        Control, env
  <2>2. CASE Raise(fd)
    <3>1. ctx \notin {"control", "adopt"} \/ client # "agent"
      BY <1>16, Zenon DEF Drain, Control, Running
    <3> QED BY <1>16, <2>2, <3>1, RaiseFacts, Zenon DEF Drain, OneFile, Sound, env
  <2> QED BY <1>16, <2>1, <2>2, Zenon DEF Drain
<1>17. CASE Terminate
  BY <1>17, Zenon DEF Terminate, OneFile, Sound, Writing, Running, Control, writer,
      disk, env
<1>18. CASE Kill
  BY <1>18, Zenon DEF Kill, Fault, OneFile, Sound, Writing, Running, Control, writer,
      disk, env
<1>19. CASE Relaunch
  BY <1>19, Zenon DEF Relaunch, OneFile, Sound, Writing, Running, Control, writer,
      disk, env
<1>20. ASSUME NEW op, NEW g \in 1 .. MaxGeneration, Request(op, g) PROVE OneFile'
  BY <1>20, Zenon DEF Request, OneFile, Sound, Writing, Running, Control, writer,
      disk, env
<1>21. CASE Artifacts
  BY <1>21, Zenon DEF Artifacts, OneFile, Sound, Writing, Running, Control, writer,
      disk, env
<1>22. CASE UNCHANGED vars
  BY <1>22, Zenon DEF vars, OneFile, Sound, Writing, Running, Control, writer, disk, env
<1>23. CASE ReadFails
  BY <1>23, Zenon DEF ReadFails, Raise, Fault, OneFile, Sound, Writing, Running,
      Control, writer, disk, env
<1> QED
  BY <1>1, <1>2, <1>3, <1>4, <1>5, <1>6, <1>7, <1>8, <1>9, <1>10, <1>11,
     <1>12, <1>13, <1>14, <1>15, <1>16, <1>17, <1>18, <1>19, <1>20, <1>21, <1>22, <1>23,
     Zenon DEF Next, Worker

\* What is written changes with the next packet, and with a new file only by
\* that file.
WrittenMoves ==
  \/ Written' = Written /\ read' = read
  \/ Written' = Append(Written, <<>>) /\ Written = Packets(segs) /\ read' = read
  \/ /\ read' = read + 1 /\ Written = Append(Packets(segs), partial[seq].pkts)
     /\ partial[seq].pkts \in Seq(Nat)
     /\ Written' = Append(Packets(segs), Append(partial[seq].pkts, read + 1))

\* That is all a step without an exception does to it.
LEMMA WrittenStep ==
  ASSUME Control, Budget, Contents, Published, OneFile, [Next]_vars, Sound'
  PROVE  Sound /\ WrittenMoves
<1>1. CASE Start
  BY <1>1, Zenon DEF Start, Sound, WrittenMoves, Written, Running, Control, writer,
      disk, traffic, env
<1>2. CASE Setup
  BY <1>2, Zenon DEF Setup, Raise, Fine, Fault, Sound, WrittenMoves, Written,
      Running, Control, writer, disk, traffic, env
<1>3. CASE Open
  <2> DEFINE new == [pkts |-> <<>>, size |-> HeaderBytes]
  <2>1. /\ DOMAIN With(partial, seq, new) = DOMAIN partial \cup {seq}
        /\ With(partial, seq, new)[seq] = new
    BY Zenon DEF With
  <2>2. /\ partial' = With(partial, seq, new) /\ seq' = seq /\ segs' = segs
        /\ read' = read /\ seq \notin DOMAIN partial
    BY <1>3, Zenon DEF Open, traffic
  <2>3. Sound
    BY <1>3, Zenon DEF Open, Sound, Running, Control, env
  <2>4. new.pkts = <<>>
    OBVIOUS
  <2> HIDE DEF new
  <2>5. partial'[seq].pkts = <<>> /\ seq \in DOMAIN partial'
    BY <2>1, <2>2, <2>4, Zenon
  <2> QED BY <2>2, <2>3, <2>5, Zenon DEF WrittenMoves, Written
<1>4. CASE OpenThrows
  BY <1>4, RaiseFacts, Zenon DEF OpenThrows, Sound, Control, env
<1>5. CASE Persist
  BY <1>5, Zenon DEF Persist, AfterPersist, Sound, WrittenMoves, Written, Running,
      Control, writer, disk, traffic, env
<1>6. CASE PersistThrows
  BY <1>6, Zenon DEF PersistThrows, Raise, Fault, Sound, WrittenMoves, Written,
      Running, Control, writer, disk, traffic, env
<1>7. CASE Heartbeat
  BY <1>7, Zenon DEF Heartbeat, Raise, Fine, Fault, Sound, WrittenMoves, Written,
      Running, Control, writer, disk, traffic, env
<1>8. CASE Rotate
  BY <1>8, Zenon DEF Rotate, StartClose, Sound, WrittenMoves, Written, Running,
      Control, writer, disk, traffic, env
<1>9. CASE Flushed
  BY <1>9, Zenon DEF Flushed, StartClose, Sound, WrittenMoves, Written, Running,
      Control, writer, disk, traffic, env
<1>10. CASE Trailer
  <2>0. client' = client /\ seq' = seq /\ segs' = segs /\ read' = read /\ pc = "trailer" /\ fd
    BY <1>10, Zenon DEF Trailer, Control, traffic, env
  <2>1. ~Raise(TRUE)
    <3>1. ctx \notin {"control", "adopt"} \/ client # "agent"
      BY <2>0, Zenon DEF Control, Running
    <3> QED BY <2>0, <3>1, RaiseFacts, Zenon DEF Sound
  <2>2. Grow(TrailerBytes, <<>>) /\ ctx' = ctx
    BY <1>10, <2>1, Zenon DEF Trailer
  <2>3. seq \in DOMAIN partial /\ Directory(partial) /\ <<>> \in Seq(Nat)
    BY <2>0 DEF Contents, InHand
  <2>4. /\ DOMAIN partial' = DOMAIN partial
        /\ partial'[seq].pkts = partial[seq].pkts \o <<>>
    BY <2>2, <2>3, GrowFacts, Sizes, Zenon
  <2>5. partial'[seq].pkts = partial[seq].pkts
    <3>1. partial[seq].pkts \in Seq(Nat)
      BY <2>3, Zenon DEF Directory, File
    <3> QED BY <2>4, <3>1, LongerFacts
  <2>6. Sound
    BY <2>0, <2>2, Zenon DEF Sound, Running
  <2> QED BY <2>0, <2>3, <2>4, <2>5, <2>6, Zenon DEF WrittenMoves, Written
<1>11. CASE Link
  BY <1>11, Zenon DEF Link, Raise, Fine, Fault, Sound, WrittenMoves, Written,
      Running, Control, writer, disk, traffic, env
<1>12. CASE Publish
  <2>1. Sound /\ seq \in DOMAIN partial /\ pc = "remove"
    BY <1>12, Zenon DEF Publish, Sound, Running, Contents, InHand, env
  <2>2. DOMAIN partial' = {} /\ segs' = Append(segs, NewSegment) /\ read' = read
    <3>1. DOMAIN partial = {seq}
      BY <2>1, Zenon DEF OneFile
    <3>2. DOMAIN partial' = DOMAIN partial \ {seq}
      BY <1>12, WithoutFacts, Zenon DEF Publish, Contents
    <3> QED BY <1>12, <3>1, <3>2, Zenon DEF Publish, NewSegment, traffic
  <2>3. NewSegment \in Segment /\ NewSegment.file.pkts = partial[seq].pkts
    BY <2>1, NewSegmentFacts, Zenon
  <2>4. Packets(segs') = Append(Packets(segs), partial[seq].pkts)
    BY <2>2, <2>3, PacketsFacts, Zenon DEF Contents
  <2> QED BY <2>1, <2>2, <2>4, Zenon DEF WrittenMoves, Written
<1>13. CASE PublishThrows
  BY <1>13, Zenon DEF PublishThrows, Raise, Fault, Sound, WrittenMoves, Written,
      Running, Control, writer, disk, traffic, env
<1>14. CASE Quota
  BY <1>14, Zenon DEF Quota, Raise, Sound, WrittenMoves, Written, Running, Control,
      writer, disk, traffic, env
<1>15. CASE Leave
  BY <1>15, Zenon DEF Leave, Sound, WrittenMoves, Written, Running, Control, writer,
      disk, traffic, env
<1>16. ASSUME NEW n \in PacketBytes + 1 .. PacketBytes + Snaplen, Drain(n) PROVE Sound /\ WrittenMoves
  <2>1. CASE UNCHANGED <<pc, ctx>> /\ WritePacket(n)
    <3>1. /\ seq \in DOMAIN partial /\ Directory(partial) /\ read' = read + 1 /\ read' \in Nat
          /\ <<read'>> \in Seq(Nat) /\ n \in Nat
      BY <1>16, <2>1, Sizes DEF Drain, WritePacket, Contents, InHand
    <3>2. /\ DOMAIN partial' = DOMAIN partial
          /\ partial'[seq].pkts = partial[seq].pkts \o <<read'>>
      BY <2>1, <3>1, GrowFacts, Zenon DEF WritePacket
    <3>3. Sound /\ seq' = seq /\ segs' = segs
      BY <1>16, <2>1, Zenon DEF Drain, Sound, Running, env
    <3>4. partial[seq].pkts \in Seq(Nat)
      BY <3>1, Zenon DEF Directory, File
    <3>5. partial'[seq].pkts = Append(partial[seq].pkts, read')
      BY <3>1, <3>2, <3>4, LongerFacts, Zenon
    <3> QED BY <3>1, <3>2, <3>3, <3>4, <3>5, Zenon DEF WrittenMoves, Written
  <2>2. CASE Raise(fd)
    <3>1. ctx \notin {"control", "adopt"} \/ client # "agent"
      BY <1>16, Zenon DEF Drain, Control, Running
    <3> QED BY <1>16, <2>2, <3>1, RaiseFacts, Zenon DEF Drain, Sound, env
  <2> QED BY <1>16, <2>1, <2>2, Zenon DEF Drain
<1>17. CASE Terminate
  BY <1>17, Zenon DEF Terminate, Sound, WrittenMoves, Written, Running, Control,
      writer, disk, traffic, env
<1>18. CASE Kill
  BY <1>18, Zenon DEF Kill, Fault, Sound, WrittenMoves, Written, Running, Control,
      writer, disk, traffic, env
<1>19. CASE Relaunch
  BY <1>19, Zenon DEF Relaunch, Sound, WrittenMoves, Written, Running, Control,
      writer, disk, traffic, env
<1>20. ASSUME NEW op, NEW g \in 1 .. MaxGeneration, Request(op, g) PROVE Sound /\ WrittenMoves
  BY <1>20, Zenon DEF Request, Sound, WrittenMoves, Written, Running, Control,
      writer, disk, traffic, env
<1>21. CASE Artifacts
  BY <1>21, Zenon DEF Artifacts, Sound, WrittenMoves, Written, Running, Control,
      writer, disk, traffic, env
<1>22. CASE UNCHANGED vars
  BY <1>22, Zenon DEF vars, Sound, WrittenMoves, Written, Running, Control, writer,
      disk, traffic, env
<1>23. CASE ReadFails
  BY <1>23, Zenon DEF ReadFails, Raise, Fault, Sound, WrittenMoves, Written,
      Running, Control, writer, disk, traffic, env
<1> QED
  BY <1>1, <1>2, <1>3, <1>4, <1>5, <1>6, <1>7, <1>8, <1>9, <1>10, <1>11,
     <1>12, <1>13, <1>14, <1>15, <1>16, <1>17, <1>18, <1>19, <1>20, <1>21, <1>22, <1>23,
     Zenon DEF Next, Worker

\* So it goes on accounting for every packet read.
LEMMA AllWrittenStep ==
  ASSUME Control, Budget, Contents, Published, OneFile, AllWritten, [Next]_vars
  PROVE  AllWritten'
<1> SUFFICES ASSUME Sound' PROVE Accounts(Written', read')
  BY Zenon DEF AllWritten
<1>1. Sound /\ WrittenMoves
  BY WrittenStep, Zenon
<1>2. Accounts(Written, read) /\ Packets(segs) \in Seq(Seq(Nat)) /\ read \in Nat
  BY <1>1, PacketsFacts, Zenon DEF AllWritten, Contents
<1>3. CASE Written' = Written /\ read' = read
  BY <1>2, <1>3, Zenon
<1>4. CASE Written' = Append(Written, <<>>) /\ Written = Packets(segs) /\ read' = read
  BY <1>2, <1>4, AccountsOpen, Zenon
<1>5. CASE /\ read' = read + 1 /\ Written = Append(Packets(segs), partial[seq].pkts)
           /\ partial[seq].pkts \in Seq(Nat)
           /\ Written' = Append(Packets(segs), Append(partial[seq].pkts, read + 1))
  <2>1. Accounts(Append(Packets(segs), Append(partial[seq].pkts, read + 1)), read + 1)
    BY <1>2, <1>5, AccountsWrite, Zenon
  <2> QED BY <1>5, <2>1, Zenon
<1> QED BY <1>1, <1>3, <1>4, <1>5, Zenon DEF WrittenMoves

\* The state "closed" is entered at the end of close(), and left for nothing
\* but a failure.
LEMMA ClosingStep ==
  ASSUME Control, Closing, [Next]_vars
  PROVE  Closing'
<1>1. CASE Start
  BY <1>1, Zenon DEF Start, Closing, Running, Control, writer, disk, env
<1>2. CASE Setup
  BY <1>2, Zenon DEF Setup, Raise, Fine, Fault, Closing, Running, Control, writer,
      disk, env
<1>3. CASE Open
  BY <1>3, Zenon DEF Open, Closing, Running, Control, writer, disk, env
<1>4. CASE OpenThrows
  BY <1>4, Zenon DEF OpenThrows, Raise, Fine, Fault, Closing, Running, Control,
      writer, disk, env
<1>5. CASE Persist
  BY <1>5, Zenon DEF Persist, AfterPersist, Closing, Running, Control, writer, disk, env
<1>6. CASE PersistThrows
  BY <1>6, Zenon DEF PersistThrows, Raise, Fault, Closing, Running, Control, writer,
      disk, env
<1>7. CASE Heartbeat
  BY <1>7, Zenon DEF Heartbeat, Raise, Fine, Fault, Closing, Running, Control,
      writer, disk, env
<1>8. CASE Rotate
  BY <1>8, Zenon DEF Rotate, StartClose, Closing, Running, Control, writer, disk, env
<1>9. CASE Flushed
  BY <1>9, Zenon DEF Flushed, StartClose, Closing, Running, Control, writer, disk, env
<1>10. CASE Trailer
  BY <1>10, Zenon DEF Trailer, Raise, Fine, Fault, Closing, Running, Control, writer,
      disk, env
<1>11. CASE Link
  BY <1>11, Zenon DEF Link, Raise, Fine, Fault, Closing, Running, Control, writer,
      disk, env
<1>12. CASE Publish
  BY <1>12, Zenon DEF Publish, Closing, Running, Control, writer, disk, env
<1>13. CASE PublishThrows
  BY <1>13, Zenon DEF PublishThrows, Raise, Fault, Closing, Running, Control, writer,
      disk, env
<1>14. CASE Quota
  BY <1>14, Zenon DEF Quota, Raise, Closing, Running, Control, writer, disk, env
<1>15. CASE Leave
  BY <1>15, Zenon DEF Leave, Closing, Running, Control, writer, disk, env
<1>16. ASSUME NEW n \in PacketBytes + 1 .. PacketBytes + Snaplen, Drain(n) PROVE Closing'
  BY <1>16, Zenon DEF Drain, Raise, WritePacket, Closing, Running, Control, writer,
      disk, env
<1>17. CASE Terminate
  BY <1>17, Zenon DEF Terminate, Closing, Running, Control, writer, disk, env
<1>18. CASE Kill
  BY <1>18, Zenon DEF Kill, Fault, Closing, Running, Control, writer, disk, env
<1>19. CASE Relaunch
  BY <1>19, Zenon DEF Relaunch, Closing, Running, Control, writer, disk, env
<1>20. ASSUME NEW op, NEW g \in 1 .. MaxGeneration, Request(op, g) PROVE Closing'
  BY <1>20, Zenon DEF Request, Closing, Running, Control, writer, disk, env
<1>21. CASE Artifacts
  BY <1>21, Zenon DEF Artifacts, Closing, Running, Control, writer, disk, env
<1>22. CASE UNCHANGED vars
  BY <1>22, Zenon DEF vars, Closing, Running, Control, writer, disk, env
<1>23. CASE ReadFails
  BY <1>23, Zenon DEF ReadFails, Raise, Fault, Closing, Running, Control,
      writer, disk, env
<1> QED
  BY <1>1, <1>2, <1>3, <1>4, <1>5, <1>6, <1>7, <1>8, <1>9, <1>10, <1>11,
     <1>12, <1>13, <1>14, <1>15, <1>16, <1>17, <1>18, <1>19, <1>20, <1>21, <1>22, <1>23,
     Zenon DEF Next, Worker

\* After a "closed" manifest nothing is read or written any more.
OverMoves ==
  Over /\ ~fd => Over' /\ ~fd' /\ read' = read /\ partial' = partial /\ segs' \in {segs, <<>>}

\* Every step does so.
LEMMA OverStep ==
  ASSUME Control, [Next]_vars
  PROVE  OverMoves
<1>1. CASE Start
  BY <1>1, Zenon DEF Start, OverMoves, Over, Running, Control, writer, disk, traffic,
      env
<1>2. CASE Setup
  BY <1>2, Zenon DEF Setup, Raise, Fine, Fault, OverMoves, Over, Running, Control,
      writer, disk, traffic, env
<1>3. CASE Open
  BY <1>3, Zenon DEF Open, OverMoves, Over, Running, Control, writer, disk, traffic, env
<1>4. CASE OpenThrows
  BY <1>4, Zenon DEF OpenThrows, Raise, Fine, Fault, OverMoves, Over, Running,
      Control, writer, disk, traffic, env
<1>5. CASE Persist
  BY <1>5, Zenon DEF Persist, AfterPersist, OverMoves, Over, Running, Control,
      writer, disk, traffic, env
<1>6. CASE PersistThrows
  BY <1>6, Zenon DEF PersistThrows, Raise, Fault, OverMoves, Over, Running, Control,
      writer, disk, traffic, env
<1>7. CASE Heartbeat
  BY <1>7, Zenon DEF Heartbeat, Raise, Fine, Fault, OverMoves, Over, Running,
      Control, writer, disk, traffic, env
<1>8. CASE Rotate
  BY <1>8, Zenon DEF Rotate, StartClose, OverMoves, Over, Running, Control, writer,
      disk, traffic, env
<1>9. CASE Flushed
  BY <1>9, Zenon DEF Flushed, StartClose, OverMoves, Over, Running, Control, writer,
      disk, traffic, env
<1>10. CASE Trailer
  BY <1>10, Zenon DEF Trailer, OverMoves, Over
<1>11. CASE Link
  BY <1>11, Zenon DEF Link, Raise, Fine, Fault, OverMoves, Over, Running, Control,
      writer, disk, traffic, env
<1>12. CASE Publish
  BY <1>12, Zenon DEF Publish, OverMoves, Over, Running, Control, writer, disk,
      traffic, env
<1>13. CASE PublishThrows
  BY <1>13, Zenon DEF PublishThrows, Raise, Fault, OverMoves, Over, Running, Control,
      writer, disk, traffic, env
<1>14. CASE Quota
  BY <1>14, Zenon DEF Quota, Raise, OverMoves, Over, Running, Control, writer, disk,
      traffic, env
<1>15. CASE Leave
  BY <1>15, Zenon DEF Leave, OverMoves, Over, Running, Control, writer, disk,
      traffic, env
<1>16. ASSUME NEW n \in PacketBytes + 1 .. PacketBytes + Snaplen, Drain(n) PROVE OverMoves
  BY <1>16, Zenon DEF Drain, Raise, WritePacket, OverMoves, Over, Running, Control,
      writer, disk, traffic, env
<1>17. CASE Terminate
  BY <1>17, Zenon DEF Terminate, OverMoves, Over, Running, Control, writer, disk,
      traffic, env
<1>18. CASE Kill
  BY <1>18, Zenon DEF Kill, Fault, OverMoves, Over, Running, Control, writer, disk,
      traffic, env
<1>19. CASE Relaunch
  BY <1>19, Zenon DEF Relaunch, OverMoves, Over, Running, Control, writer, disk,
      traffic, env
<1>20. ASSUME NEW op, NEW g \in 1 .. MaxGeneration, Request(op, g) PROVE OverMoves
  BY <1>20, Zenon DEF Request, OverMoves, Over, Running, Control, writer, disk,
      traffic, env
<1>21. CASE Artifacts
  BY <1>21, Zenon DEF Artifacts, OverMoves, Over, Running, Control, writer, disk,
      traffic, env
<1>22. CASE UNCHANGED vars
  BY <1>22, Zenon DEF vars, OverMoves, Over, Running, Control, writer, disk, traffic,
      env
<1>23. CASE ReadFails
  BY <1>23, Zenon DEF ReadFails, Raise, Fault, OverMoves, Over, Running,
      Control, writer, disk, traffic, env
<1> QED
  BY <1>1, <1>2, <1>3, <1>4, <1>5, <1>6, <1>7, <1>8, <1>9, <1>10, <1>11,
     <1>12, <1>13, <1>14, <1>15, <1>16, <1>17, <1>18, <1>19, <1>20, <1>21, <1>22, <1>23,
     Zenon DEF Next, Worker

\* A manifest says "closed" only when everything is written and published.
LEMMA AccountStep ==
  ASSUME Control, Budget, Contents, Published, Manifest, Moves, Account, [Next]_vars
  PROVE  Account'
<1>1. OneFile' /\ AllWritten' /\ Closing'
  BY OneFileStep, AllWrittenStep, ClosingStep, Zenon DEF Account
<1>2. ASSUME NEW m \in man', m.state = "closed", client' = "agent"
      PROVE  Accounts(Packets(m.segs), read') /\ DOMAIN partial' = {} /\ Over'
  <2>1. client = "agent"
    BY <1>2, Zenon DEF Moves
  <2>2. CASE m \in man
    <3>1. Accounts(Packets(m.segs), read) /\ DOMAIN partial = {} /\ Over /\ ~fd
      <4>1. Accounts(Packets(m.segs), read) /\ DOMAIN partial = {} /\ Over
        BY <1>2, <2>1, <2>2, Zenon DEF Account, ClosedIsComplete
      <4>2. ~fd
        BY <4>1, Zenon DEF Contents, InHand
      <4> QED BY <4>1, <4>2, Zenon
    <3>2. Over' /\ read' = read /\ partial' = partial
      BY <3>1, OverStep, Zenon DEF OverMoves
    <3> QED BY <3>1, <3>2, Zenon
  <2>3. CASE m \notin man
    <3>1. Running /\ m = Entry
      BY <1>2, <2>3, Zenon DEF Moves
    <3>2. st.state = "closed" /\ m.segs = segs
      BY <1>2, <3>1, Zenon DEF Entry
    <3>3. ctx = "final" /\ pc \in {"persist", "unlink"}
      BY <3>1, <3>2, Zenon DEF Account, Closing
    <3>4. Sound
      BY <2>1, <3>1, <3>3, Zenon DEF Sound
    <3>5. DOMAIN partial = {} /\ ~fd
      BY <3>3, <3>4, Zenon DEF Account, OneFile, Writing
    <3>6. Accounts(Packets(segs), read)
      BY <3>4, <3>5, Zenon DEF Account, AllWritten, Written
    <3>7. Over' /\ read' = read /\ partial' = partial
      <4>1. CASE Persist
        BY <3>3, <4>1, Zenon DEF Persist, AfterPersist, Over, disk, traffic
      <4>2. CASE PersistThrows
        BY <3>3, <3>5, <4>2, Zenon DEF PersistThrows, Raise, Over, disk, traffic
      <4>3. Persist \/ PersistThrows
        BY <1>2, <2>3, Zenon DEF Next, Worker, vars, Start, Setup, Open, OpenThrows,
          Heartbeat, Rotate, Flushed, Trailer, Link, Publish, PublishThrows, Quota,
          Leave, ReadFails, Drain, Terminate, Kill, Relaunch, Request, Artifacts
      <4> QED BY <4>1, <4>2, <4>3, Zenon
    <3> QED BY <3>2, <3>5, <3>6, <3>7, Zenon
  <2> QED BY <2>2, <2>3, Zenon
<1> QED BY <1>1, <1>2, Zenon DEF Account, ClosedIsComplete

(***************************************************************************)
(* The theorems.                                                           *)
(***************************************************************************)
CaptureInv ==
  /\ Control /\ Budget /\ Usage /\ Contents /\ Published /\ Recorded /\ Manifest /\ Reader
  /\ Account

\* Initially.
LEMMA CaptureInit == Init => CaptureInv
<1> SUFFICES ASSUME Init PROVE CaptureInv
  OBVIOUS
<1>1. Control
  BY Zenon DEF Init, Control, Running
<1>2. Budget /\ Usage
  BY Sizes DEF Init, Budget, Usage, Running
<1>3. Contents
  BY DEF Init, Contents, Directory, InHand
<1>4. Published /\ Recorded
  BY DEF Init, Published, PublishedAs, Recorded, Running, ButLast
<1>5. Manifest
  BY Zenon DEF Init, Manifest
<1>6. Reader
  BY Zenon DEF Init, Idle, Reader, ArtifactsComplete
<1>7. Account
  <2>0. DOMAIN partial = {}
    BY SMT DEF Init
  <2>1. OneFile /\ Closing /\ man = {}
    BY <2>0, Zenon DEF Init, OneFile, Sound, Writing, Running, Closing
  <2>2. AllWritten
    <3>1. Written = Packets(<<>>) /\ read = 0
      BY <2>0, Zenon DEF Init, Written
    <3>2. Accounts(Packets(<<>>), 0)
      BY SMT DEF Accounts, Packets
    <3> QED BY <3>1, <3>2, Zenon DEF AllWritten
  <2> QED BY <2>1, <2>2, Zenon DEF Account, ClosedIsComplete
<1> QED BY <1>1, <1>2, <1>3, <1>4, <1>5, <1>6, <1>7, Zenon DEF CaptureInv

\* Every step of the worker, of its clients and of the request keeps it.
LEMMA CaptureStep == CaptureInv /\ [Next]_vars => CaptureInv'
<1> SUFFICES ASSUME CaptureInv, [Next]_vars PROVE CaptureInv'
  OBVIOUS
<1> USE DEF CaptureInv
<1>1. Control' /\ Budget' /\ Contents'
  BY ControlStep, BudgetStep, ContentsStep, Zenon
<1>2. Moves /\ FileMoves /\ Counts
  BY MovesStep, FileMovesStep, CountsStep, Zenon
<1>3. Published' /\ Manifest' /\ Recorded'
  BY <1>2, PublishedStep, ManifestStep, RecordedStep, Zenon
<1>4. Reader'
  <2>1. CASE rd' = rd
    BY <1>2, <2>1, ReaderFrame, Zenon
  <2>2. CASE Artifacts
    BY <2>2, ReaderStep, Zenon
  <2>3. rd' = rd \/ Artifacts
    BY Zenon DEF Next, Worker, vars, env, Start, Setup, Open, OpenThrows, Persist,
      PersistThrows, Heartbeat, Rotate, Flushed, Trailer, Link, Publish, PublishThrows,
      Quota, Leave, ReadFails, Drain, Terminate, Kill, Relaunch, Request
  <2> QED BY <2>1, <2>2, <2>3, Zenon
<1>5. Account' /\ Usage'
  BY <1>2, AccountStep, UsageStep, Zenon
<1> QED BY <1>1, <1>3, <1>4, <1>5, Zenon

\* So it always holds.
LEMMA CaptureInvariant == Spec => []CaptureInv
BY CaptureInit, CaptureStep, PTL DEF Spec

\* The files of an agent's capture pass its byte budget by less than one
\* block, torn writes and failed publications included: Writer::block()
\* checks the counters before it writes, and what they miss was written by
\* the one write whose failure ended the capture.
THEOREM BudgetKept == Spec => []WithinBudget
<1>1. CaptureInv => WithinBudget
  BY Zenon DEF CaptureInv, Usage, WithinBudget
<1> QED BY <1>1, CaptureInvariant, PTL

\* The quota check after a rotation leaves room for the block of a packet of
\* any length and for the trailer.
THEOREM RotationsHaveRoom == Spec => []RoomAfterRotation
<1>1. ASSUME CaptureInv PROVE RoomAfterRotation
  <2> SUFFICES ASSUME fd, bytes = HeaderBytes, segs # <<>>, client = "agent"
               PROVE  Fits(Snaplen + PacketBytes + TrailerBytes)
    BY Zenon DEF RoomAfterRotation
  <2>1. seq # 0 /\ total \in Nat /\ bytes \in Nat
    BY <1>1 DEF CaptureInv, Budget, Contents
  <2>2. total + 2 * Snaplen + Overhead < ByteBudget
    BY <1>1, <2>1, Zenon DEF CaptureInv, Budget
  <2> QED BY <2>1, <2>2, Sizes DEF Fits, HeaderBytes
<1> QED BY <1>1, CaptureInvariant, PTL

\* Whatever was killed, failed or written in part, each segment the manifest
\* lists is a published file with the content that was hashed; the recorded
\* size differs from the file's only in the last segment of a capture the
\* manifest calls failed.
THEOREM ManifestsAreTrue == Spec => []ManifestIsTrue
<1>1. ASSUME CaptureInv PROVE ManifestIsTrue
  <2> SUFFICES ASSUME NEW m \in man, NEW i \in DOMAIN m.segs
               PROVE  /\ m.segs[i].seq \in DOMAIN closed
                      /\ closed[m.segs[i].seq] = m.segs[i].file
                      /\ m.segs[i].size # m.segs[i].file.size /\ client = "agent" =>
                           m.state = "failed" /\ i = Len(m.segs)
    BY Zenon DEF ManifestIsTrue
  <2>1. m.segs \in Seq(Segment) /\ PublishedAs(m.segs)
    BY <1>1, Zenon DEF CaptureInv, Published
  <2>2. i \in 1 .. Len(m.segs)
    BY <2>1
  <2>3. client = "agent" => Exact(m.segs) \/ (m.state = "failed" /\ ButLast(m.segs))
    BY <1>1, Zenon DEF CaptureInv, Recorded
  <2> QED BY <2>1, <2>2, <2>3, Zenon DEF PublishedAs, Exact, ButLast
<1> QED BY <1>1, CaptureInvariant, PTL

\* Under the agent, a manifest that says "closed" lacks no packet the worker
\* took from libpcap: main() writes "closed" only when nothing threw.
THEOREM ClosesComplete == Spec => []ClosedIsComplete
<1>1. CaptureInv => ClosedIsComplete
  BY Zenon DEF CaptureInv, Account
<1> QED BY <1>1, CaptureInvariant, PTL

\* artifacts() leaves out no packet that was in the directory when it began.
THEOREM RepliesComplete == Spec => []ArtifactsComplete
<1>1. CaptureInv => ArtifactsComplete
  BY Zenon DEF CaptureInv, Reader
<1> QED BY <1>1, CaptureInvariant, PTL

\* The manifest only advances, across kills and a second start of the unit.
THEOREM ManifestsAdvance == Spec => ManifestAdvances
<1> DEFINE Advance ==
      \A m \in man : \E n \in man' :
        /\ Prefix(m.segs, n.segs) /\ m.gen =< n.gen
        /\ m.state = "failed" => n.state = "failed"
        /\ m.state = "closed" => n.state # "active"
<1>1. ASSUME CaptureInv, [Next]_vars PROVE [Advance]_vars
  <2> SUFFICES ASSUME NEW m \in man
               PROVE  \E n \in man' : /\ Prefix(m.segs, n.segs) /\ m.gen =< n.gen
                                      /\ m.state = "failed" => n.state = "failed"
                                      /\ m.state = "closed" => n.state # "active"
    OBVIOUS
  <2>1. m.segs \in Seq(Segment)
    BY <1>1, Zenon DEF CaptureInv, Published
  <2>2. CASE man' = man
    <3>1. Prefix(m.segs, m.segs) /\ m.gen =< m.gen
      BY <1>1, <2>1 DEF Prefix, CaptureInv, Manifest
    <3> QED BY <2>2, <3>1, Zenon
  <2>3. CASE Running /\ man' = {Entry}
    <3>1. Continues(m)
      BY <1>1, <2>3, Zenon DEF CaptureInv, Manifest
    <3>2. Prefix(m.segs, segs)
      BY <1>1, <2>1, <3>1 DEF Continues, Prefix, CaptureInv, Contents
    <3> QED BY <2>3, <3>1, <3>2, Zenon DEF Entry, Continues
  <2>4. Moves
    BY <1>1, MovesStep, Zenon DEF CaptureInv
  <2> QED BY <2>2, <2>3, <2>4, Zenon DEF Moves
<1> QED BY <1>1, CaptureInvariant, PTL DEF Spec, ManifestAdvances
=============================================================================
