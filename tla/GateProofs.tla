----------------------------- MODULE GateProofs -----------------------------
(***************************************************************************)
(* The node gate implements TrafficGate, for all lengths of the lease and  *)
(* of the timeouts, all record sizes and both options of run_node.         *)
(***************************************************************************)
EXTENDS NodeGate, TLAPS

\* The lease of gate g, if it has one, is in force at time t.
InForce(g, t) == g.leased => t < g.deadline

\* Where the lease is known to be in force, how late a lapse is noticed
\* elsewhere, and that stream I/O runs under a released gate with an end
\* that the deadline bounds.
Bounded ==
  /\ pc \in {"stream", "read", "write", "connect", "generate", "source", "drain", "input",
             "serve", "wait"} => InForce(gate, clock)
  /\ LapseIsPrompt
  /\ pc \in {"read", "write", "connect"} => gate.released /\ io.end =< Limit
  /\ pc = "source" => io.left > 0

\* While the gate is held the sockets the node answers from are closed.
Shut == ~gate.released => ~gate.tcp /\ ~gate.data

\* The inductive invariant.
GateInv == TypeOK /\ Bounded /\ Shut /\ HeldIsDeaf

\* Initially.
LEMMA GateInit == Init => GateInv
BY GateAssumption DEF Init, GateInv, TypeOK, Bounded, InForce, LapseIsPrompt,
  Shut, HeldIsDeaf, Held, NoRecord, Commands, Places, Gates, Records

\* Moments of the future are within the bound, and not earlier.
LEMMA AfterType ==
  ASSUME TypeOK, NEW d \in Nat, NEW t \in After(d)
  PROVE  t \in 0 .. MaxTime /\ t >= clock
BY GateAssumption DEF TypeOK, After

\* A gate that is held is neither released nor leased; only the generator's
\* socket may be open.
LEMMA HoldFacts ==
  ASSUME TypeOK
  PROVE  /\ Hold \in Gates /\ Held \in Gates
         /\ ~Hold.released /\ ~Hold.leased /\ ~Hold.tcp /\ ~Hold.data
         /\ ~Held.released /\ ~Held.leased /\ ~Held.tcp /\ ~Held.data
         /\ Hold.late \subseteq {"source"} /\ Held.late = {}
BY DEF TypeOK, Hold, Held, Gates

\* expire() leaves the gate or holds it; a gate still released is in force.
LEMMA ExpireFacts ==
  ASSUME TypeOK, NEW t \in Nat
  PROVE  /\ Expire(t) \in Gates
         /\ Expire(t) = gate \/ Expire(t) = Hold
         /\ Expire(t).released => Expire(t) = gate
         /\ InForce(Expire(t), t)
<1>1. gate \in Gates /\ gate.deadline \in Nat BY DEF TypeOK, Gates
<1>2. CASE gate.leased /\ t >= gate.deadline
  BY <1>2, HoldFacts DEF Expire, InForce
<1>3. CASE ~(gate.leased /\ t >= gate.deadline)
  BY <1>1, <1>3 DEF Expire, InForce
<1> QED BY <1>2, <1>3

\* The limit of stream I/O, and the end of a new record within it.
LEMMA LimitFacts ==
  ASSUME TypeOK
  PROVE  /\ Limit \in Nat
         /\ InForce(gate, clock) => clock < Limit
BY GateAssumption DEF Limit, Forever, TypeOK, Gates, InForce

LEMMA RecordFacts ==
  ASSUME TypeOK, NEW t \in Nat, NEW r \in {"serve", "probe"}
  PROVE  /\ NewRecord(t, r) \in Records
         /\ NewRecord(t, r).end =< Limit
<1>1. Limit \in Nat /\ t + RecordTime \in Nat
  BY LimitFacts, GateAssumption
<1>2. Earlier(Limit, t + RecordTime) \in Nat /\ Earlier(Limit, t + RecordTime) =< Limit
  BY <1>1 DEF Earlier
<1>3. Record \in 0 .. Record + 2
  BY GateAssumption
<1> QED BY <1>2, <1>3 DEF NewRecord, Records

LEMMA NoRecordType == NoRecord \in Records
BY GateAssumption DEF NoRecord, Records

\* What TypeOK says of the primed variables.
LEMMA TypePrime ==
  ASSUME pc' \in Places, gate' \in Gates, clock' \in 0 .. MaxTime,
         ev' \subseteq {"control", "data", "tcp"}, op' \in Commands \cup {"none"},
         io' \in Records, tx' \in [at : Nat, odd : BOOLEAN]
  PROVE  TypeOK'
BY DEF TypeOK

\* Every step preserves the types.
LEMMA TypeStep == GateInv /\ Next => TypeOK'
<1> SUFFICES ASSUME GateInv, Next PROVE TypeOK' OBVIOUS
<1>0. TypeOK BY DEF GateInv
<1>1. clock \in Nat /\ clock \in 0 .. MaxTime BY <1>0, GateAssumption DEF TypeOK
<1>2. /\ \A t \in Nat : Expire(t) \in Gates
      /\ \A t \in Nat : \A r \in {"serve", "probe"} : NewRecord(t, r) \in Records
      /\ NoRecord \in Records /\ Held \in Gates /\ Hold \in Gates
  BY <1>0, ExpireFacts, RecordFacts, NoRecordType, HoldFacts
<1>3. /\ \A t \in After(PollTime) : t \in 0 .. MaxTime /\ t \in Nat
      /\ \A t \in After(RecordTime) : t \in 0 .. MaxTime /\ t \in Nat
      /\ \A t \in After(InputTime) : t \in 0 .. MaxTime /\ t \in Nat
      /\ \A t \in After(ProbeTime) : t \in 0 .. MaxTime /\ t \in Nat
  BY <1>0, AfterType, GateAssumption
<1>4. \A t \in Nat : [at |-> t, odd |-> ~tx.odd] \in [at : Nat, odd : BOOLEAN]
  BY <1>0 DEF TypeOK
<1>5. /\ io.left > 0 => [io EXCEPT !.left = @ - 1] \in Records
      /\ [NoRecord EXCEPT !.left = 2] \in Records
  BY <1>0, GateAssumption DEF TypeOK, Records, NoRecord
<1>6. CASE Poll
  BY <1>0, <1>1, <1>2, <1>3, <1>6 DEF Poll, TypeOK, Places
<1>7. CASE Accept \/ Interrupted
  BY <1>0, <1>1, <1>2, <1>7 DEF Accept, Interrupted, TypeOK, Places
<1>8. CASE RecordFails
  BY <1>0, <1>1, <1>2, <1>3, <1>8 DEF RecordFails, AfterRecord, TypeOK, Places
<1>9. CASE ReadChunk
  <2>1. io.left \in Nat BY <1>0, GateAssumption DEF TypeOK, Records
  <2>2. PICK t \in After(RecordTime) :
          /\ clock' = t /\ io.left > 0
          /\ io' \in {[io EXCEPT !.left = @ - 1], NoRecord, NewRecord(t, "serve")}
          /\ pc' \in {"write", "read", "data", "reply"}
    BY <2>1, <1>9 DEF ReadChunk, AfterRecord
  <2>3. io' \in Records BY <2>2, <1>2, <1>3, <1>5
  <2> QED BY <2>2, <2>3, <1>0, <1>3, <1>9 DEF ReadChunk, TypeOK, Places
<1>10. CASE WriteChunk
  <2>0. io.left \in Nat BY <1>0, GateAssumption DEF TypeOK, Records
  <2>1. PICK t \in After(RecordTime) :
          /\ clock' = t /\ Transmit(t)
          /\ io.left > 0 /\ io' \in {[io EXCEPT !.left = @ - 1], NoRecord, NewRecord(t, "probe")}
          /\ pc' \in {"write", "read", "data"}
    BY <2>0, <1>10 DEF WriteChunk
  <2>2. tx' \in [at : Nat, odd : BOOLEAN] BY <2>1, <1>3, <1>4 DEF Transmit
  <2>3. io' \in Records BY <2>1, <1>2, <1>3, <1>5
  <2> QED BY <2>1, <2>2, <2>3, <1>0, <1>3, <1>10 DEF WriteChunk, TypeOK, Places
<1>11. CASE Echo
  BY <1>0, <1>1, <1>2, <1>4, <1>11 DEF Echo, Transmit, TypeOK, Places
<1>12. CASE Generate \/ GeneratorThrows \/ Drain \/ Arrive
  <2>1. /\ [gate EXCEPT !.source = TRUE] \in Gates
        /\ [gate EXCEPT !.late = @ \ {"source"}] \in Gates
        /\ \A k \in {"data", "tcp", "source"} : [gate EXCEPT !.late = @ \cup {k}] \in Gates
    BY <1>0 DEF TypeOK, Gates
  <2>2. CASE Generate \/ GeneratorThrows
    BY <2>1, <2>2, <1>0, <1>1, <1>2, <1>5 DEF Generate, GeneratorThrows, TypeOK, Places
  <2>3. CASE Drain \/ Arrive
    BY <2>1, <2>3, <1>0 DEF Drain, Arrive, TypeOK, Places
  <2> QED BY <1>12, <2>2, <2>3
<1>13. CASE SendSource
  <2>1. io.left > 0 BY <1>13 DEF GateInv, Bounded, SendSource
  <2> QED BY <2>1, <1>0, <1>1, <1>2, <1>4, <1>5, <1>13 DEF SendSource, Transmit, TypeOK, Places
<1>14. CASE Input
  BY <1>0, <1>1, <1>2, <1>3, <1>14 DEF Input, TypeOK, Places
<1>15. CASE Renew
  <2>1. [gate EXCEPT !.deadline = clock + Lease] \in Gates
    BY <1>0, <1>1, GateAssumption DEF TypeOK, Gates
  <2> QED BY <2>1, <1>0, <1>15 DEF Renew, TypeOK, Places
<1>16. CASE Release
  <2>1. PICK d \in BOOLEAN, s \in BOOLEAN, b \in BOOLEAN :
          gate' = [gate EXCEPT !.released = TRUE, !.leased = b,
                               !.deadline = clock + Lease, !.tcp = s, !.data = d]
    BY <1>16 DEF Release
  <2>2. gate \in Gates /\ clock + Lease \in Nat BY <1>0, <1>1, GateAssumption DEF TypeOK
  <2>a. gate' = [released |-> TRUE, leased |-> b, deadline |-> clock + Lease, tcp |-> s,
                 data |-> d, source |-> gate.source, late |-> gate.late]
    BY <2>1, <2>2 DEF Gates
  <2>b. gate.source \in BOOLEAN /\ gate.late \in SUBSET {"data", "tcp", "source"}
    BY <2>2 DEF Gates
  <2>3. gate' \in Gates BY <2>a, <2>b, <2>2 DEF Gates
  <2> QED BY <2>3, <1>0, <1>16 DEF Release, TypeOK, Places
<1>17. CASE Quiesce \/ Stop
  BY <1>0, <1>2, <1>17 DEF Quiesce, Stop, TypeOK, Places
<1>18. CASE Probe \/ ProbeEnds \/ NoEffect
  <2>1. CASE Probe
    BY <2>1, <1>0, <1>1, <1>4 DEF Probe, Transmit, TypeOK, Places
  <2>2. CASE ProbeEnds \/ NoEffect
    BY <2>2, <1>0, <1>3 DEF ProbeEnds, NoEffect, TypeOK, Places
  <2> QED BY <1>18, <2>1, <2>2
<1>19. CASE StreamProbe \/ Connected
  <2>1. CASE StreamProbe
    BY <2>1, <1>0, <1>1, <1>2, <1>4 DEF StreamProbe, Transmit, TypeOK, Places
  <2>2. CASE Connected
    BY <2>2, <1>0, <1>2, <1>3 DEF Connected, TypeOK, Places
  <2> QED BY <1>19, <2>1, <2>2
<1>20. CASE Reply
  BY <1>0, <1>1, <1>2, <1>20 DEF Reply, TypeOK, Places
<1> QED
  BY <1>6, <1>7, <1>8, <1>9, <1>10, <1>11, <1>12, <1>13, <1>14, <1>15, <1>16, <1>17,
     <1>18, <1>19, <1>20 DEF Next, Node

\* Every step preserves the bounds.
LEMMA BoundedStep == GateInv /\ Next => Bounded'
<1> SUFFICES ASSUME GateInv, Next PROVE Bounded' OBVIOUS
<1>0. TypeOK /\ Bounded BY DEF GateInv
<1>1. clock \in Nat /\ gate.deadline \in Nat /\ Limit \in Nat /\ io.end \in Nat
  BY <1>0, LimitFacts, GateAssumption DEF TypeOK, Gates, Records
<1>2. Longest \in Nat /\ Longest > 0 /\ InputTime =< Longest /\ ProbeTime =< Longest
  BY GateAssumption DEF Longest
<1>3. \A t \in Nat : /\ Expire(t) = gate \/ Expire(t) = Hold
                     /\ InForce(Expire(t), t)
                     /\ Expire(t).leased => t < Expire(t).deadline + Longest
  <2> SUFFICES ASSUME NEW t \in Nat
               PROVE  /\ Expire(t) = gate \/ Expire(t) = Hold
                      /\ InForce(Expire(t), t)
                      /\ Expire(t).leased => t < Expire(t).deadline + Longest
    OBVIOUS
  <2>1. Expire(t).deadline \in Nat BY <1>0, ExpireFacts DEF Gates
  <2> QED BY <2>1, <1>0, <1>2, ExpireFacts DEF InForce
<1>4. ASSUME gate' = gate PROVE Limit' = Limit
  BY <1>4 DEF Limit
<1>t. /\ \A t \in After(PollTime) : t \in Nat
      /\ \A t \in After(RecordTime) : t \in Nat
      /\ \A t \in After(InputTime) : t \in Nat /\ t =< clock + InputTime
      /\ \A t \in After(ProbeTime) : t \in Nat /\ t =< clock + ProbeTime
  BY <1>0, <1>1, AfterType, GateAssumption DEF After
<1>5. CASE Poll \/ Interrupted
  <2>1. PICK t \in Nat : gate' = Expire(t) /\ clock' = t /\ pc' \in {"top", "stream"}
    BY <1>1, <1>t, <1>5 DEF Poll, Interrupted
  <2> QED BY <2>1, <1>3 DEF Bounded, InForce, LapseIsPrompt
<1>6. CASE Accept
  BY <1>0, <1>1, <1>4, <1>6, RecordFacts DEF Accept, Bounded, InForce, LapseIsPrompt
<1>7. CASE RecordFails
  <2>1. gate' = gate /\ pc' \in {"reply", "data"} /\ (clock' = clock \/ clock' =< io.end)
    BY <1>7 DEF RecordFails, AfterRecord
  <2>3. clock' \in Nat BY <1>7, <1>t DEF RecordFails
  <2>4. InForce(gate, clock) /\ io.end =< Limit BY <1>0, <1>7 DEF RecordFails, Bounded
  <2>2. gate.leased => clock' =< gate.deadline
    BY <2>1, <2>3, <2>4, <1>1 DEF InForce, Limit
  <2> QED BY <2>1, <2>2, <2>3, <1>1, <1>2 DEF Bounded, LapseIsPrompt
<1>8. CASE ReadChunk \/ WriteChunk
  <2>1. PICK t \in After(RecordTime) :
          /\ t < io.end /\ clock' = t
          /\ \/ pc' = pc /\ io' = [io EXCEPT !.left = @ - 1]
             \/ pc' \in {"read", "write"} /\ \E r \in {"serve", "probe"} : io' = NewRecord(t, r)
             \/ pc' \in {"data", "reply"}
    BY <1>8 DEF ReadChunk, WriteChunk, AfterRecord
  <2>2. gate' = gate /\ pc \in {"read", "write"} BY <1>8 DEF ReadChunk, WriteChunk
  <2>3. t \in Nat /\ io.end =< Limit /\ gate.released BY <2>2, <1>0, <1>t DEF Bounded
  <2>4. InForce(gate, t) BY <2>1, <2>3, <1>1 DEF InForce, Limit
  <2>5. gate.leased => t < gate.deadline + Longest BY <2>3, <2>4, <1>1, <1>2 DEF InForce
  <2>6. pc' \in {"read", "write"} => io'.end =< Limit
    <3>1. CASE io' = [io EXCEPT !.left = @ - 1]
      BY <3>1, <2>3, <1>0 DEF TypeOK, Records
    <3> QED BY <3>1, <2>1, <2>3, <1>0, RecordFacts
  <2> QED BY <2>1, <2>2, <2>3, <2>4, <2>5, <2>6, <1>4 DEF Bounded, LapseIsPrompt
<1>9. CASE Echo
  BY <1>1, <1>3, <1>9 DEF Echo, Bounded, LapseIsPrompt
<1>10. CASE Generate \/ GeneratorThrows
  <2>1. CASE Generate
    <3>1. [NoRecord EXCEPT !.left = 2].left = 2 BY DEF NoRecord
    <3>2. pc' = "source" => io'.left = 2 BY <3>1, <2>1 DEF Generate
    <3>3. clock' = clock /\ pc' \in {"source", "drain"} BY <2>1 DEF Generate
    <3>4. CASE gate' = Expire(clock)
      BY <3>2, <3>3, <3>4, <1>1, <1>3 DEF Bounded, LapseIsPrompt
    <3>5. CASE gate' = [gate EXCEPT !.source = TRUE]
      <4>1. gate'.leased = gate.leased /\ gate'.deadline = gate.deadline
        BY <3>5, <1>0 DEF TypeOK, Gates
      <4>2. InForce(gate, clock) BY <1>0, <2>1 DEF Generate, Bounded
      <4> QED BY <3>2, <3>3, <4>1, <4>2, <1>0 DEF Bounded, LapseIsPrompt, InForce
    <3> QED BY <3>4, <3>5, <2>1 DEF Generate
  <2>2. CASE GeneratorThrows
    BY <2>2, <1>0, HoldFacts DEF GeneratorThrows, Bounded, LapseIsPrompt
  <2> QED BY <1>10, <2>1, <2>2
<1>11. CASE SendSource
  <2>1. io.left > 0 /\ io.left \in Nat
    BY <1>0, <1>11, GateAssumption DEF SendSource, Bounded, TypeOK, Records
  <2>2. pc' = "source" => io'.left > 0
    BY <2>1, <1>0, <1>11 DEF SendSource, TypeOK, Records
  <2>3. pc' \in {"source", "drain"} /\ gate' = Expire(clock) /\ clock' = clock
    BY <1>11 DEF SendSource
  <2> QED BY <2>2, <2>3, <1>1, <1>3 DEF Bounded, LapseIsPrompt
<1>d. CASE Drain \/ Arrive
  <2>1. /\ gate'.leased = gate.leased /\ gate'.deadline = gate.deadline
        /\ gate'.released = gate.released /\ clock' = clock /\ io' = io
    BY <1>d, <1>0 DEF Drain, Arrive, TypeOK, Gates
  <2>2. InForce(gate, clock) => InForce(gate', clock') BY <2>1 DEF InForce
  <2>3. Limit' = Limit BY <2>1 DEF Limit
  <2>4. pc' = pc \/ (pc = "drain" /\ pc' = "input") BY <1>d DEF Drain, Arrive
  <2> QED BY <2>1, <2>2, <2>3, <2>4, <1>0 DEF Bounded, LapseIsPrompt
<1>12. CASE Input
  <2>1. CASE pc' = "top"
    <3>1. gate' = gate /\ (clock' = clock \/ clock' \in After(InputTime))
      BY <2>1, <1>12 DEF Input
    <3>2. InForce(gate, clock) BY <1>0, <1>12 DEF Input, Bounded
    <3>3. gate.leased => clock' < gate.deadline + Longest
      BY <3>1, <3>2, <1>t, <1>1, <1>2, GateAssumption DEF InForce
    <3> QED BY <2>1, <3>1, <3>3 DEF Bounded, LapseIsPrompt
  <2>2. CASE pc' = "serve"
    <3>1. PICK t \in Nat : gate' = Expire(t) /\ clock' = t BY <2>2, <1>12, <1>t DEF Input
    <3> QED BY <2>2, <3>1, <1>3 DEF Bounded, LapseIsPrompt
  <2> QED BY <1>12, <2>1, <2>2 DEF Input
<1>13. CASE Renew \/ Release
  <2>1. pc' = "reply" /\ clock' = clock BY <1>13 DEF Renew, Release
  <2>2. gate'.leased => clock < gate'.deadline + Longest
    <3>1. CASE gate' = gate BY <3>1, <1>0 DEF Bounded, LapseIsPrompt
    <3>2. CASE gate'.deadline = clock + Lease BY <3>2, <1>1, <1>2, GateAssumption
    <3> QED BY <3>1, <3>2, <1>0, <1>13 DEF Renew, Release, TypeOK, Gates
  <2> QED BY <2>1, <2>2 DEF Bounded, LapseIsPrompt
<1>14. CASE Quiesce \/ Stop
  BY <1>14, <1>0, HoldFacts DEF Quiesce, Stop, Bounded, LapseIsPrompt
<1>15. CASE Probe \/ NoEffect
  BY <1>0, <1>15 DEF Probe, NoEffect, Bounded, LapseIsPrompt
<1>16. CASE ProbeEnds
  <2>1. InForce(gate, clock) BY <1>0, <1>16 DEF ProbeEnds, Bounded
  <2>2. gate.leased => clock' < gate.deadline + Longest
    BY <2>1, <1>16, <1>t, <1>1, <1>2, GateAssumption DEF ProbeEnds, InForce
  <2> QED BY <2>2, <1>16 DEF ProbeEnds, Bounded, LapseIsPrompt
<1>17. CASE StreamProbe \/ Connected
  <2>1. gate' = gate /\ gate.released /\ InForce(gate, clock) /\ pc' \in {"connect", "write"}
    BY <1>0, <1>17 DEF StreamProbe, Connected, Bounded
  <2>2. io' = NewRecord(clock', "probe") /\ clock' \in Nat
    BY <1>1, <1>17, <1>t DEF StreamProbe, Connected
  <2>3. clock' = clock \/ (clock' < io.end /\ io.end =< Limit)
    BY <1>0, <1>17 DEF StreamProbe, Connected, Bounded
  <2>4. InForce(gate, clock') BY <2>1, <2>2, <2>3, <1>1 DEF InForce, Limit
  <2>5. gate.leased => clock' < gate.deadline + Longest BY <2>2, <2>4, <1>1, <1>2 DEF InForce
  <2>6. io'.end =< Limit BY <2>2, <1>0, RecordFacts
  <2> QED BY <2>1, <2>4, <2>5, <2>6, <1>4 DEF Bounded, LapseIsPrompt
<1>18. CASE Reply
  BY <1>1, <1>3, <1>18 DEF Reply, Bounded, LapseIsPrompt
<1> QED
  BY <1>5, <1>6, <1>7, <1>8, <1>9, <1>10, <1>11, <1>d, <1>12, <1>13, <1>14, <1>15, <1>16,
     <1>17, <1>18 DEF Next, Node

\* Every step keeps the sockets the node answers from closed while it is
\* held, and so nothing sent meanwhile waits in them.
LEMMA DeafStep == GateInv /\ Next => Shut' /\ HeldIsDeaf'
<1> SUFFICES ASSUME GateInv, Next PROVE Shut' /\ HeldIsDeaf' OBVIOUS
<1>0. TypeOK /\ Shut /\ HeldIsDeaf BY DEF GateInv
<1>1. clock \in Nat BY <1>0, GateAssumption DEF TypeOK
<1>2. \A t \in Nat : Expire(t) = gate \/ Expire(t) = Hold BY <1>0, ExpireFacts
<1>3. CASE gate' = gate \/ gate' = Hold \/ gate' = Held
  BY <1>0, <1>3, HoldFacts DEF Shut, HeldIsDeaf
<1>4. CASE gate'.late = gate.late /\ gate'.released
  BY <1>0, <1>4 DEF Shut, HeldIsDeaf
<1>5. CASE Drain
  <2>1. /\ gate'.released = gate.released /\ gate'.tcp = gate.tcp /\ gate'.data = gate.data
        /\ gate'.late \subseteq gate.late
    BY <1>0, <1>5 DEF Drain, TypeOK, Gates
  <2> QED BY <2>1, <1>0 DEF Shut, HeldIsDeaf
<1>6. CASE Arrive
  <2>1. PICK k \in {"data", "tcp", "source"} :
          gate[k] /\ ~gate.released /\ gate' = [gate EXCEPT !.late = @ \cup {k}]
    BY <1>6 DEF Arrive
  <2>2. k = "source" BY <2>1, <1>0 DEF Shut
  <2>3. /\ gate'.released = gate.released /\ gate'.tcp = gate.tcp /\ gate'.data = gate.data
        /\ gate'.late = gate.late \cup {"source"}
    BY <2>1, <2>2, <1>0 DEF TypeOK, Gates
  <2> QED BY <2>3, <1>0 DEF Shut, HeldIsDeaf
<1>7. \/ gate' = gate \/ gate' = Hold \/ gate' = Held
      \/ \E t \in Nat : gate' = Expire(t)
      \/ gate'.late = gate.late /\ gate'.released
      \/ Drain \/ Arrive
  <2>1. /\ \A t \in After(PollTime) : t \in Nat
        /\ \A t \in After(InputTime) : t \in Nat
    BY <1>0, AfterType, GateAssumption
  <2>2. CASE Poll \/ Interrupted BY <2>1, <2>2, <1>1 DEF Poll, Interrupted
  <2>3. CASE Input BY <2>1, <2>3, <1>1 DEF Input
  <2>4. CASE Renew \/ Release BY <2>4, <1>0 DEF Renew, Release, TypeOK, Gates
  <2>5. CASE Generate
    <3>1. Expire(clock).released => gate.released BY <1>0, <1>1, ExpireFacts
    <3> QED BY <2>5, <3>1, <1>0, <1>1 DEF Generate, TypeOK, Gates
  <2>6. CASE Echo \/ SendSource \/ Reply BY <2>6, <1>1 DEF Echo, SendSource, Reply
  <2>7. CASE GeneratorThrows \/ Quiesce \/ Stop
    BY <2>7 DEF GeneratorThrows, Quiesce, Stop
  <2>8. CASE Accept \/ RecordFails \/ ReadChunk \/ WriteChunk \/ Probe \/ ProbeEnds
             \/ StreamProbe \/ Connected \/ NoEffect
    BY <2>8 DEF Accept, RecordFails, ReadChunk, WriteChunk, Probe, ProbeEnds, StreamProbe,
         Connected, NoEffect
  <2> QED BY <2>2, <2>3, <2>4, <2>5, <2>6, <2>7, <2>8 DEF Next, Node
<1> QED BY <1>2, <1>3, <1>4, <1>5, <1>6, <1>7

\* The invariant holds.
LEMMA GateInvariant == Spec => []GateInv
<1>1. GateInv /\ UNCHANGED vars => GateInv'
  BY DEF GateInv, vars, TypeOK, Bounded, InForce, LapseIsPrompt, Shut, HeldIsDeaf, Limit
<1>2. GateInv /\ [Next]_vars => GateInv'
  BY <1>1, TypeStep, BoundedStep, DeafStep DEF GateInv
<1> QED BY GateInit, <1>2, PTL DEF Spec

\* In every reachable state the types hold, nothing sent to a held node waits
\* where it would be answered, and a lapsed lease is noticed within the longest wait of the loop.
THEOREM GateSafe == Spec => [](TypeOK /\ HeldIsDeaf /\ LapseIsPrompt)
<1>1. GateInv => TypeOK /\ HeldIsDeaf /\ LapseIsPrompt
  BY DEF GateInv, Bounded
<1> QED BY <1>1, GateInvariant, PTL

\* What peers send to a held node never waits in a socket the node answers
\* from, whichever command, lapse of the lease or failed call held it, and
\* although the generator's socket stays open.
THEOREM HeldGatesDeaf == Spec => []HeldIsDeaf
BY GateSafe, PTL

\* The abstract permit of a step that leaves the gate or expires it.
LEMMA PermitFacts ==
  ASSUME TypeOK
  PROVE  /\ gate' = gate => permit' = permit
         /\ gate' \in {Hold, Held} => permit' = 0
         /\ gate'.released = gate.released /\ gate'.leased = gate.leased
              /\ gate'.deadline = gate.deadline => permit' = permit
         /\ permit \in Nat
         /\ gate.released /\ InForce(gate, clock) => clock < permit
BY LimitFacts, HoldFacts DEF permit, Limit

\* A step of the node is a step of the contract.
LEMMA ContractStep == GateInv /\ GateInv' /\ Next => Contract!Next
<1> SUFFICES ASSUME GateInv, GateInv', Next PROVE Contract!Next OBVIOUS
<1>0. TypeOK /\ TypeOK' /\ Bounded /\ Bounded' BY DEF GateInv
<1>1. clock \in Nat /\ clock' \in Nat BY <1>0, GateAssumption DEF TypeOK
<1>2. \A t \in Nat : /\ Expire(t) = gate \/ Expire(t) = Hold
                     /\ Expire(t).released => Expire(t) = gate
                     /\ InForce(Expire(t), t)
  BY <1>0, ExpireFacts
<1>3. /\ gate' = gate => permit' = permit
      /\ gate' \in {Hold, Held} => permit' = 0
      /\ permit \in Nat
  BY <1>0, PermitFacts
<1>4. clock' >= clock
  <2>1. /\ \A t \in After(PollTime) : t >= clock
        /\ \A t \in After(RecordTime) : t >= clock
        /\ \A t \in After(InputTime) : t >= clock
        /\ \A t \in After(ProbeTime) : t >= clock
        /\ clock >= clock
    BY <1>0, <1>1, AfterType, GateAssumption
  <2>2. CASE Poll \/ RecordFails \/ ReadChunk \/ WriteChunk \/ Input \/ ProbeEnds \/ Connected
    BY <2>1, <2>2 DEF Poll, RecordFails, ReadChunk, WriteChunk, Input, ProbeEnds, Connected
  <2>3. CASE Interrupted \/ Accept \/ Echo \/ Generate \/ GeneratorThrows \/ SendSource \/ Renew
             \/ Release \/ Quiesce \/ Probe \/ StreamProbe \/ NoEffect \/ Reply \/ Stop
             \/ Drain \/ Arrive
    BY <2>1, <2>3 DEF Interrupted, Accept, Echo, Generate, GeneratorThrows, SendSource, Renew,
         Release, Quiesce, Probe, StreamProbe, NoEffect, Reply, Stop, Drain, Arrive
  <2> QED BY <2>2, <2>3 DEF Next, Node
<1>5. CASE tx' = tx /\ (gate' = gate \/ gate' \in {Hold, Held})
  BY <1>3, <1>4, <1>5 DEF Contract!Next, Contract!Other, Contract!Withdraw
<1>6. CASE gate' = gate /\ Transmit(clock') /\ clock' < permit
  BY <1>3, <1>4, <1>6 DEF Contract!Next, Contract!Send, Transmit
<1>7. CASE Renew
  <2>1. InForce(gate, clock) BY <1>0, <1>7 DEF Renew, Bounded
  <2>2. CASE gate.released /\ gate.leased
    <3>1. clock < permit BY <2>1, <2>2, <1>0, PermitFacts
    <3>2. gate' = [gate EXCEPT !.deadline = clock + Lease] BY <2>2, <1>7 DEF Renew
    <3>3. gate'.released /\ gate'.leased /\ gate'.deadline = clock + Lease
      BY <3>2, <2>2, <1>0 DEF TypeOK, Gates
    <3>4. permit' = clock + Lease BY <3>3 DEF permit, Limit
    <3> QED BY <3>1, <3>4, <1>4, <1>7 DEF Renew, Contract!Next, Contract!Extend
  <2>3. CASE ~(gate.released /\ gate.leased)
    BY <2>3, <1>5, <1>7 DEF Renew
  <2> QED BY <2>2, <2>3
<1>8. CASE Release
  <2>1. /\ gate'.released /\ gate'.deadline = clock + Lease
        /\ clock' = clock /\ tx' = tx /\ op \in {"release", "release-lease"}
    BY <1>0, <1>8 DEF Release, TypeOK, Gates
  <2>2. permit' \in {clock' + Lease, Forever} BY <2>1 DEF permit, Limit, Forever
  <2> QED BY <2>1, <2>2, <1>4 DEF Contract!Next, Contract!Grant
<1>9. CASE Echo \/ SendSource
  <2>1. /\ gate' = Expire(clock) /\ clock' = clock
        /\ tx' = tx \/ (gate'.released /\ Transmit(clock))
    BY <1>9 DEF Echo, SendSource
  <2>2. CASE gate'.released /\ Transmit(clock)
    <3>1. gate' = gate /\ gate.released /\ InForce(gate, clock) BY <2>1, <2>2, <1>1, <1>2
    <3> QED BY <3>1, <2>1, <2>2, <1>0, <1>6, PermitFacts
  <2> QED BY <2>1, <2>2, <1>1, <1>2, <1>5
<1>10. CASE WriteChunk
  <2>1. Transmit(clock') /\ clock' < io.end /\ gate' = gate BY <1>10 DEF WriteChunk
  <2>2. gate.released /\ io.end =< Limit BY <1>0, <1>10 DEF WriteChunk, Bounded
  <2>3. permit = Limit BY <2>2 DEF permit
  <2>4. io.end \in Nat BY <1>0 DEF TypeOK, Records
  <2>5. clock' < permit BY <2>1, <2>2, <2>3, <2>4, <1>1, <1>3
  <2> QED BY <2>1, <2>5, <1>6
<1>11. CASE Probe \/ StreamProbe
  <2>1. Transmit(clock') /\ clock' = clock /\ gate' = gate /\ gate.released /\ InForce(gate, clock)
    BY <1>0, <1>11 DEF Probe, StreamProbe, Bounded
  <2> QED BY <2>1, <1>0, <1>6, PermitFacts
<1>12. CASE Poll \/ Interrupted \/ Reply \/ Input
  <2>1. /\ \A t \in After(PollTime) : t \in Nat
        /\ \A t \in After(InputTime) : t \in Nat
    BY <1>0, AfterType, GateAssumption
  <2>2. tx' = tx /\ (gate' = gate \/ \E t \in Nat : gate' = Expire(t))
    BY <2>1, <1>1, <1>12 DEF Poll, Interrupted, Reply, Input
  <2> QED BY <2>2, <1>2, <1>5
<1>13. CASE Accept \/ RecordFails \/ ReadChunk \/ ProbeEnds \/ Connected \/ NoEffect
            \/ GeneratorThrows \/ Quiesce \/ Stop
  BY <1>5, <1>13 DEF Accept, RecordFails, ReadChunk, ProbeEnds, Connected, NoEffect,
       GeneratorThrows, Quiesce, Stop
<1>14. CASE Generate \/ Drain \/ Arrive
  <2>1. tx' = tx BY <1>14 DEF Generate, Drain, Arrive
  <2>2. \/ gate' = Expire(clock)
        \/ /\ gate'.released = gate.released /\ gate'.leased = gate.leased
           /\ gate'.deadline = gate.deadline
    BY <1>0, <1>14 DEF Generate, Drain, Arrive, TypeOK, Gates
  <2>3. CASE gate' = Expire(clock) BY <2>1, <2>3, <1>1, <1>2, <1>5
  <2>4. CASE permit' = permit
    BY <2>1, <2>4, <1>4 DEF Contract!Next, Contract!Other
  <2> QED BY <2>2, <2>3, <2>4, <1>0, PermitFacts
<1> QED
  BY <1>7, <1>8, <1>9, <1>10, <1>11, <1>12, <1>13, <1>14 DEF Next, Node

\* The node gate implements the contract: whatever the clock, peers and
\* clients do, traffic leaves the node only under a permit in force.
THEOREM GateRefines == Spec => GateImplements
<1>1. Init => Contract!Init
  BY DEF Init, Contract!Init, permit, Held
<1>2. GateInv /\ GateInv' /\ [Next]_vars => [Contract!Next]_<<op, clock, permit, tx>>
  BY ContractStep DEF vars, permit, Limit
<1> QED BY <1>1, <1>2, GateInvariant, PTL DEF Spec, GateImplements, Contract!Spec
=============================================================================
