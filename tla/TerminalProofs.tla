--------------------------- MODULE TerminalProofs ---------------------------
(***************************************************************************)
(* Terminals keep what they promise, for every value of the constants: the *)
(* recording worker of TerminalWorker, and a shell in a container as       *)
(* DockerSession describes it.  A machine runs under a lease, input is     *)
(* recorded before it is delivered and only for the newest writer, and a   *)
(* session that reads as closed is durable; a shell that runs is known to  *)
(* the journal and to exec.json.                                           *)
(***************************************************************************)
EXTENDS TerminalWorker, TLAPS

(***************************************************************************)
(* Types.  The calls of the protocol, the recording and what is on disk.   *)
(***************************************************************************)
Ops == {"adopt", "close", "release", "renew", "quiesce", "acquire", "renew-writer", "revoke",
        "release-writer", "input", "resize"}
Calls == [op : Ops, gen : Nat, owner : Owners \cup {"none"}, takeover : BOOLEAN, token : Nat]
Places == {"call", "loop"}
Records == [n : Nat, inputs : Nat, closed : BOOLEAN, torn : {"none"} \cup Places]
Disks == [rec : Records, names : SUBSET {"partial", "glterm"}, files : SUBSET {"partial", "glterm"}]
Timers == [lease : Nat, writer : Nat, beat : Nat]
Writers == [owner : Owners \cup {"none"}, token : Nat]
Agents == [gen : Nat, mode : {"held", "releasing", "ready"}]
Histories == [freed : Nat, adopted : Nat, fence : Nat, delivered : Nat]
Typed ==
  /\ gen \in Nat /\ issued \in Nat /\ cl \in [Owners -> Nat]
  /\ t \in Timers /\ writer \in Writers /\ rec \in Records /\ disk \in Disks
  /\ inbox \in Seq(Calls) /\ ag \in Agents /\ hist \in Histories

\* The lengths of the leases are numbers, and time left only shrinks.
LEMMA Numbers ==
  /\ LeaseTicks \in Nat /\ WriterTicks \in Nat /\ BeatLimit \in Nat /\ Budget \in Nat
  /\ \A n, d \in Nat : Less(n, d) \in Nat /\ (Less(n, d) > 0 => n > 0)
  /\ \A n, d \in Nat : Older(n, d) \in Nat
BY TerminalAssumption DEF Less, Older

LEMMA TypedInit == Init => Typed
BY DEF Init, Typed, Records, Places, Calls, Nobody, Disks, Timers, Writers, Agents, Histories

\* The call in hand is the head of the inbox.
LEMMA HeadCall ==
  ASSUME Typed, inbox # <<>>
  PROVE  r \in Calls /\ Tail(inbox) \in Seq(Calls)
BY DEF Typed, r

\* Time takes leases away and never gives one; it fences at most the writer.
LEMMA PassTyped ==
  ASSUME Typed, NEW b \in Timers, NEW d \in {0, 1}, Pass(b, d)
  PROVE  /\ t' \in Timers
         /\ hist' \in Histories
         /\ hist'.freed = hist.freed /\ hist'.adopted = hist.adopted
         /\ hist'.delivered = hist.delivered
         /\ hist' = hist \/ hist'.fence = issued
         /\ t'.writer > 0 => b.writer > 0 /\ hist' = hist
<1>1. d \in Nat
  OBVIOUS
<1>2. t' \in Timers /\ (t'.writer > 0 => b.writer > 0)
  <2>1. Less(b.lease, d) \in Nat /\ Less(b.writer, d) \in Nat /\ (Less(b.writer, d) > 0 => b.writer > 0)
    BY <1>1, Numbers DEF Timers
  <2>2. Older(b.beat, d) \in Nat
    BY <1>1, Numbers DEF Timers
  <2>3. t' = [lease |-> Less(b.lease, d), writer |-> Less(b.writer, d), beat |-> Older(b.beat, d)]
    BY DEF Pass
  <2> QED  BY <2>1, <2>2, <2>3 DEF Timers
<1>3. hist' \in {hist, [hist EXCEPT !.fence = issued]} /\ (t'.writer > 0 => hist' = hist)
  BY <1>2 DEF Pass, Revoked, Timers
<1> QED  BY <1>2, <1>3 DEF Typed, Histories

\* A record that is not written whole changes neither the counts of the
\* recording nor what was written before it.
LEMMA TornTyped ==
  ASSUME Typed, NEW w \in Places, NEW x \in Torn(w)
  PROVE  /\ x \in Records /\ x.inputs = rec.inputs /\ x.closed = rec.closed
         /\ x.torn \in {rec.torn, w}
<1>1. x = rec \/ x = [rec EXCEPT !.torn = w]
  BY DEF Torn
<1> QED  BY <1>1 DEF Typed, Records, Places

\* A pause that succeeds leaves a paused machine; one that does not leaves the
\* lease as it was if the machine may still run.
LEMMA PauseTyped ==
  ASSUME Typed, NEW w \in Places, NEW p \in Pauses(w)
  PROVE  /\ p.rec \in Records /\ p.rec.inputs = rec.inputs /\ p.rec.closed = rec.closed
         /\ p.rec.torn \in {rec.torn, w}
         /\ p.ok => p.guest = "paused" /\ ~p.late /\ p.rec.torn = rec.torn
         /\ p.guest = "running" \/ p.late => (guest = "running" \/ late) /\ p.leased = leased
<1>1. rec \in Records
  BY DEF Typed
<1>2. \/ p = [guest |-> guest, late |-> late, leased |-> leased, rec |-> rec, ok |-> FALSE]
      \/ p = [guest |-> "paused", late |-> FALSE, leased |-> leased, rec |-> rec, ok |-> FALSE]
      \/ \E x \in Torn(w) :
           p = [guest |-> "paused", late |-> FALSE, leased |-> FALSE, rec |-> x, ok |-> FALSE]
      \/ p = [guest |-> "paused", late |-> FALSE, leased |-> FALSE,
              rec |-> [rec EXCEPT !.n = @ + 1], ok |-> TRUE]
  BY Zenon DEF Pauses
<1>3. CASE p = [guest |-> guest, late |-> late, leased |-> leased, rec |-> rec, ok |-> FALSE]
  BY <1>1, <1>3
<1>4. CASE p = [guest |-> "paused", late |-> FALSE, leased |-> leased, rec |-> rec, ok |-> FALSE]
  BY <1>1, <1>4
<1>5. CASE \E x \in Torn(w) :
             p = [guest |-> "paused", late |-> FALSE, leased |-> FALSE, rec |-> x, ok |-> FALSE]
  <2>1. PICK x \in Torn(w) :
           p = [guest |-> "paused", late |-> FALSE, leased |-> FALSE, rec |-> x, ok |-> FALSE]
    BY <1>5, Zenon
  <2>2. p.rec = x /\ p.guest = "paused" /\ ~p.late /\ ~p.ok
    BY <2>1
  <2> QED  BY <2>2, TornTyped
<1>6. CASE p = [guest |-> "paused", late |-> FALSE, leased |-> FALSE,
                rec |-> [rec EXCEPT !.n = @ + 1], ok |-> TRUE]
  <2>1. p.rec = [rec EXCEPT !.n = @ + 1] /\ p.guest = "paused" /\ ~p.late
    BY <1>6
  <2>2. /\ p.rec \in Records /\ p.rec.inputs = rec.inputs /\ p.rec.closed = rec.closed
        /\ p.rec.torn = rec.torn
    BY <1>1, <2>1 DEF Records
  <2> QED  BY <2>1, <2>2
<1> QED  BY <1>2, <1>3, <1>4, <1>5, <1>6

\* What the pieces of a step give.
LEMMA PauseStep ==
  ASSUME Typed, NEW w \in Places, NEW p \in Pauses(w), NEW b \in Timers, pause(p, b)
  PROVE  /\ t' \in Timers /\ rec' \in Records /\ hist' \in Histories
         /\ rec'.inputs = rec.inputs /\ rec'.closed = rec.closed
         /\ hist'.freed = hist.freed /\ hist'.adopted = hist.adopted
         /\ hist'.delivered = hist.delivered
         /\ t'.writer > 0 => b.writer > 0 /\ hist' = hist
<1>1. rec' = p.rec
  BY DEF pause
<1>2. PICK d \in {0, 1} : Pass(b, d)
  BY DEF pause
<1> QED  BY <1>1, <1>2, PauseTyped, PassTyped

LEMMA TakeStep ==
  ASSUME Typed, NEW op, Take(op)
  PROVE  /\ inbox # <<>> /\ r \in Calls /\ inbox' \in Seq(Calls)
         /\ pc = "serve" /\ pc' = "sync" /\ r.op = op
BY HeadCall DEF Take

LEMMA ExitStep ==
  ASSUME Exit
  PROVE  /\ writer' \in Writers /\ inbox' \in Seq(Calls) /\ UNCHANGED <<gen, issued, cl, ag>>
BY DEF Exit, Nobody, Writers

LEMMA CallStep ==
  ASSUME Typed, NEW op \in Ops, NEW o \in Owners \cup {"none"}, NEW b \in BOOLEAN, Call(op, o, b)
  PROVE  /\ inbox' \in Seq(Calls)
         /\ UNCHANGED <<wvars, evars, att, issued, cl, hist>>
<1>1. [op |-> op, gen |-> ag.gen, owner |-> o, takeover |-> b,
       token |-> IF o \in Owners THEN cl[o] ELSE 0] \in Calls
  BY DEF Calls, Typed, Agents
<1> QED  BY <1>1 DEF Call, Typed

\* What the steps write into the recording, the timers and the history.
LEMMA RecordParts ==
  ASSUME NEW a \in Records, NEW x \in Nat
  PROVE  /\ \A y \in Nat : [a EXCEPT !.n = x, !.inputs = y] \in Records
         /\ \A y \in BOOLEAN : [a EXCEPT !.n = x, !.closed = y] \in Records
BY Zenon DEF Records

LEMMA Variants ==
  ASSUME Typed
  PROVE  /\ Beat \in Timers /\ Beat.writer = t.writer /\ Beat.lease = t.lease
         /\ \A n \in Nat : /\ [t EXCEPT !.lease = n] \in Timers /\ [t EXCEPT !.writer = n] \in Timers
                           /\ [rec EXCEPT !.n = n] \in Records
         /\ [rec EXCEPT !.n = @ + 1] \in Records
         /\ [rec EXCEPT !.n = @ + 1, !.inputs = @ + 1] \in Records
         /\ [rec EXCEPT !.n = @ + 1, !.closed = TRUE] \in Records
         /\ Revoked(hist) \in Histories /\ Nobody \in Writers
         /\ [disk EXCEPT !.rec = rec] \in Disks
<1>1. /\ Beat \in Timers /\ Beat.writer = t.writer /\ Beat.lease = t.lease
      /\ \A n \in Nat : [t EXCEPT !.lease = n] \in Timers /\ [t EXCEPT !.writer = n] \in Timers
  BY DEF Typed, Beat, Timers
<1>2. /\ \A n \in Nat : [rec EXCEPT !.n = n] \in Records
      /\ [rec EXCEPT !.n = @ + 1] \in Records
      /\ [rec EXCEPT !.n = @ + 1, !.inputs = @ + 1] \in Records
      /\ [rec EXCEPT !.n = @ + 1, !.closed = TRUE] \in Records
  <2>1. rec \in Records
    BY DEF Typed
  <2>2. \A n \in Nat : [rec EXCEPT !.n = n] \in Records
    BY <2>1 DEF Records
  <2>3. [rec EXCEPT !.n = @ + 1] \in Records
    BY <2>1 DEF Records
  <2>4. rec.n + 1 \in Nat /\ rec.inputs + 1 \in Nat
    BY <2>1 DEF Records
  <2>5. [rec EXCEPT !.n = @ + 1, !.inputs = @ + 1] \in Records
    BY <2>1, <2>4, RecordParts, Zenon
  <2>6. [rec EXCEPT !.n = @ + 1, !.closed = TRUE] \in Records
    BY <2>1, <2>4, RecordParts, Zenon
  <2> QED  BY <2>2, <2>3, <2>5, <2>6
<1>3. Revoked(hist) \in Histories /\ Nobody \in Writers
  BY DEF Typed, Revoked, Histories, Nobody, Writers
<1>4. [disk EXCEPT !.rec = rec] \in Disks
  BY DEF Typed, Disks
<1> QED  BY <1>1, <1>2, <1>3, <1>4

\* Every step keeps the types.
LEMMA TypedNext == Typed /\ [Next]_vars => Typed'
<1> SUFFICES ASSUME Typed, [Next]_vars PROVE Typed'
  OBVIOUS
<1>1. CASE Start
  <2>1. rec' \in Records /\ disk' \in Disks
    BY <1>1, Variants, Zenon DEF Start, Typed, Disks
  <2> QED  BY <1>1, <2>1 DEF Start, Typed, avars
<1>2. CASE Loop
  <2>1. ASSUME NEW p \in Pauses("loop"), pause(p, Beat) PROVE t' \in Timers /\ rec' \in Records /\ hist' \in Histories
    BY <2>1, PauseStep, Variants DEF Places
  <2>2. t' \in Timers /\ rec' \in Records /\ hist' \in Histories
    BY <1>2, <2>1, Variants DEF Loop, Typed
  <2> QED  BY <1>2, <2>2 DEF Loop, Typed
<1>3. CASE Poll
  <2>1. PICK d \in {0, 1} : Pass(t, d)
    BY <1>3 DEF Poll
  <2>2. rec' \in Records
    BY <1>3, Variants, TornTyped DEF Poll, Typed, Places
  <2>3. t' \in Timers /\ hist' \in Histories
    BY <2>1, PassTyped DEF Typed
  <2> QED  BY <1>3, <2>2, <2>3 DEF Poll, Typed
<1>4. CASE Attach \/ Sigterm \/ LateCont \/ GuestExits \/ Watch \/ ShellExits \/ HandOver
           \/ UNCHANGED vars \/ NoCall
  <2>1. UNCHANGED <<gen, issued, cl, t, writer, rec, disk, inbox, ag, hist>>
    BY <1>4, Zenon DEF Attach, Sigterm, LateCont, GuestExits, Watch, ShellExits,
        HandOver, NoCall,
       vars, wvars, evars, avars
  <2> QED  BY <2>1 DEF Typed
<1>5. CASE Stale
  <2>1. ag' \in Agents
    BY <1>5 DEF Stale, Typed, Agents
  <2> QED  BY <1>5, <2>1, TakeStep DEF Stale, Typed, evars
<1>6. CASE Adopt
  <2>1. r \in Calls /\ inbox' \in Seq(Calls)
    BY <1>6, TakeStep DEF Adopt
  <2>2. r.gen \in Nat
    BY <2>1 DEF Calls
  <2>3. t' \in Timers /\ rec' \in Records /\ hist' \in Histories
    <3>1. CASE vm
      <4>1. PICK p \in Pauses("call"), d \in {0, 1} :
              /\ rec' = p.rec
              /\ t' = [lease |-> Less(t.lease, d), writer |-> 0, beat |-> Older(t.beat, d)]
              /\ hist' = [Revoked(hist) EXCEPT !.adopted = IF p.ok THEN r.gen ELSE @]
        BY <1>6, <3>1 DEF Adopt
      <4>2. rec' \in Records
        BY <4>1, PauseTyped DEF Places
      <4>3. t' \in Timers
        BY <4>1, Numbers DEF Typed, Timers
      <4>4. Revoked(hist) \in Histories
        BY Variants
      <4>5. hist' \in Histories
        BY <2>2, <4>1, <4>4 DEF Histories
      <4> QED  BY <4>2, <4>3, <4>5
    <3>2. CASE ~vm
      <4>1. UNCHANGED rec /\ hist' = Revoked(hist) /\ t' = [t EXCEPT !.writer = 0]
        BY <1>6, <3>2 DEF Adopt
      <4> QED  BY <4>1, Variants, Zenon DEF Typed
    <3> QED  BY <3>1, <3>2
  <2> QED  BY <1>6, <2>1, <2>2, <2>3, Variants DEF Adopt, Typed
<1>7. CASE Release
  <2>1. inbox' \in Seq(Calls)
    BY <1>7, TakeStep DEF Release
  <2>2. PICK d \in {0, 1} : t' = [lease |-> Less(LeaseTicks, d), writer |-> Less(t.writer, d),
                                  beat |-> Older(t.beat, d)]
    BY <1>7, Zenon DEF Release
  <2>3. t' \in Timers
    BY <2>2, Numbers, Zenon DEF Typed, Timers
  <2>4. rec' \in Records
    BY <1>7, Variants, TornTyped, Zenon DEF Release, Typed, Places
  <2>5. ag' \in Agents
    BY <1>7 DEF Release, Answered, Typed, Agents
  <2>6. hist' \in Histories
    BY <1>7, Zenon DEF Release, Typed, Histories
  <2> QED  BY <1>7, <2>1, <2>3, <2>4, <2>5, <2>6 DEF Release, Typed
<1>8. CASE Renew
  <2>1. t' \in Timers
    BY <1>8, Variants, Numbers, Zenon DEF Renew, Typed
  <2>2. ag' \in Agents
    BY <1>8 DEF Renew, Typed, Agents
  <2> QED  BY <1>8, <2>1, <2>2, TakeStep DEF Renew, Typed, evars
<1>9. CASE Quiesce
  <2>1. PICK p \in Pauses("call") : pause(p, t)
    BY <1>9 DEF Quiesce
  <2>2. t' \in Timers /\ rec' \in Records /\ hist' \in Histories
    BY <2>1, PauseStep DEF Typed, Places
  <2> QED  BY <1>9, <2>2, TakeStep DEF Quiesce, Typed
<1>10. CASE CloseCall \/ Denied
  BY <1>10, TakeStep DEF CloseCall, Denied, Typed, evars
<1>11. CASE Acquire
  <2>1. r \in Calls /\ inbox' \in Seq(Calls) /\ UNCHANGED <<gen, rec, disk, ag>>
    BY <1>11, TakeStep DEF Acquire, evars
  <2>2. CASE UNCHANGED <<issued, writer, t, cl, hist>>
    BY <2>1, <2>2 DEF Typed
  <2>3. CASE /\ issued' = issued + 1 /\ writer' = [owner |-> r.owner, token |-> issued']
             /\ t' = [t EXCEPT !.writer = WriterTicks]
             /\ cl' \in {cl, [cl EXCEPT ![r.owner] = issued']}
             /\ hist' = Revoked(hist)
    <3>1. issued' \in Nat /\ cl' \in [Owners -> Nat]
      BY <2>3 DEF Typed
    <3>2. writer' \in Writers
      BY <2>1, <2>3, <3>1 DEF Calls, Writers
    <3>3. t' \in Timers /\ hist' \in Histories
      BY <2>3, Variants, Numbers, Zenon
    <3> QED  BY <2>1, <3>1, <3>2, <3>3 DEF Typed
  <2> QED  BY <1>11, <2>2, <2>3 DEF Acquire
<1>12. CASE RenewWriter
  <2>1. t' \in Timers
    BY <1>12, Variants, Numbers, Zenon DEF RenewWriter, Typed
  <2> QED  BY <1>12, <2>1, TakeStep DEF RenewWriter, Typed, evars
<1>13. CASE Revoke
  <2>1. inbox' \in Seq(Calls)
    BY <1>13, TakeStep DEF Revoke
  <2>2. writer' \in Writers /\ t' \in Timers /\ hist' \in Histories
    BY <1>13, Variants, Zenon DEF Revoke
  <2> QED  BY <1>13, <2>1, <2>2 DEF Revoke, Typed, evars
<1>14. CASE Input
  <2>1. rec' \in Records
    BY <1>14, Variants, TornTyped DEF Input, Typed, Places
  <2>2. hist' \in Histories
    <3>1. hist' = hist \/ hist' = [hist EXCEPT !.delivered = @ + 1]
      BY <1>14, Zenon DEF Input
    <3> QED  BY <3>1 DEF Typed, Histories
  <2> QED  BY <1>14, <2>1, <2>2, TakeStep DEF Input, Typed
<1>15. CASE Resize
  <2>1. rec' \in Records
    BY <1>15, Variants, TornTyped DEF Resize, Typed, Places
  <2> QED  BY <1>15, <2>1, TakeStep DEF Resize, Typed
<1>16. CASE Sync
  <2>1. disk' \in Disks
    BY <1>16, Variants DEF Sync, Typed
  <2> QED  BY <1>16, <2>1 DEF Sync, Typed, avars
<1>17. CASE Finish
  <2>1. ASSUME NEW p \in Pauses("loop"), pause(p, t)
        PROVE  t' \in Timers /\ rec' \in Records /\ hist' \in Histories
    BY <2>1, PauseStep DEF Typed, Places
  <2>2. t' \in Timers /\ rec' \in Records /\ hist' \in Histories
    BY <1>17, <2>1 DEF Finish, Typed
  <2> QED  BY <1>17, <2>2 DEF Finish, Typed
<1>18. CASE Last
  <2>1. rec' \in Records
    BY <1>18, Variants, TornTyped DEF Last, Typed, Places
  <2> QED  BY <1>18, <2>1 DEF Last, Typed, avars
<1>19. CASE close
  <2>1. disk' \in Disks
    BY <1>19, Variants, Zenon DEF close, Typed, Disks
  <2> QED  BY <1>19, <2>1 DEF close, Typed, avars
<1>20. CASE Persist \/ Fail \/ Kill
  <2>1. /\ writer' \in Writers /\ inbox' \in Seq(Calls)
        /\ UNCHANGED <<gen, issued, cl, ag, t, rec, disk, hist>>
    BY <1>20, ExitStep DEF Persist, Fail, Kill, Typed
  <2> QED  BY <2>1 DEF Typed
<1>21. CASE Reboot
  <2>1. rec' \in Records
    BY <1>21 DEF Reboot, Typed, Disks
  <2>2. disk' \in Disks
    BY <1>21, <2>1, Zenon DEF Reboot, Typed, Disks
  <2> QED  BY <1>21, <2>1, <2>2, ExitStep DEF Reboot, Typed
<1>22. CASE Tick
  <2>1. t' \in Timers /\ hist' \in Histories
    BY <1>22, PassTyped DEF Tick, Typed
  <2> QED  BY <1>22, <2>1 DEF Tick, Typed, evars
<1>23. CASE AgentCalls
  <2>1. PICK op \in Ops : Call(op, "none", FALSE)
    BY <1>23, Zenon DEF AgentCalls, Ops
  <2>2. ag' \in Agents
    BY <1>23, Zenon DEF AgentCalls, Typed, Agents
  <2> QED  BY <2>1, <2>2, CallStep, Zenon DEF Typed, wvars, evars
<1>24. CASE BrowserCalls
  <2>1. PICK op \in Ops, o \in Owners, b \in BOOLEAN : Call(op, o, b)
    BY <1>24, Zenon DEF BrowserCalls, Ops
  <2> QED  BY <1>24, <2>1, CallStep DEF BrowserCalls, Typed, wvars, evars
<1>25. CASE AgentRestart
  <2>1. ag' \in Agents
    BY <1>25 DEF AgentRestart, Typed, Agents
  <2> QED  BY <1>25, <2>1 DEF AgentRestart, Typed, wvars, evars
<1> QED  BY <1>1, <1>2, <1>3, <1>4, <1>5, <1>6, <1>7, <1>8, <1>9, <1>10, <1>11,
    <1>12, <1>13,
           <1>14, <1>15, <1>16, <1>17, <1>18, <1>19, <1>20, <1>21, <1>22, <1>23, <1>24, <1>25
         DEF Next, Worker

(***************************************************************************)
(* The machine.  While the worker is in its loop a machine that runs, or   *)
(* that a pending cont may yet start, is one whose lease is held.          *)
(***************************************************************************)
Alive == guest = "running" \/ late
Rounds == {"loop", "poll", "serve", "sync"}
LeaseInv ==
  /\ pc = "start" => ~Alive
  /\ pc \in Rounds /\ Alive => leased
  /\ GuestIsLeased

\* Time, the wire and the sources start no machine.
Outside ==
  Attach \/ NoCall \/ Stale \/ CloseCall \/ Acquire \/ RenewWriter \/ Revoke \/ Denied
  \/ Input \/ Resize \/ Sync

LEMMA OutsideStep ==
  ASSUME Typed, Outside
  PROVE  /\ UNCHANGED <<kind, gen, leased, guest, late, man>> /\ pc \in {"serve", "sync"}
         /\ pc' \in {"serve", "sync", "loop", "failing"} /\ t'.lease = t.lease
<1>1. UNCHANGED <<kind, gen, leased, guest, late, man>>
  BY Zenon DEF Outside, Attach, NoCall, Stale, CloseCall, Acquire, RenewWriter,
      Revoke, Denied,
     Input, Resize, Sync, evars, wvars
<1>2. pc \in {"serve", "sync"} /\ pc' \in {"serve", "sync", "loop", "failing"}
  BY DEF Outside, Attach, NoCall, Stale, CloseCall, Acquire, RenewWriter, Revoke,
      Denied,
     Input, Resize, Sync, Take, wvars
<1>3. t'.lease = t.lease
  <2>1. t' = t \/ t' = [t EXCEPT !.writer = WriterTicks] \/ t' = [t EXCEPT !.writer = 0]
    BY Zenon DEF Outside, Attach, NoCall, Stale, CloseCall, Acquire, RenewWriter,
        Revoke, Denied,
       Input, Resize, Sync, wvars
  <2> QED  BY <2>1 DEF Typed, Timers
<1> QED  BY <1>1, <1>2, <1>3

LEMMA LeaseNext ==
  ASSUME Typed, LeaseInv, [Next]_vars
  PROVE  LeaseInv'
<1> USE DEF LeaseInv, Alive, Rounds, GuestIsLeased
<1>1. CASE Start
  BY <1>1 DEF Start, avars
<1>2. CASE Loop
  <2>1. CASE finishing
    BY <1>2, <2>1 DEF Loop
  <2>2. CASE /\ leased /\ t.lease = 0
             /\ \E p \in Pauses("loop") : pause(p, Beat) /\ pc' = IF p.ok THEN "poll" ELSE "failing"
    BY <2>2, PauseTyped, Zenon DEF pause, Places
  <2>3. CASE /\ ~(leased /\ t.lease = 0) /\ t' = Beat /\ pc' \in {"poll", "closing", "failing"}
             /\ UNCHANGED <<leased, guest, late>>
    <3>1. Beat.lease = t.lease /\ t.lease \in Nat
      BY Variants DEF Typed, Timers
    <3> QED  BY <1>2, <2>3, <3>1 DEF Loop
  <2> QED  BY <1>2, <2>1, <2>2, <2>3 DEF Loop
<1>3. CASE Poll
  BY <1>3 DEF Poll
<1>4. CASE Outside
  BY <1>4, OutsideStep
<1>5. CASE Adopt
  <2>1. CASE vm
    BY <1>5, <2>1, PauseTyped DEF Adopt, Take, Places
  <2>2. CASE ~vm
    BY <1>5, <2>2 DEF Adopt, Take
  <2> QED  BY <2>1, <2>2
<1>6. CASE Release
  BY <1>6 DEF Release, Take
<1>7. CASE Renew
  BY <1>7 DEF Renew, Take, evars
<1>8. CASE Quiesce
  BY <1>8, PauseTyped DEF Quiesce, Take, pause, Places
<1>9. CASE Finish \/ Last \/ close \/ Persist \/ Fail \/ Kill \/ Reboot
  <2>1. pc' \notin Rounds \cup {"start"}
    BY <1>9 DEF Finish, Last, close, Persist, Fail, Kill, Reboot
  <2> QED  BY <2>1
<1>10. CASE Sigterm \/ HandOver \/ AgentCalls \/ BrowserCalls \/ AgentRestart \/ ShellExits
            \/ UNCHANGED vars
  <2>1. UNCHANGED <<pc, guest, late, leased, t>>
    BY <1>10, Zenon DEF Sigterm, HandOver, AgentCalls, BrowserCalls, AgentRestart,
        ShellExits, Call,
       vars, wvars, evars
  <2> QED  BY <2>1
<1>11. CASE Tick
  BY <1>11 DEF Tick, evars
<1>12. CASE LateCont \/ GuestExits \/ Watch
  BY <1>12 DEF LateCont, GuestExits, Watch, wvars
<1> QED  BY <1>1, <1>2, <1>3, <1>4, <1>5, <1>6, <1>7, <1>8, <1>9, <1>10, <1>11, <1>12
         DEF Next, Worker, Outside

(***************************************************************************)
(* Adoption.  No adoption is of a generation newer than the one in force,  *)
(* so a machine freed for an older one cannot outlive it.                  *)
(***************************************************************************)
AdoptInv == hist.adopted <= gen /\ AdoptionFences

\* Revoking a writer and the passing of time leave the other history alone.
LEMMA HistStep ==
  ASSUME Typed, hist' = hist \/ hist' = Revoked(hist)
  PROVE  hist'.adopted = hist.adopted /\ hist'.freed = hist.freed /\ hist'.delivered = hist.delivered
BY DEF Typed, Revoked, Histories

LEMMA AdoptNext ==
  ASSUME Typed, AdoptInv, [Next]_vars
  PROVE  AdoptInv'
<1> DEFINE Same == gen' = gen /\ hist'.adopted = hist.adopted /\ hist'.freed = hist.freed
<1>a. ASSUME Same, Alive' => Alive PROVE AdoptInv'
  BY <1>a DEF AdoptInv, AdoptionFences, Alive
<1>b. ASSUME NEW w \in Places, NEW p \in Pauses(w), NEW b \in Timers, pause(p, b)
      PROVE  hist'.adopted = hist.adopted /\ hist'.freed = hist.freed /\ (Alive' => Alive)
  <2>1. hist'.adopted = hist.adopted /\ hist'.freed = hist.freed
    BY <1>b, PauseStep
  <2>2. Alive' => Alive
    BY <1>b, PauseTyped DEF pause, Alive
  <2> QED  BY <2>1, <2>2
<1>1. CASE Start \/ Sync \/ Sigterm \/ LateCont \/ GuestExits \/ Watch \/ ShellExits \/ HandOver
           \/ AgentCalls \/ BrowserCalls \/ AgentRestart \/ Attach \/ NoCall \/ Stale \/ CloseCall
           \/ Denied \/ RenewWriter \/ Renew \/ Resize \/ Last \/ close \/ Persist \/ Fail \/ Kill
           \/ Reboot \/ UNCHANGED vars
  <2>1. hist' = hist /\ gen' = gen
    BY <1>1, Zenon DEF Start, Sync, Sigterm, LateCont, GuestExits, Watch, ShellExits,
        HandOver,
       AgentCalls, BrowserCalls, AgentRestart, Call, Attach, NoCall, Stale, CloseCall, Denied,
       RenewWriter, Renew, Resize, Last, close, Persist, Fail, Kill, Reboot, Exit, vars, wvars, avars
  <2>2. Alive' => Alive
    <3>1. CASE LateCont \/ GuestExits \/ Watch \/ Last \/ Fail \/ Kill \/ Reboot
      BY <3>1 DEF LateCont, GuestExits, Watch, Last, Fail, Kill, Reboot, Alive
    <3>2. CASE UNCHANGED <<guest, late>>
      BY <3>2 DEF Alive
    <3>3. CASE Start \/ Sync \/ Sigterm \/ ShellExits \/ HandOver
           \/ AgentCalls \/ BrowserCalls \/ AgentRestart \/ Attach \/ NoCall \/ Stale \/ CloseCall
           \/ Denied \/ RenewWriter \/ Renew \/ Resize \/ close \/ Persist \/ UNCHANGED vars
      <4>1. UNCHANGED <<guest, late>>
        BY <3>3, Zenon DEF Start, Sync, Sigterm, ShellExits, HandOver,
           AgentCalls, BrowserCalls, AgentRestart, Call, Attach, NoCall, Stale, CloseCall, Denied,
           RenewWriter, Renew, Resize, close, Persist, vars, evars
      <4> QED  BY <3>2, <4>1
    <3> QED  BY <1>1, <3>1, <3>3, Zenon
  <2> QED  BY <1>a, <2>1, <2>2
<1>2. CASE Acquire \/ Revoke
  <2>1. UNCHANGED <<gen, guest, late>> /\ (hist' = hist \/ hist' = Revoked(hist))
    BY <1>2, Zenon DEF Acquire, Revoke, evars
  <2> QED  BY <1>a, <2>1, HistStep DEF Alive
<1>3. CASE Poll \/ Tick
  <2>1. \E d \in {0, 1} : Pass(t, d)
    BY <1>3 DEF Poll, Tick
  <2>2. UNCHANGED <<gen, guest, late>>
    BY <1>3 DEF Poll, Tick, evars
  <2> QED  BY <1>a, <2>1, <2>2, PassTyped DEF Typed, Alive
<1>4. CASE Loop
  <2>1. CASE \E p \in Pauses("loop") : pause(p, Beat)
    BY <1>4, <1>a, <1>b, <2>1, Variants DEF Loop, Places
  <2>2. CASE UNCHANGED <<guest, late, hist>>
    BY <1>4, <1>a, <2>2 DEF Loop, Alive
  <2> QED  BY <1>4, <2>1, <2>2 DEF Loop
<1>5. CASE Quiesce
  BY <1>5, <1>a, <1>b DEF Quiesce, Typed, Places
<1>6. CASE Finish
  <2>1. CASE kind = "child"
    BY <1>6, <1>a, <1>b, <2>1 DEF Finish, Typed, Places
  <2>2. CASE kind # "child"
    BY <1>6, <1>a, <2>2 DEF Finish, Alive
  <2> QED  BY <2>1, <2>2
<1>7. CASE Input
  <2>1. UNCHANGED <<gen, guest, late>> /\ hist' \in {hist, [hist EXCEPT !.delivered = @ + 1]}
    BY <1>7 DEF Input
  <2>2. hist'.adopted = hist.adopted /\ hist'.freed = hist.freed
    BY <2>1 DEF Typed, Histories
  <2> QED  BY <1>a, <2>1, <2>2 DEF Alive
<1>8. CASE Release
  <2>1. gen' = gen
    BY <1>8 DEF Release
  <2>2. hist'.adopted = hist.adopted /\ hist'.freed = gen
    BY <1>8 DEF Release, Typed, Histories
  <2> QED  BY <2>1, <2>2 DEF AdoptInv, AdoptionFences
<1>9. CASE Adopt
  <2>1. r \in Calls /\ r.gen > gen /\ gen' = r.gen
    BY <1>9, TakeStep DEF Adopt
  <2>2. gen \in Nat /\ gen' \in Nat /\ hist.adopted \in Nat
    BY <2>1 DEF Calls, Typed, Histories
  <2>3. CASE vm
    <3>1. PICK p \in Pauses("call") :
            /\ guest' = p.guest /\ late' = p.late
            /\ hist' = [Revoked(hist) EXCEPT !.adopted = IF p.ok THEN r.gen ELSE @]
      BY <1>9, <2>3 DEF Adopt
    <3>2. hist'.adopted = IF p.ok THEN r.gen ELSE hist.adopted
      BY <3>1 DEF Typed, Revoked, Histories
    <3>3. p.ok => ~Alive'
      BY <3>1, PauseTyped DEF Alive, Places
    <3> QED  BY <2>1, <2>2, <3>2, <3>3 DEF AdoptInv, AdoptionFences, Alive
  <2>4. CASE ~vm
    <3>1. hist' = Revoked(hist)
      BY <1>9, <2>4 DEF Adopt
    <3> QED  BY <2>1, <2>2, <3>1, HistStep DEF AdoptInv, AdoptionFences
  <2> QED  BY <2>3, <2>4
<1> QED  BY <1>1, <1>2, <1>3, <1>4, <1>5, <1>6, <1>7, <1>8, <1>9 DEF Next, Worker

(***************************************************************************)
(* Input.  A token in force is newer than whatever was revoked, so what is *)
(* delivered belongs to the newest writer; it is in the recording first.   *)
(***************************************************************************)
InputInv ==
  /\ RecordedFirst
  /\ pc \notin {"dead", "gone"} /\ t.writer > 0 => writer.token > hist.fence

LEMMA InputNext ==
  ASSUME Typed, InputInv, [Next]_vars
  PROVE  InputInv' /\ (hist'.delivered > hist.delivered => r.token > hist.fence)
<1> DEFINE Goal == InputInv' /\ (hist'.delivered > hist.delivered => r.token > hist.fence)
<1>n. hist.delivered \in Nat /\ hist.fence \in Nat /\ rec.inputs \in Nat /\ t.writer \in Nat
      /\ issued \in Nat
  BY DEF Typed, Histories, Records, Timers
<1>a. ASSUME pc = "gone" => pc' = "gone", pc = "dead" => pc' \in {"dead", "gone"},
             pc' # "gone" => rec'.inputs = rec.inputs, hist'.delivered = hist.delivered,
             pc' \in {"dead", "gone"} \/ (t'.writer > 0 => t.writer > 0 /\ writer' = writer
                                            /\ hist'.fence = hist.fence)
      PROVE  Goal
  BY <1>a, <1>n DEF InputInv, RecordedFirst
<1>b. ASSUME NEW w \in Places, NEW p \in Pauses(w), NEW b \in {t, Beat}, pause(p, b)
      PROVE  /\ rec'.inputs = rec.inputs /\ hist'.delivered = hist.delivered
             /\ t'.writer > 0 => t.writer > 0 /\ hist'.fence = hist.fence
  <2>1. b \in Timers /\ b.writer = t.writer
    BY Variants DEF Typed
  <2> QED  BY <1>b, <2>1, PauseStep
<1>c. ASSUME NEW S \in {rec, [rec EXCEPT !.n = @ + 1], [rec EXCEPT !.n = 1],
                        [rec EXCEPT !.n = @ + 1, !.closed = TRUE]} \cup Torn("call") \cup Torn("loop")
      PROVE  S.inputs = rec.inputs
  <2>1. CASE S \in Torn("call") \cup Torn("loop")
    BY <2>1, TornTyped DEF Places
  <2>2. CASE S \notin Torn("call") \cup Torn("loop")
    BY <2>2, Zenon DEF Typed, Records
  <2> QED  BY <2>1, <2>2
<1>1. CASE Sync \/ Sigterm \/ LateCont \/ GuestExits \/ Watch \/ ShellExits \/ HandOver
           \/ AgentCalls \/ BrowserCalls \/ AgentRestart \/ Attach \/ NoCall \/ Stale \/ CloseCall
           \/ Denied \/ close \/ UNCHANGED vars
  <2>1. UNCHANGED <<t, rec, hist, writer>>
    BY <1>1, Zenon DEF Sync, Sigterm, LateCont, GuestExits, Watch, ShellExits, HandOver,
       AgentCalls, BrowserCalls, AgentRestart, Call, Attach, NoCall, Stale, CloseCall, Denied,
       close, vars, wvars, avars, evars
  <2>2. (pc = "gone" => pc' = "gone") /\ (pc = "dead" => pc' \in {"dead", "gone"})
    BY <1>1, Zenon DEF Sync, Sigterm, LateCont, GuestExits, Watch, ShellExits, HandOver,
       AgentCalls, BrowserCalls, AgentRestart, Call, Attach, NoCall, Stale, Take, CloseCall, Denied,
       close, vars, wvars
  <2> QED  BY <1>a, <2>1, <2>2
<1>2. CASE Start \/ Last \/ Resize
  <2>1. /\ UNCHANGED <<t, hist, writer>> /\ pc \notin {"dead", "gone"}
        /\ rec' \in {rec, [rec EXCEPT !.n = @ + 1], [rec EXCEPT !.n = 1],
                     [rec EXCEPT !.n = @ + 1, !.closed = TRUE]} \cup Torn("call") \cup Torn("loop")
    BY <1>2 DEF Start, Last, Resize, Take, avars
  <2> QED  BY <1>a, <1>c, <2>1, Zenon
<1>3. CASE Poll
  <2>1. PICK d \in {0, 1} : Pass(t, d)
    BY <1>3 DEF Poll
  <2>2. /\ rec' \in {rec, [rec EXCEPT !.n = @ + 1]} \cup Torn("loop")
        /\ pc = "poll" /\ writer' = writer
    BY <1>3 DEF Poll
  <2>3. hist'.delivered = hist.delivered /\ (t'.writer > 0 => t.writer > 0 /\ hist'.fence = hist.fence)
    BY <2>1, PassTyped DEF Typed
  <2> QED  BY <1>a, <1>c, <2>2, <2>3, Zenon
<1>4. CASE Tick \/ Persist \/ Fail \/ Kill \/ Reboot
  <2>1. pc \in {"dead", "gone"} => pc' \in {"dead", "gone"}
    BY <1>4 DEF Tick, Persist, Fail, Kill, Reboot
  <2>2. CASE Tick
    BY <1>a, <2>1, <2>2, PassTyped DEF Tick, Typed, evars
  <2>3. CASE ~Tick
    BY <1>4, <1>a, <2>1, <2>3 DEF Persist, Fail, Kill, Reboot
  <2> QED  BY <2>2, <2>3
<1>5. CASE Loop
  <2>1. CASE \E p \in Pauses("loop") : pause(p, Beat)
    BY <1>5, <1>a, <1>b, <2>1 DEF Loop, Places
  <2>2. CASE (t' = t \/ t' = Beat) /\ UNCHANGED <<rec, hist>>
    BY <1>5, <1>a, <2>2, Variants DEF Loop
  <2> QED  BY <1>5, <2>1, <2>2 DEF Loop
<1>6. CASE Quiesce
  BY <1>6, <1>a, <1>b DEF Quiesce, Take, Places
<1>7. CASE Finish
  <2>1. CASE kind = "child"
    BY <1>7, <1>a, <1>b, <2>1 DEF Finish, Places
  <2>2. CASE kind # "child"
    BY <1>7, <1>a, <2>2 DEF Finish
  <2> QED  BY <2>1, <2>2
<1>8. CASE Renew
  <2>1. t'.writer = t.writer
    BY <1>8 DEF Renew, Typed, Timers
  <2> QED  BY <1>8, <1>a, <2>1 DEF Renew, Take, evars
<1>9. CASE Release
  <2>1. PICK d \in {0, 1} : t' = [lease |-> Less(LeaseTicks, d), writer |-> Less(t.writer, d),
                                  beat |-> Older(t.beat, d)]
    BY <1>9, Zenon DEF Release
  <2>2. t'.writer = Less(t.writer, d)
    BY <2>1
  <2>3. t'.writer \in Nat /\ (t'.writer > 0 => t.writer > 0)
    <3>1. d \in Nat /\ t.writer \in Nat
      BY <1>n
    <3>2. Less(t.writer, d) \in Nat /\ (Less(t.writer, d) > 0 => t.writer > 0)
      BY <3>1, Numbers, Zenon
    <3> QED  BY <2>2, <3>2
  <2>4. hist'.delivered = hist.delivered /\ (t'.writer > 0 => hist'.fence = hist.fence)
    BY <1>9, <2>3 DEF Release, Typed, Histories
  <2>5. rec' \in {rec, [rec EXCEPT !.n = @ + 1]} \cup Torn("call")
    BY <1>9, Zenon DEF Release
  <2> QED  BY <1>9, <1>a, <1>c, <2>3, <2>4, <2>5 DEF Release, Take
<1>10. CASE Adopt
  <2>1. pc = "serve" /\ pc' = "sync"
    BY <1>10 DEF Adopt, Take
  <2>2. CASE vm
    <3>1. PICK p \in Pauses("call") :
            /\ rec' = p.rec /\ t'.writer = 0
            /\ hist' = [Revoked(hist) EXCEPT !.adopted = IF p.ok THEN r.gen ELSE @]
      BY <1>10, <2>2 DEF Adopt
    <3>2. rec'.inputs = rec.inputs /\ hist'.delivered = hist.delivered
      BY <3>1, PauseTyped DEF Typed, Histories, Revoked, Places
    <3> QED  BY <1>a, <2>1, <3>1, <3>2
  <2>3. CASE ~vm
    <3>1. rec' = rec /\ hist' = Revoked(hist) /\ t' = [t EXCEPT !.writer = 0]
      BY <1>10, <2>3 DEF Adopt
    <3>2. t'.writer = 0
      BY <3>1 DEF Typed, Timers
    <3> QED  BY <1>a, <2>1, <3>1, <3>2, HistStep
  <2> QED  BY <2>2, <2>3
<1>11. CASE Acquire
  <2>1. pc = "serve" /\ pc' = "sync" /\ rec' = rec
    BY <1>11 DEF Acquire, Take, evars
  <2>2. CASE UNCHANGED <<writer, t, hist>>
    BY <1>a, <2>1, <2>2
  <2>3. CASE writer' = [owner |-> r.owner, token |-> issued + 1] /\ hist' = Revoked(hist)
    <3>1. writer'.token > hist'.fence
      BY <1>n, <2>3 DEF Typed, Histories, Revoked
    <3>2. hist'.delivered = hist.delivered
      BY <2>3, HistStep
    <3> QED  BY <1>n, <2>1, <3>1, <3>2 DEF InputInv, RecordedFirst
  <2> QED  BY <1>11, <2>2, <2>3 DEF Acquire
<1>12. CASE RenewWriter
  <2>1. t' = t \/ t.writer > 0
    BY <1>12 DEF RenewWriter, require
  <2> QED  BY <1>12, <1>a, <2>1, Zenon DEF RenewWriter, Take, evars
<1>13. CASE Revoke
  <2>1. pc = "serve" /\ pc' = "sync" /\ rec' = rec /\ hist' = Revoked(hist) /\ t' = [t EXCEPT !.writer = 0]
    BY <1>13 DEF Revoke, Take, evars
  <2>2. t'.writer = 0
    BY <2>1 DEF Typed, Timers
  <2> QED  BY <1>a, <2>1, <2>2, HistStep
<1>14. CASE Input
  <2>1. /\ pc = "serve" /\ pc' = "sync" /\ UNCHANGED <<t, writer>> /\ require(r)
        /\ \/ rec' \in Torn("call") /\ hist' = hist
           \/ /\ rec' = [rec EXCEPT !.n = @ + 1, !.inputs = @ + 1]
              /\ hist' \in {hist, [hist EXCEPT !.delivered = @ + 1]}
    BY <1>14 DEF Input, Take
  <2>2. r.token > hist.fence
    BY <2>1 DEF InputInv, require
  <2>3. CASE rec' \in Torn("call") /\ hist' = hist
    BY <1>a, <1>c, <2>1, <2>3
  <2>4. CASE /\ rec' = [rec EXCEPT !.n = @ + 1, !.inputs = @ + 1]
             /\ hist' \in {hist, [hist EXCEPT !.delivered = @ + 1]}
    <3>1. rec'.inputs = rec.inputs + 1
      BY <2>4 DEF Typed, Records
    <3>2. hist'.delivered <= hist.delivered + 1 /\ hist'.fence = hist.fence
      BY <1>n, <2>4 DEF Typed, Histories
    <3>3. hist'.delivered \in Nat
      BY <1>n, <2>4 DEF Typed, Histories
    <3> QED  BY <1>n, <2>1, <2>2, <3>1, <3>2, <3>3 DEF InputInv, RecordedFirst
  <2> QED  BY <2>1, <2>3, <2>4
<1> QED  BY <1>1, <1>2, <1>3, <1>4, <1>5, <1>6, <1>7, <1>8, <1>9, <1>10, <1>11,
    <1>12, <1>13, <1>14
         DEF Next, Worker

(***************************************************************************)
(* Closing.  The last record, the sync, the published name and its         *)
(* directory come in that order before the manifest.                       *)
(***************************************************************************)
CloseInv ==
  /\ pc \in {"close", "link", "unlink", "dir", "persist"} => rec.closed
  /\ pc \in {"link", "unlink", "dir", "persist"} => disk.rec.closed
  /\ pc \in {"unlink", "dir", "persist"} => "glterm" \in disk.files
  /\ pc = "persist" => "glterm" \in disk.names
  /\ man = "closed" => /\ pc \in {"dead", "gone"} /\ "glterm" \in disk.files
                       /\ "glterm" \in disk.names \/ pc = "gone"
                       /\ rec.closed /\ disk.rec.closed
                       /\ rec.torn # "loop" /\ disk.rec.torn # "loop"
  /\ pc = "start" => man = "none"
  /\ pc \notin {"failing", "dead", "gone"} => rec.torn # "loop"
  /\ pc # "gone" => disk.rec.torn # "loop"

\* Before the recording is closed.
Open == {"start", "loop", "poll", "serve", "sync", "closing", "last", "failing"}
LEMMA CloseNext ==
  ASSUME Typed, CloseInv, [Next]_vars
  PROVE  CloseInv'
<1>r. rec \in Records /\ disk \in Disks
  BY DEF Typed
<1>p. ASSUME NEW w \in Places, NEW p \in Pauses(w)
      PROVE  (p.ok \/ w = "call") /\ rec.torn # "loop" => p.rec.torn # "loop"
  BY <1>p, PauseTyped DEF Places
<1>t. /\ \A x \in Torn("call") : x.torn \in {rec.torn, "call"}
      /\ [rec EXCEPT !.n = @ + 1].torn = rec.torn
      /\ [rec EXCEPT !.n = @ + 1, !.inputs = @ + 1].torn = rec.torn
      /\ [rec EXCEPT !.n = 1].torn = rec.torn
  BY <1>r, TornTyped DEF Records, Places
<1>2. CASE Start \/ Loop \/ Poll \/ Attach \/ Sync \/ NoCall \/ Stale \/ Adopt \/ Release \/ Renew
           \/ Quiesce \/ CloseCall \/ Acquire \/ RenewWriter \/ Revoke \/ Denied \/ Input \/ Resize
           \/ Finish
  <2>1. pc \in Open /\ pc' \in Open \ {"start"}
    BY <1>2, Zenon DEF Start, Loop, Poll, Attach, Sync, NoCall, Stale, Adopt, Release,
        Renew, Quiesce,
       CloseCall, Acquire, RenewWriter, Revoke, Denied, Input, Resize, Finish, Take, wvars, Open
  <2>2. man' = man \/ man' = "active"
    BY <1>2, Zenon DEF Start, Loop, Poll, Attach, Sync, NoCall, Stale, Adopt,
        Release, Renew, Quiesce,
       CloseCall, Acquire, RenewWriter, Revoke, Denied, Input, Resize, Finish, evars
  <2>3. pc \notin {"failing", "dead", "gone"}
    BY <1>2, Zenon DEF Start, Loop, Poll, Attach, Sync, NoCall, Stale, Adopt, Release,
        Renew, Quiesce,
       CloseCall, Acquire, RenewWriter, Revoke, Denied, Input, Resize, Finish, Take
  <2>4. rec.torn # "loop" /\ disk.rec.torn # "loop"
    BY <2>3 DEF CloseInv
  <2>5. pc' # "failing" => rec'.torn # "loop"
    <3>1. CASE Loop \/ Finish
      <4>1. rec' = rec \/ \E p \in Pauses("loop") : rec' = p.rec /\ (pc' # "failing" => p.ok)
        BY <3>1, Zenon DEF Loop, Finish, pause
      <4> QED  BY <1>p, <2>4, <4>1 DEF Places
    <3>2. CASE Adopt \/ Quiesce
      <4>1. rec' = rec \/ \E p \in Pauses("call") : rec' = p.rec
        BY <3>2, Zenon DEF Adopt, Quiesce, pause
      <4> QED  BY <1>p, <2>4, <4>1 DEF Places
    <3>3. CASE Poll
      BY <1>t, <2>4, <3>3, Zenon DEF Poll
    <3>4. CASE Start \/ Release \/ Input \/ Resize
      <4>1. rec' \in {rec, [rec EXCEPT !.n = @ + 1], [rec EXCEPT !.n = @ + 1, !.inputs = @ + 1],
                      [rec EXCEPT !.n = 1]} \cup Torn("call")
        BY <3>4, Zenon DEF Start, Release, Input, Resize
      <4> QED  BY <1>t, <2>4, <4>1, Zenon
    <3>5. CASE Attach \/ Sync \/ NoCall \/ Stale \/ Renew \/ CloseCall \/ Acquire \/ RenewWriter
               \/ Revoke \/ Denied
      <4>1. rec' = rec
        BY <3>5, Zenon DEF Attach, Sync, NoCall, Stale, Renew, CloseCall, Acquire, RenewWriter,
           Revoke, Denied, evars
      <4> QED  BY <2>4, <4>1
    <3> QED  BY <1>2, <3>1, <3>2, <3>3, <3>4, <3>5
  <2>6. disk'.rec.torn # "loop"
    <3>1. CASE Start
      BY <1>t, <2>4, <3>1, Zenon DEF Start
    <3>2. CASE Sync
      BY <1>r, <2>4, <3>2 DEF Sync, Disks
    <3>3. CASE ~Start /\ ~Sync
      <4>1. disk' = disk
        BY <1>2, <3>3, Zenon DEF Loop, Poll, Attach, NoCall, Stale, Adopt, Release, Renew, Quiesce,
           CloseCall, Acquire, RenewWriter, Revoke, Denied, Input, Resize, Finish, evars
      <4> QED  BY <2>4, <4>1
    <3> QED  BY <3>1, <3>2, <3>3
  <2>7. man # "closed"
    BY <2>1 DEF CloseInv, Open
  <2> QED  BY <2>1, <2>2, <2>5, <2>6, <2>7 DEF CloseInv, Open
<1>3. CASE Sigterm \/ Tick \/ LateCont \/ GuestExits \/ Watch \/ ShellExits \/ HandOver \/ AgentCalls
           \/ BrowserCalls \/ AgentRestart \/ UNCHANGED vars
  <2>1. UNCHANGED <<pc, man, rec, disk>>
    BY <1>3, Zenon DEF Sigterm, Tick, LateCont, GuestExits, Watch, ShellExits,
        HandOver, AgentCalls,
       BrowserCalls, AgentRestart, Call, vars, wvars, evars
  <2> QED  BY <2>1 DEF CloseInv
<1>4. CASE Last
  <2>1. rec' = [rec EXCEPT !.n = @ + 1, !.closed = TRUE] => rec'.closed /\ rec'.torn = rec.torn
    BY <1>r DEF Records
  <2> QED  BY <1>4, <2>1 DEF Last, CloseInv
<1>5. CASE close
  <2>1. rec' = rec /\ man' = man /\ man # "closed" /\ rec.torn # "loop" /\ disk.rec.torn # "loop"
    BY <1>5 DEF close, CloseInv
  <2>2. CASE pc = "close" /\ pc' = "link" /\ disk' = [disk EXCEPT !.rec = rec]
    BY <1>r, <2>1, <2>2 DEF CloseInv, Disks
  <2>3. CASE pc = "link" /\ pc' = "unlink" /\ disk' = [disk EXCEPT !.files = @ \cup {"glterm"}]
    BY <1>r, <2>1, <2>3 DEF CloseInv, Disks
  <2>4. CASE pc = "unlink" /\ pc' = "dir" /\ disk' = [disk EXCEPT !.files = {"glterm"}]
    BY <1>r, <2>1, <2>4 DEF CloseInv, Disks
  <2>5. CASE pc = "dir" /\ pc' = "persist" /\ disk' = [disk EXCEPT !.names = disk.files]
    BY <1>r, <2>1, <2>5 DEF CloseInv, Disks
  <2>6. CASE pc' = "failing" /\ disk' = disk
    BY <2>1, <2>6 DEF CloseInv
  <2> QED  BY <1>5, <2>2, <2>3, <2>4, <2>5, <2>6 DEF close
<1>6. CASE Persist \/ Fail \/ Kill
  BY <1>6 DEF Persist, Fail, Kill, CloseInv
<1>7. CASE Reboot
  <2>1. PICK f \in {disk.files, disk.names} : disk' = [disk EXCEPT !.files = f, !.rec = rec']
    BY <1>7, Zenon DEF Reboot
  <2>2. disk'.files = f /\ disk'.rec = rec'
    BY <2>1 DEF Typed, Disks
  <2> QED  BY <1>7, <2>1, <2>2 DEF Reboot, CloseInv
<1> QED  BY <1>2, <1>3, <1>4, <1>5, <1>6, <1>7 DEF Next, Worker

(***************************************************************************)
(* The theorems of the worker.                                             *)
(***************************************************************************)
TermInv == Typed /\ LeaseInv /\ AdoptInv /\ InputInv /\ CloseInv
LEMMA TermInit == Init => TermInv
<1> SUFFICES ASSUME Init PROVE TermInv
  OBVIOUS
<1>1. Typed
  BY TypedInit
<1>2. LeaseInv /\ AdoptInv
  BY DEF Init, LeaseInv, Alive, Rounds, GuestIsLeased, AdoptInv, AdoptionFences, vm
<1>3. InputInv /\ CloseInv
  BY DEF Init, InputInv, RecordedFirst, CloseInv
<1> QED  BY <1>1, <1>2, <1>3 DEF TermInv

LEMMA TermNext == TermInv /\ [Next]_vars => TermInv'
BY TypedNext, LeaseNext, AdoptNext, InputNext, CloseNext DEF TermInv

LEMMA TermSafe == Spec => []TermInv
BY TermInit, TermNext, PTL DEF Spec

\* In its loop the worker never has a virtual machine running, or about to be
\* started by a cont that QEMU has yet to execute, without holding its lease:
\* pause() gives the lease up only once the machine is known to be paused.
THEOREM GuestsLeased == Spec => []GuestIsLeased
BY TermSafe, PTL DEF TermInv, LeaseInv

\* Once a controller generation was adopted, no machine freed for an older
\* generation runs: adopt pauses before it answers.
THEOREM AdoptionsFence == Spec => []AdoptionFences
BY TermSafe, PTL DEF TermInv, AdoptInv

\* While the worker lives, every input that reached the source has its whole
\* record: input writes it before it writes to the terminal, and writes nothing
\* there when the record was refused or cut short.
THEOREM InputsRecorded == Spec => []RecordedFirst
BY TermSafe, PTL DEF TermInv, InputInv

\* A manifest that says closed, at any time after, through a kill or a reboot:
\* the recording has its last record on disk under its published name, and no
\* record of the source's output in it was cut short.
THEOREM ClosesDurable == Spec => []ClosedIsDurable
<1>1. TermInv => ClosedIsDurable
  BY DEF TermInv, CloseInv, ClosedIsDurable
<1> QED  BY <1>1, TermSafe, PTL

\* Input is delivered only for a token newer than every one that was revoked,
\* replaced or left to expire, however late the call arrives.
THEOREM InputsFenced == Spec => InputIsFenced
<1>1. TermInv /\ [Next]_vars => [hist'.delivered > hist.delivered => r.token > hist.fence]_vars
  BY InputNext DEF TermInv
<1> QED  BY <1>1, TermSafe, PTL DEF Spec, InputIsFenced

(***************************************************************************)
(* A shell in a container.  Two threads of the agent and the hook of the   *)
(* recorder's unit act on one session; Docker is that session.             *)
(***************************************************************************)
CONSTANTS MaxStops, MaxFaults, MaxCrashes
VARIABLES step, opening, journal, dir, known, exec, sent, unit, hook, lock, stopped, missed,
          stops, faults, crashes

Docker == INSTANCE DockerSession WITH pc <- step

\* The steps of an open before exec.json is there, and those under its lock.
Unknown == {"journal", "mkdir", "config", "launch", "lock", "create", "intent"}
Attaching == {"create", "intent", "start", "attach"}

\* Nothing of a session precedes its journal entry, its directory or, for the
\* shell, exec.json.  Whoever looks at the shell holds the lock; the hook does
\* so once.  An open comes before every stop but its own.
Opened ==
  /\ step \in [Docker!Threads -> {"idle"} \cup Docker!OpenSteps \cup Docker!StopSteps]
  /\ step["job"] \notin Docker!OpenSteps
  /\ step["dispatch"] \in Docker!OpenSteps => opening
  /\ step["dispatch"] \in Docker!OpenSteps \ {"journal"} => journal
  /\ \A th \in Docker!Threads : step[th] \in Docker!StopSteps => journal
  /\ step["job"] # "idle" => step["dispatch"] \notin Docker!OpenSteps
  /\ step["dispatch"] = "journal" => ~journal
  /\ ~journal \/ step["dispatch"] = "mkdir" => dir = "none"
  /\ step["dispatch"] = "config" => dir # "config"
  /\ step["dispatch"] = "launch" => unit = "none"
  /\ step["dispatch"] \in Docker!OpenSteps \ {"journal", "mkdir", "config"} => dir = "config"
  /\ dir # "config" => unit = "none" /\ exec = "none" /\ ~known
  /\ step["dispatch"] \in Unknown => ~known
  /\ step["dispatch"] = "start" => known

Locked ==
  /\ step["dispatch"] \in Attaching => lock = "dispatch"
  /\ \A th \in Docker!Threads : step[th] \in {"inspect", "kill"} => lock = th
  /\ hook \in {"inspect", "kill"} <=> lock = "hook"
  /\ hook \in {"inspect", "kill"} => unit = "ended"

\* Past its look at the shell a thread knows that none runs but by a late start.
Cleaned ==
  /\ stopped \subseteq Docker!Cleaners
  /\ \A th \in Docker!Threads :
       step[th] \in {"close", "reap"} => exec # "running" \/ th \in missed
  /\ \A th \in Docker!Threads : th \in stopped =>
       /\ journal /\ step["dispatch"] \notin Docker!OpenSteps /\ step[th] = "idle"
       /\ unit = "none" /\ (exec # "running" \/ th \in missed)
  /\ "hook" \in stopped =>
       /\ known /\ step["dispatch"] # "start" /\ (unit = "none" \/ hook = "done")
       /\ exec # "running" \/ "hook" \in missed

SessionInv == Opened /\ Locked /\ Cleaned /\ Docker!ShellIsKnown

LEMMA SessionInit == Docker!Init => SessionInv
BY DEF Docker!Init, SessionInv, Opened, Locked, Cleaned, Unknown, Attaching,
       Docker!ShellIsKnown, Docker!OpenSteps, Docker!StopSteps, Docker!Threads, Docker!Cleaners

LEMMA SessionNext == SessionInv /\ [Docker!Next]_(Docker!vars) => SessionInv'
<1> SUFFICES ASSUME SessionInv, [Docker!Next]_(Docker!vars) PROVE SessionInv'
  OBVIOUS
<1> USE DEF SessionInv, Opened, Locked, Cleaned, Unknown, Attaching, Docker!ShellIsKnown,
            Docker!OpenSteps, Docker!StopSteps, Docker!Threads, Docker!Cleaners, Docker!Step,
            Docker!Opens, Docker!Freed, Docker!Killed, Docker!Over, Docker!GiveUp,
            Docker!HookDone
<1>1. CASE Docker!Open
  BY <1>1 DEF Docker!Open
<1>2. ASSUME NEW th \in Docker!Threads, Docker!Close(th) PROVE SessionInv'
  BY <1>2 DEF Docker!Close
<1>3. CASE Docker!Journal
  BY <1>3 DEF Docker!Journal
<1>4. CASE Docker!Launch
  <2>1. CASE Docker!Opens("mkdir", "config") /\ dir' = "bare" /\ unit' = unit
    BY <1>4, <2>1 DEF Docker!Launch
  <2>2. CASE Docker!Opens("config", "launch") /\ dir' = "config" /\ unit' = unit
    BY <1>4, <2>2 DEF Docker!Launch
  <2>3. CASE Docker!Opens("launch", "lock") /\ dir' = dir /\ unit' = "running"
    BY <1>4, <2>3 DEF Docker!Launch
  <2> QED  BY <1>4, <2>1, <2>2, <2>3, Zenon DEF Docker!Launch
<1>5. CASE Docker!Attach
  BY <1>5 DEF Docker!Attach
<1>6. CASE Docker!Ready
  BY <1>6 DEF Docker!Ready
<1>7. CASE Docker!OpenFails
  BY <1>7 DEF Docker!OpenFails
<1>8. ASSUME NEW th \in Docker!Threads, Docker!Stop(th) PROVE SessionInv'
  <2>1. step' = [step EXCEPT ![th] = "guard"] \/ step' = [step EXCEPT ![th] = "idle"]
    BY <1>8, Zenon DEF Docker!Stop
  <2>2. Opened'
    BY <1>8, <2>1 DEF Docker!Stop
  <2>3. Locked'
    BY <1>8, <2>1 DEF Docker!Stop
  <2>4. Cleaned'
    <3>1. stopped' = stopped \/ (stopped' = stopped \cup {th} /\ dir = "none" /\ step'[th] = "idle")
      BY <1>8, Zenon DEF Docker!Stop
    <3>2. /\ step["dispatch"] \notin Docker!OpenSteps /\ journal /\ step'["dispatch"] \notin Docker!OpenSteps
          /\ \A x \in Docker!Threads : step'[x] \notin {"close", "reap"} \/ step'[x] = step[x]
          /\ \A x \in Docker!Threads : step[x] = "idle" => step'[x] = "idle"
      BY <1>8, <2>1 DEF Docker!Stop
    <3>3. UNCHANGED <<journal, dir, known, exec, unit, hook, missed>>
      BY <1>8, Zenon DEF Docker!Stop
    <3> QED  BY <3>1, <3>2, <3>3, Zenon
  <2> QED  BY <1>8, <2>2, <2>3, <2>4 DEF Docker!Stop
<1>9. ASSUME NEW th \in Docker!Threads, Docker!Cleanup(th) PROVE SessionInv'
  BY <1>9 DEF Docker!Cleanup
<1>10. ASSUME NEW th \in Docker!Threads, Docker!CloseUnit(th) PROVE SessionInv'
  BY <1>10 DEF Docker!CloseUnit
<1>11. ASSUME NEW th \in Docker!Threads, Docker!Reap(th) PROVE SessionInv'
  BY <1>11 DEF Docker!Reap
<1>12. ASSUME NEW th \in Docker!Threads, Docker!StopFails(th) PROVE SessionInv'
  BY <1>12 DEF Docker!StopFails
<1>13. CASE Docker!Hook
  <2>1. Opened'
    BY <1>13 DEF Docker!Hook
  <2>2. Locked'
    BY <1>13 DEF Docker!Hook
  <2>3. Cleaned'
    BY <1>13, Zenon DEF Docker!Hook
  <2> QED  BY <1>13, <2>1, <2>2, <2>3 DEF Docker!Hook
<1>14. CASE Docker!HookFails
  BY <1>14 DEF Docker!HookFails
<1>15. CASE Docker!Forget \/ Docker!RecorderEnds \/ Docker!ShellEnds
  <2>1. CASE Docker!Forget
    BY <2>1 DEF Docker!Forget
  <2>2. CASE Docker!RecorderEnds
    BY <2>2 DEF Docker!RecorderEnds
  <2>3. CASE Docker!ShellEnds
    BY <2>3 DEF Docker!ShellEnds
  <2> QED  BY <1>15, <2>1, <2>2, <2>3, Zenon
<1>16. CASE Docker!LateStart
  BY <1>16 DEF Docker!LateStart
<1>17. CASE Docker!Crash
  BY <1>17 DEF Docker!Crash
<1>18. CASE UNCHANGED Docker!vars
  BY <1>18 DEF Docker!vars
<1> QED  BY <1>1, <1>2, <1>3, <1>4, <1>5, <1>6, <1>7, <1>8, <1>9, <1>10, <1>11, <1>12,
           <1>13, <1>14, <1>15, <1>16, <1>17, <1>18, Zenon DEF Docker!Next, Docker!Agent

\* A shell that runs, or may yet be started by a call on its way, is in the
\* journal and in exec.json, whatever died since: both are written before the
\* call that starts it.
THEOREM ShellsKnown == Docker!Spec => []Docker!ShellIsKnown
BY SessionInit, SessionNext, PTL DEF Docker!Spec, SessionInv

\* A stop() that succeeded leaves no recorder, and neither it nor a hook that
\* knew of the shell leaves one running, but for a start that reached Docker
\* after they had looked, whatever the two threads and the hook do at once.
THEOREM StopsClean == Docker!Spec => []Docker!StopIsClean
<1>1. SessionInv => Docker!StopIsClean
  BY DEF SessionInv, Cleaned, Docker!StopIsClean, Docker!Threads, Docker!Cleaners
<1> QED BY <1>1, SessionInit, SessionNext, PTL DEF Docker!Spec
=============================================================================
