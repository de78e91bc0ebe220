--------------------------- MODULE TerminalWorker ---------------------------
(***************************************************************************)
(* The console worker (terminal/worker.cpp) with its writer lease and its  *)
(* recording (terminal/recording.cpp), for the serial console of a virtual *)
(* machine, which the worker runs as a child or a runner container runs    *)
(* under a heartbeat (qemu-runners/cpp-runner/main.cpp), and for SSH and   *)
(* Docker shells.  The agent may restart with calls still waiting in the   *)
(* socket, QMP may fail with or without effect, the worker may be killed   *)
(* and the host may reboot.                                                *)
(*                                                                         *)
(* Leases are ticks left.  Time passes where the worker blocks: in poll()  *)
(* and in QMP calls, at most one tick each.  The recording is the number   *)
(* of its records, of its input records, whether the last one is "closed", *)
(* and where a part of a record was left; its budget is a number of        *)
(* records.                                                                *)
(***************************************************************************)
EXTENDS Naturals, Sequences, FiniteSets

CONSTANTS
  Kinds,                     \* some of "child", "runner", "ssh", "docker"
  Owners,                    \* browser sessions
  LeaseTicks, WriterTicks,   \* 10 s and 15 s
  BeatLimit,                 \* 5 s
  Budget,                    \* 64 MiB
  MaxInbox, MaxGen, MaxToken

ASSUME TerminalAssumption ==
  /\ Kinds \subseteq {"child", "runner", "ssh", "docker"}
  /\ {LeaseTicks, WriterTicks, Budget, MaxGen} \subseteq Nat \ {0}
  /\ {BeatLimit, MaxInbox, MaxToken} \subseteq Nat

VARIABLES
  kind, pc, finishing,
  gen, leased, writer, t,  \* controller, leases, and the ticks left of each
  source,                  \* the stream: "none", "open", "ended", "closed"; or "lost",
                           \* a number whose descriptor is closed
  guest, late, runner,     \* the machine; a cont QEMU has yet to execute
  rec, disk, man,          \* recording, what is durable of it, manifest
  inbox, att,              \* calls, and a stream, waiting in the sockets
  ag, issued, cl,          \* the agent; tokens so far, and what each browser holds
  hist                     \* history, read by properties only

wvars == <<kind, pc, finishing, gen, leased, writer, t>>
evars == <<source, guest, late, runner, rec, disk, man>>
avars == <<inbox, att, ag, issued, cl, hist>>
vars == <<wvars, evars, avars>>

vm == kind \in {"child", "runner"}
Nobody == [owner |-> "none", token |-> 0]

\* What the worker's process and its sockets held is gone with it.
Exit ==
  /\ finishing' = FALSE /\ leased' = FALSE /\ writer' = Nobody /\ inbox' = <<>> /\ att' = 0
  /\ UNCHANGED <<kind, gen, ag, issued, cl>>

Less(n, d) == IF n > d THEN n - d ELSE 0
Older(n, d) == IF n + d > BeatLimit THEN BeatLimit + 1 ELSE n + d
Revoked(h) == [h EXCEPT !.fence = issued]

\* d ticks go by since the timers read b; a writer whose lease ends is fenced.
Pass(b, d) ==
  /\ t' = [lease |-> Less(b.lease, d), writer |-> Less(b.writer, d), beat |-> Older(b.beat, d)]
  /\ hist' = IF t'.writer = 0 THEN Revoked(hist) ELSE hist

Init ==
  /\ kind \in Kinds
  /\ pc = "start" /\ finishing = FALSE /\ gen = 1 /\ leased = FALSE /\ writer = Nobody
  /\ t = [lease |-> 0, writer |-> 0, beat |-> 0]
  /\ source = "none"
  /\ guest = (IF vm THEN "paused" ELSE "off") /\ late = FALSE /\ runner = (kind = "runner")
  /\ rec = [n |-> 0, inputs |-> 0, closed |-> FALSE, torn |-> "none"]
  /\ disk = [rec |-> rec, names |-> {}, files |-> {}] /\ man = "none"
  /\ inbox = <<>> /\ att = 0
  /\ ag = [gen |-> 1, mode |-> "held"] /\ issued = 0 /\ cl = [o \in Owners |-> 0]
  /\ hist = [freed |-> 0, adopted |-> 0, fence |-> 0, delivered |-> 0]

-----------------------------------------------------------------------------
\* append(): the header and the bytes must fit the budget.
Room == rec.n < Budget

\* What an append that throws leaves, during a call or in the loop: nothing, or
\* a part of the record that neither size_ nor sequence_ counts.
Torn(where) == {rec} \cup (IF Room THEN {[rec EXCEPT !.torn = where]} ELSE {})
Beat == [t EXCEPT !.beat = 0]

(***************************************************************************)
(* Up to the loop: the recording with its first record, the sockets, and   *)
(* the source: the serial line of a machine that is seen paused, or the    *)
(* shell; a Docker shell's stream comes later.                             *)
(***************************************************************************)
Start ==
  /\ pc = "start" /\ rec' = [rec EXCEPT !.n = 1]
  /\ disk' = [rec |-> rec', names |-> {"partial"}, files |-> {"partial"}]
  /\ \/ /\ vm => guest = "paused"
        /\ source' = (IF kind = "docker" THEN "none" ELSE "open")
        /\ man' = "active" /\ pc' = "loop"
     \/ pc' = "failing" /\ UNCHANGED <<source, man>>
  /\ UNCHANGED <<kind, finishing, gen, leased, writer, t, guest, late, runner, avars>>

(***************************************************************************)
(* The outcomes of pause(): QMP stop, its confirmation, and a record.  A   *)
(* call that fails may have stopped the machine; a stop that QEMU executes *)
(* comes after any cont still waiting there.                               *)
(***************************************************************************)
Pauses(where) ==
  LET done(l, x, b) == [guest |-> "paused", late |-> FALSE, leased |-> l, rec |-> x, ok |-> b]
      lost == [guest |-> guest, late |-> late, leased |-> leased, rec |-> rec, ok |-> FALSE]
  IN  {lost} \cup (IF guest = "off" THEN {}
                   ELSE {done(leased, rec, FALSE)} \cup {done(FALSE, x, FALSE) : x \in Torn(where)}
                        \cup (IF Room THEN {done(FALSE, [rec EXCEPT !.n = @ + 1], TRUE)} ELSE {}))

pause(p, b) ==
  /\ guest' = p.guest /\ late' = p.late /\ leased' = p.leased /\ rec' = p.rec
  /\ \E d \in {0, 1} : Pass(b, d)

(***************************************************************************)
(* The head of the loop: the heartbeat for the runner, the end of the      *)
(* machine's lease, the child's exit, and the idle limit of a shell.       *)
(***************************************************************************)
Loop ==
  /\ pc = "loop"
  /\ \/ /\ finishing /\ pc' = "closing"
        /\ UNCHANGED <<finishing, leased, t, guest, late, rec, man, hist>>
     \/ /\ ~finishing /\ leased /\ t.lease = 0
        /\ \E p \in Pauses("loop") : /\ pause(p, Beat)
                                     /\ pc' = IF p.ok THEN "poll" ELSE "failing"
        /\ UNCHANGED <<finishing, man>>
     \/ /\ ~finishing /\ ~(leased /\ t.lease = 0)
        /\ t' = Beat
        /\ \/ pc' = "poll" /\ UNCHANGED finishing
           \/ ~vm /\ finishing' = TRUE /\ pc' = "closing"
           \/ kind = "child" /\ guest = "off" /\ pc' = "failing" /\ UNCHANGED finishing
           \/ kind = "ssh" /\ source = "ended" /\ pc' = "failing" /\ UNCHANGED finishing
        /\ UNCHANGED <<leased, guest, late, rec, man, hist>>
  /\ UNCHANGED <<kind, gen, writer, source, runner, disk, inbox, att, ag, issued, cl>>

(***************************************************************************)
(* poll() and the bytes of the source.  The end of a runner's serial line  *)
(* is a failure, that of another source finishes the session.              *)
(***************************************************************************)
Poll ==
  /\ pc = "poll"
  /\ \E d \in {0, 1} : Pass(t, d)
  /\ \/ /\ pc' = "serve" /\ UNCHANGED <<finishing, rec>>
     \/ /\ source = "open" /\ (vm => guest = "running") /\ UNCHANGED finishing
        /\ \/ Room /\ pc' = "serve" /\ rec' = [rec EXCEPT !.n = @ + 1]
           \/ pc' = "failing" /\ rec' \in Torn("loop")
     \/ /\ source = "ended" /\ rec' = rec
        /\ IF kind = "runner" THEN pc' = "failing" /\ UNCHANGED finishing
                              ELSE pc' = "closing" /\ finishing' = TRUE
  /\ UNCHANGED <<kind, gen, leased, writer, source, guest, late, runner, disk, man,
                 inbox, att, ag, issued, cl>>

\* A stream handed over for a Docker shell, before the calls of this round.  If
\* persist() throws, the handler closes the descriptor that source names.
Attach ==
  /\ pc = "serve" /\ att # 0 /\ att' = 0
  /\ source' \in IF att = gen /\ source = "none" THEN {"open", "lost"} ELSE {source}
  /\ UNCHANGED <<wvars, guest, late, runner, rec, disk, man, inbox, ag, issued, cl, hist>>

\* Once a second: the recording is synced, the manifest written.
Sync ==
  /\ pc = "sync"
  /\ \/ pc' = "loop" /\ UNCHANGED disk
     \/ pc' = "loop" /\ disk' = [disk EXCEPT !.rec = rec]
     \/ pc' = "failing" /\ UNCHANGED disk
  /\ UNCHANGED <<kind, finishing, gen, leased, writer, t, source, guest, late, runner, rec,
                 man, avars>>

-----------------------------------------------------------------------------
(***************************************************************************)
(* One call of the control socket per round.  An exception answers the     *)
(* call and undoes nothing.                                                *)
(***************************************************************************)
r == Head(inbox)
Take(op) ==
  /\ pc = "serve" /\ att = 0 /\ inbox # <<>> /\ r.op = op
  /\ inbox' = Tail(inbox) /\ pc' = "sync"
Current == r.gen = gen

NoCall ==
  /\ pc = "serve" /\ att = 0 /\ inbox = <<>> /\ pc' = "sync"
  /\ UNCHANGED <<kind, finishing, gen, leased, writer, t, evars, avars>>

\* Refused: another generation, or an operation the session does not have.
Stale ==
  /\ inbox # <<>> /\ Take(r.op)
  /\ IF r.op = "adopt" THEN r.gen <= gen
     ELSE ~Current \/ (~vm /\ r.op \in {"release", "renew", "quiesce"})
  /\ ag' = IF r.op = "release" /\ r.gen = ag.gen THEN [ag EXCEPT !.mode = "held"] ELSE ag
  /\ UNCHANGED <<kind, finishing, gen, leased, writer, t, evars, att, issued, cl, hist>>

AdoptRunning ==
  /\ Take("adopt") /\ r.gen > gen
  /\ gen' = r.gen /\ writer' = Nobody
  /\ t' = [t EXCEPT !.writer = 0] /\ hist' = [Revoked(hist) EXCEPT !.adopted = r.gen]
  /\ UNCHANGED <<kind, finishing, leased, evars, att, ag, issued, cl>>

Adopt ==
  /\ Take("adopt") /\ r.gen > gen
  /\ gen' = r.gen /\ writer' = Nobody
  /\ IF vm
     THEN \E p \in Pauses("call"), d \in {0, 1} :
            /\ guest' = p.guest /\ late' = p.late /\ leased' = p.leased /\ rec' = p.rec
            /\ t' = [lease |-> Less(t.lease, d), writer |-> 0, beat |-> Older(t.beat, d)]
            /\ hist' = [Revoked(hist) EXCEPT !.adopted = IF p.ok THEN r.gen ELSE @]
     ELSE /\ t' = [t EXCEPT !.writer = 0] /\ hist' = Revoked(hist)
          /\ UNCHANGED <<guest, late, leased, rec>>
  /\ UNCHANGED <<kind, finishing, source, runner, disk, man, att, ag, issued, cl>>

\* What QMP cont may do: start the machine; leave it waiting; fail.
Conts ==
  {[guest |-> guest, late |-> late, ok |-> FALSE]} \cup
  (IF guest = "off" THEN {}
   ELSE {[guest |-> "running", late |-> FALSE, ok |-> TRUE],
         [guest |-> guest, late |-> TRUE, ok |-> FALSE]})

\* The agent's release job goes on only if the answer reaches it in time.
Answered(ok) ==
  ag' \in {ag} \cup (IF r.gen = ag.gen /\ ag.mode = "releasing"
                     THEN {[ag EXCEPT !.mode = IF ok THEN "ready" ELSE "held"]} ELSE {})

ReleaseLast ==
  /\ Take("release") /\ Current /\ vm
  /\ \E c \in Conts :
       /\ guest' = c.guest /\ late' = c.late
       /\ leased' = (leased \/ c.ok) /\ t' = IF c.ok THEN [t EXCEPT !.lease = LeaseTicks] ELSE t
       /\ Answered(c.ok)
  /\ hist' = [hist EXCEPT !.freed = gen]
  /\ UNCHANGED <<kind, finishing, gen, writer, source, runner, rec, disk, man, att, issued, cl>>

\* The lease is in force before the machine is told to run.
Release ==
  /\ Take("release") /\ Current /\ vm
  /\ leased' = TRUE
  /\ \E c \in Conts, d \in {0, 1} :
       /\ guest' = c.guest /\ late' = c.late
       /\ t' = [lease |-> Less(LeaseTicks, d), writer |-> Less(t.writer, d),
                beat |-> Older(t.beat, d)]
       /\ \/ c.ok /\ Room /\ rec' = [rec EXCEPT !.n = @ + 1] /\ Answered(TRUE)
          \/ rec' \in (IF c.ok THEN Torn("call") ELSE {rec}) /\ Answered(FALSE)
  /\ hist' = [hist EXCEPT !.freed = gen, !.fence = IF t'.writer = 0 THEN issued ELSE @]
  /\ UNCHANGED <<kind, finishing, gen, writer, source, runner, disk, man, att, issued, cl>>

Renew ==
  /\ Take("renew") /\ Current /\ vm
  /\ t' = IF leased /\ t.lease > 0 THEN [t EXCEPT !.lease = LeaseTicks] ELSE t
  /\ ag' = IF r.gen = ag.gen /\ t' = t THEN [ag EXCEPT !.mode = "held"] ELSE ag
  /\ UNCHANGED <<kind, finishing, gen, leased, writer, evars, att, issued, cl, hist>>

Quiesce ==
  /\ Take("quiesce") /\ Current /\ vm
  /\ \E p \in Pauses("call") : pause(p, t)
  /\ UNCHANGED <<kind, finishing, gen, writer, source, runner, disk, man, att, ag, issued, cl>>

CloseCall ==
  /\ Take("close") /\ Current /\ finishing' = TRUE
  /\ UNCHANGED <<kind, gen, leased, writer, t, evars, att, ag, issued, cl, hist>>

-----------------------------------------------------------------------------
\* Lease: the writer of the session.
RequireOwner(q) == t.writer > 0 /\ q.owner = writer.owner

require(q) == t.writer > 0 /\ q.owner = writer.owner /\ q.token = writer.token

Acquire ==
  /\ Take("acquire") /\ Current
  /\ IF (t.writer = 0 \/ r.takeover) /\ issued < MaxToken
     THEN /\ issued' = issued + 1 /\ writer' = [owner |-> r.owner, token |-> issued']
          /\ t' = [t EXCEPT !.writer = WriterTicks]
          /\ cl' \in {cl, [cl EXCEPT ![r.owner] = issued']}
          /\ hist' = Revoked(hist)
     ELSE UNCHANGED <<issued, writer, t, cl, hist>>
  /\ UNCHANGED <<kind, finishing, gen, leased, evars, att, ag>>

RenewWriter ==
  /\ Take("renew-writer") /\ Current
  /\ t' = IF require(r) THEN [t EXCEPT !.writer = WriterTicks] ELSE t
  /\ UNCHANGED <<kind, finishing, gen, leased, writer, evars, att, ag, issued, cl, hist>>

\* revoke asks for no token, release-writer for the current one.
Revoke ==
  /\ \/ Take("revoke")
     \/ Take("release-writer") /\ require(r)
  /\ Current
  /\ writer' = Nobody /\ t' = [t EXCEPT !.writer = 0] /\ hist' = Revoked(hist)
  /\ UNCHANGED <<kind, finishing, gen, leased, evars, att, ag, issued, cl>>

Streams == source \in {"open", "ended", "lost"}

\* Input without the writer's token, or with no stream, changes nothing.
Denied ==
  /\ inbox # <<>> /\ Take(r.op) /\ Current
  /\ \/ r.op = "release-writer" /\ ~require(r)
     \/ r.op \in {"input", "resize"} /\ ~(require(r) /\ Streams)
  /\ UNCHANGED <<kind, finishing, gen, leased, writer, t, evars, att, ag, issued, cl, hist>>

InputFirst ==
  /\ Take("input") /\ Current /\ require(r) /\ Streams
  /\ rec' = IF Room THEN [rec EXCEPT !.n = @ + 1, !.inputs = @ + 1] ELSE rec
  /\ hist' \in {hist, [hist EXCEPT !.delivered = @ + 1]}
  /\ UNCHANGED <<kind, finishing, gen, leased, writer, t, source, guest, late, runner, disk,
                 man, att, ag, issued, cl>>

\* Input is recorded, then written; the write may be refused by the stream, and
\* is by a lost one.  Nothing is written when the record is not.
Input ==
  /\ Take("input") /\ Current /\ require(r) /\ Streams
  /\ \/ /\ Room /\ rec' = [rec EXCEPT !.n = @ + 1, !.inputs = @ + 1]
        /\ \/ hist' = hist
           \/ source # "lost" /\ hist' = [hist EXCEPT !.delivered = @ + 1]
     \/ rec' \in Torn("call") /\ hist' = hist
  /\ UNCHANGED <<kind, finishing, gen, leased, writer, t, source, guest, late, runner, disk,
                 man, att, ag, issued, cl>>

Resize ==
  /\ Take("resize") /\ Current /\ require(r) /\ Streams
  /\ \/ Room /\ rec' = [rec EXCEPT !.n = @ + 1]
     \/ rec' \in Torn("call")
  /\ UNCHANGED <<kind, finishing, gen, leased, writer, t, source, guest, late, runner, disk,
                 man, att, ag, issued, cl, hist>>

-----------------------------------------------------------------------------
(***************************************************************************)
(* The end of the loop.  A child machine is paused first, then the source  *)
(* is closed, the child killed, and the recording ended and published.     *)
(***************************************************************************)
Finish ==
  /\ pc = "closing"
  /\ IF kind = "child"
     THEN \E p \in Pauses("loop") : pause(p, t) /\ pc' = IF p.ok THEN "last" ELSE "failing"
     ELSE pc' = "last" /\ UNCHANGED <<guest, late, leased, rec, t, hist>>
  /\ UNCHANGED <<kind, finishing, gen, writer, source, runner, disk, man,
                 inbox, att, ag, issued, cl>>

Last ==
  /\ pc = "last" /\ source' = "closed"
  /\ guest' = IF kind = "child" THEN "off" ELSE guest
  /\ \/ Room /\ pc' = "close" /\ rec' = [rec EXCEPT !.n = @ + 1, !.closed = TRUE]
     \/ pc' = "failing" /\ rec' \in Torn("loop")
  /\ UNCHANGED <<kind, finishing, gen, leased, writer, t, late, runner, disk, man, avars>>

CloseUnsynced ==
  /\ pc = "close" /\ pc' = "persist" /\ disk' = [disk EXCEPT !.files = {"glterm"}]
  /\ UNCHANGED <<kind, finishing, gen, leased, writer, t, source, guest, late, runner, rec,
                 man, avars>>

\* Recording::close(): sync, link, unlink, sync of the directory.
close ==
  /\ \/ pc = "close" /\ pc' = "link" /\ disk' = [disk EXCEPT !.rec = rec]
     \/ pc = "link" /\ pc' = "unlink" /\ disk' = [disk EXCEPT !.files = @ \cup {"glterm"}]
     \/ pc = "unlink" /\ pc' = "dir" /\ disk' = [disk EXCEPT !.files = {"glterm"}]
     \/ pc = "dir" /\ pc' = "persist" /\ disk' = [disk EXCEPT !.names = disk.files]
     \/ pc \in {"close", "link", "unlink", "dir"} /\ pc' = "failing" /\ UNCHANGED disk
  /\ UNCHANGED <<kind, finishing, gen, leased, writer, t, source, guest, late, runner, rec,
                 man, avars>>

\* The hash of the recording and the last manifest.
Persist ==
  /\ pc = "persist"
  /\ \/ pc' = "dead" /\ man' = "closed" /\ Exit
     \/ pc' = "failing" /\ man' = man /\ UNCHANGED <<kind, finishing, gen, leased, writer,
                                                   inbox, att, ag, issued, cl>>
  /\ UNCHANGED <<t, source, guest, late, runner, rec, disk, hist>>

\* The handler of every exception of the loop.
Fail ==
  /\ pc = "failing" /\ pc' = "dead"
  /\ guest' = IF kind = "child" THEN "off" ELSE guest
  /\ source' = "closed" /\ man' \in {man, "incomplete"} /\ Exit
  /\ UNCHANGED <<t, late, runner, rec, disk, hist>>

-----------------------------------------------------------------------------
\* The worker is killed: its child dies with it, its descriptors are closed.
Kill ==
  /\ pc \notin {"dead", "gone"} /\ pc' = "dead"
  /\ guest' = IF kind = "child" THEN "off" ELSE guest
  /\ source' = "closed" /\ Exit
  /\ UNCHANGED <<t, late, runner, rec, disk, man, hist>>

Sigterm ==
  /\ pc \notin {"dead", "gone"} /\ ~finishing /\ finishing' = TRUE
  /\ UNCHANGED <<kind, pc, gen, leased, writer, t, evars, avars>>

\* What was not synced may be lost.
Reboot ==
  /\ pc # "gone" /\ pc' = "gone"
  /\ guest' = "off" /\ late' = FALSE /\ runner' = FALSE /\ source' = "closed"
  /\ rec' \in {rec, disk.rec}
  /\ \E f \in {disk.files, disk.names} : disk' = [disk EXCEPT !.files = f, !.rec = rec']
  /\ Exit /\ UNCHANGED <<t, man, hist>>

\* Time goes on without the worker.
Tick ==
  /\ pc = "dead" /\ t.beat <= BeatLimit /\ Pass(t, 1)
  /\ UNCHANGED <<kind, pc, finishing, gen, leased, writer, evars, inbox, att, ag, issued, cl>>

LateCont ==
  /\ late /\ late' = FALSE
  /\ guest' = IF guest = "paused" THEN "running" ELSE guest
  /\ UNCHANGED <<wvars, source, runner, rec, disk, man, avars>>

Ended == IF source = "open" THEN "ended" ELSE source

GuestExits ==
  /\ vm /\ guest # "off" /\ guest' = "off" /\ runner' = FALSE /\ source' = Ended
  /\ UNCHANGED <<wvars, late, rec, disk, man, avars>>

WatchTrusting ==
  /\ runner /\ t.beat > BeatLimit /\ pc # "dead"
  /\ guest' = "off" /\ runner' = FALSE /\ source' = Ended
  /\ UNCHANGED <<wvars, late, rec, disk, man, avars>>

\* The runner container ends the machine when the heartbeat is too old.
Watch ==
  /\ runner /\ t.beat > BeatLimit
  /\ guest' = "off" /\ runner' = FALSE /\ source' = Ended
  /\ UNCHANGED <<wvars, late, rec, disk, man, avars>>

ShellExits ==
  /\ ~vm /\ source = "open" /\ source' = "ended"
  /\ UNCHANGED <<wvars, guest, late, runner, rec, disk, man, avars>>

\* docker_attach() hands over the stream.
HandOver ==
  /\ kind = "docker" /\ att = 0 /\ source = "none" /\ pc \notin {"dead", "gone"} /\ att' = ag.gen
  /\ UNCHANGED <<wvars, evars, inbox, ag, issued, cl, hist>>

(***************************************************************************)
(* Calls of the agent, with its generation.  It releases a machine it      *)
(* holds and renews one it released; a restart raises the generation, and  *)
(* calls sent before it may still be waiting.                              *)
(***************************************************************************)
Call(op, o, takeover) ==
  /\ pc \notin {"dead", "gone"} /\ Len(inbox) < MaxInbox
  /\ inbox' = Append(inbox, [op |-> op, gen |-> ag.gen, owner |-> o, takeover |-> takeover,
                             token |-> IF o \in Owners THEN cl[o] ELSE 0])
  /\ UNCHANGED <<wvars, evars, att, issued, cl, hist>>

AgentCalls ==
  \/ \E op \in {"adopt", "close"} : Call(op, "none", FALSE) /\ ag' = ag
  \/ /\ vm
     /\ \/ ag.mode = "held" /\ Call("release", "none", FALSE) /\ ag' = [ag EXCEPT !.mode = "releasing"]
        \/ ag.mode = "ready" /\ Call("renew", "none", FALSE) /\ ag' = ag
        \/ Call("quiesce", "none", FALSE) /\ ag' = [ag EXCEPT !.mode = "held"]

BrowserCalls ==
  \E o \in Owners :
     /\ \/ \E b \in BOOLEAN : Call("acquire", o, b)
        \/ \E op \in {"renew-writer", "revoke", "release-writer", "input", "resize"} :
             Call(op, o, FALSE)
     /\ ag' = ag

AgentRestart ==
  /\ pc \notin {"dead", "gone"} /\ ag.gen < MaxGen /\ ag' = [gen |-> ag.gen + 1, mode |-> "held"]
  /\ UNCHANGED <<wvars, evars, inbox, att, issued, cl, hist>>

Worker ==
  \/ Start \/ Loop \/ Poll \/ Attach \/ NoCall \/ Stale \/ Adopt \/ Release \/ Renew \/ Quiesce
  \/ CloseCall \/ Acquire \/ RenewWriter \/ Revoke \/ Denied \/ Input \/ Resize \/ Sync
  \/ Finish \/ Last \/ close \/ Persist \/ Fail

Next ==
  \/ Worker \/ Kill \/ Sigterm \/ Reboot \/ Tick \/ LateCont \/ GuestExits \/ Watch \/ ShellExits
  \/ HandOver \/ AgentCalls \/ BrowserCalls \/ AgentRestart

Spec == Init /\ [][Next]_vars
FairSpec == Spec /\ WF_vars(Tick) /\ WF_vars(Watch)

-----------------------------------------------------------------------------

\* Types of all variables.
TypeOK ==
  /\ kind \in Kinds /\ finishing \in BOOLEAN /\ leased \in BOOLEAN
  /\ gen \in 1 .. ag.gen /\ ag \in [gen : 1 .. MaxGen, mode : {"held", "releasing", "ready"}]
  /\ t \in [lease : 0 .. LeaseTicks, writer : 0 .. WriterTicks, beat : 0 .. BeatLimit + 1]
  /\ writer.token \in 0 .. issued /\ writer.owner \in Owners \cup {"none"}
  /\ source \in {"none", "open", "ended", "closed", "lost"}
  /\ guest \in {"paused", "running", "off"} /\ late \in BOOLEAN /\ runner \in BOOLEAN
  /\ rec.n \in disk.rec.n .. Budget /\ rec.inputs \in 0 .. rec.n
  /\ rec.torn \in {"none", "call", "loop"}
  /\ disk.files \subseteq {"partial", "glterm"} /\ man \in {"none", "active", "closed", "incomplete"}
  /\ Len(inbox) <= MaxInbox /\ att \in 0 .. MaxGen /\ issued \in 0 .. MaxToken

\* Once the head of the loop has looked at the lease, a machine runs, or may be
\* about to, only under a lease with time left: also when QMP failed with the
\* command carried out, and with calls of an earlier agent still arriving.
GuestIsLeased ==
  pc = "poll" /\ (guest = "running" \/ late) => leased /\ t.lease > 0

\* After an adoption that was confirmed, the machine runs, or may be about to,
\* only if the adopting controller released it: not by a cont of a predecessor
\* that QEMU had yet to execute when the adoption paused the machine.
AdoptionFences ==
  hist.adopted = gen /\ (guest = "running" \/ late) => hist.freed = gen

\* No input reaches the source under a token that was superseded, revoked,
\* given back, fenced by an adoption, or expired.
InputIsFenced ==
  [][hist'.delivered > hist.delivered => r.token > hist.fence]_vars

\* Whatever was written to the source has a whole record in the recording (its
\* bytes, or with recordInput off their number): not one that was refused for
\* the budget, and not one whose own write was cut short.
RecordedFirst == pc # "gone" => hist.delivered <= rec.inputs

\* A manifest that says closed vouches for a published recording that ends with
\* its last record, after a reboot too, and whose output has no record cut short:
\* a failed write of the loop ends in the handler, which never says closed.  (The
\* record of a call may be cut short in it: the loop goes on after that one.)
ClosedIsDurable ==
  man = "closed" => "glterm" \in disk.files /\ rec.closed /\ rec.torn # "loop"

\* Whatever ends the worker, its machine does not outlive it.
GuestFollowsWorker == pc = "dead" ~> guest = "off"
=============================================================================
