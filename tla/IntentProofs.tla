---------------------------- MODULE IntentProofs ----------------------------
(***************************************************************************)
(* Nothing exists on the host that the journal on disk does not name.      *)
(*                                                                         *)
(* NoOrphans speaks of the disk alone.  What makes it inductive is that    *)
(* memory names everything as well (a later commit writes memory to disk), *)
(* and what the worker knows at the places between an intent and its       *)
(* effect, and between a removal and its record.                           *)
(***************************************************************************)
EXTENDS EngineProofs

(***************************************************************************)
(* The invariant: resources, capture workers, queueing disciplines.        *)
(***************************************************************************)
ResPlaces == {"prepare", "prepared", "removed"}
ResInv ==
  /\ \A x \in ext : Journaled(st.res[x[1]][x[2]]) /\ Journaled(disk.res[x[1]][x[2]])
  /\ pc \in {"prepare", "prepared"} =>
       Journaled(st.res[run][slot]) /\ Journaled(disk.res[run][slot])
  /\ pc = "removed" => <<run, slot>> \notin ext

PlanPlaces == {"epoch", "arm"}
PlanInv ==
  /\ \A w \in running : w \in Planned(st, w[1]) /\ w \in Planned(disk, w[1])
  /\ pc = "epoch" => \A w \in running : w[1] # run
  /\ pc = "arm" => Planned(st, run) \subseteq Planned(disk, run)

\* A fault id is applied by one job at most, so a queued job's discipline is
\* not in the kernel yet.
Applies(s, j) == s.job[j].is # "absent" /\ s.job[j].op = "fault.apply"
OneApply(s) ==
  /\ \A j \in JobIds : Applies(s, j) => s.flt[s.job[j].flt] # "none"
  /\ \A i, j \in JobIds : Applies(s, i) /\ Applies(s, j) /\ s.job[i].flt = s.job[j].flt => i = j
Unapplied == \A j \in JobIds : Applies(st, j) /\ st.job[j].is = "queued" => st.job[j].flt \notin qdisc

DropPlaces == {"expired", "cleared", "undone"}
LanePlaces == FaultJob \cup DropPlaces
LaneBase ==
  /\ \A f \in qdisc : st.flt[f] \in InKernel /\ disk.flt[f] \in InKernel
  /\ OneApply(st) /\ OneApply(disk)
  /\ pc # "off" => Unapplied
LaneAt ==
  /\ pc \in FaultJob => tgt = This.flt /\ This.op \in FaultOps /\ This.is # "queued"
  /\ pc = "verdict" => This.op = "fault.apply"
  /\ pc = "fault" /\ This.op = "fault.apply" => tgt \notin qdisc
  /\ pc = "effect" => st.flt[tgt] \in InKernel /\ disk.flt[tgt] \in InKernel
  /\ pc \in DropPlaces \/ (pc = "settle" /\ This.op = "fault.remove") => tgt \notin qdisc
LaneInv == LaneBase /\ LaneAt

IntentInv == ResInv /\ PlanInv /\ LaneInv

(***************************************************************************)
(* Journals that name the same things, and steps that add nothing.         *)
(***************************************************************************)
SamePlan(s, t) == t.epoch = s.epoch /\ t.planned = s.planned
\* The faults are the same, and no fault.apply job is new or queued again.
Tame(s, t) ==
  /\ t.flt = s.flt
  /\ \A j \in JobIds : Applies(t, j) =>
       /\ Applies(s, j) /\ t.job[j].flt = s.job[j].flt
       /\ t.job[j].is = "queued" => s.job[j].is = "queued"
Calm(s, t) == t.res = s.res /\ SamePlan(s, t) /\ Tame(s, t)

LEMMA CalmSame == ASSUME NEW s PROVE Calm(s, s)
BY Zenon DEF Calm, SamePlan, Tame

LEMMA OneApplyTame ==
  ASSUME NEW s, NEW t, OneApply(s), Tame(s, t)
  PROVE  OneApply(t)
BY Zenon DEF OneApply, Tame

LEMMA ResQuiet ==
  ASSUME ResInv, ext' \subseteq ext, st'.res \in {st.res, disk.res}, disk'.res \in {st.res, disk.res},
         pc' \notin ResPlaces \/ (pc' = pc /\ UNCHANGED <<run, slot>>)
  PROVE  ResInv'
BY Zenon DEF ResInv, ResPlaces

LEMMA PlanQuiet ==
  (/\ PlanInv
   /\ running' \subseteq running
   /\ SamePlan(st, st') \/ SamePlan(disk, st')
   /\ SamePlan(st, disk') \/ SamePlan(disk, disk')
   /\ pc' \notin PlanPlaces \/ (pc' = pc /\ run' = run /\ SamePlan(st, st')))
  => PlanInv'
<1>PlannedSame. ASSUME NEW s, NEW t, SamePlan(s, t), NEW r
                PROVE  Planned(t, r) = Planned(s, r)
  BY <1>PlannedSame, Zenon DEF SamePlan, Planned
<1> SUFFICES ASSUME PlanInv,
                    running' \subseteq running,
                    SamePlan(st, st') \/ SamePlan(disk, st'),
                    SamePlan(st, disk') \/ SamePlan(disk, disk'),
                    pc' \notin PlanPlaces \/ (pc' = pc /\ run' = run /\ SamePlan(st, st'))
             PROVE  PlanInv'
  OBVIOUS
<1>1. \A w \in running' : w \in Planned(st', w[1]) /\ w \in Planned(disk', w[1])
  BY <1>PlannedSame DEF PlanInv
<1>2. (pc' = "epoch" => \A w \in running' : w[1] # run')
  BY Zenon DEF PlanInv, PlanPlaces
<1>3. (pc' = "arm" => Planned(st', run') \subseteq Planned(disk', run'))
  BY <1>PlannedSame DEF PlanInv, PlanPlaces
<1> QED  BY <1>1, <1>2, <1>3, Zenon DEF PlanInv

\* The worker stays where it is, with the job it has.
SteadyJob ==
  /\ pc' = pc /\ UNCHANGED <<tgt, job>>
  /\ pc \in FaultJob => /\ This'.op = This.op /\ This'.flt = This.flt
                        /\ This'.is = "queued" => This.is = "queued"

LEMMA LaneQuiet ==
  ASSUME LaneInv, qdisc' \subseteq qdisc, pc' # "off" => pc # "off",
         Tame(st, st') \/ (Tame(disk, st') /\ pc' = "off"), Tame(st, disk') \/ Tame(disk, disk'),
         pc' \notin LanePlaces \/ (SteadyJob /\ Tame(st, st'))
  PROVE  LaneInv'
<1>1. \A f \in qdisc' : st'.flt[f] \in InKernel /\ disk'.flt[f] \in InKernel
  BY Zenon DEF LaneInv, LaneBase, LaneAt, Tame
<1>2. OneApply(st)' /\ OneApply(disk)'
  BY OneApplyTame, Zenon DEF LaneInv, LaneBase, LaneAt
<1>3. pc' # "off" => Unapplied'
  BY Zenon DEF LaneInv, LaneBase, LaneAt, Tame, Unapplied
<1>4. CASE pc' \notin LanePlaces
  BY <1>1, <1>2, <1>3, <1>4, Zenon DEF LaneInv, LaneBase, LaneAt, LanePlaces,
      FaultJob, DropPlaces
<1>5. CASE SteadyJob /\ Tame(st, st') /\ pc \in LanePlaces
  <2>1. /\ pc' \in FaultJob => tgt' = This'.flt /\ This'.op \in FaultOps /\ This'.is # "queued"
        /\ pc' = "verdict" => This'.op = "fault.apply"
        /\ pc' = "fault" /\ This'.op = "fault.apply" => tgt' \notin qdisc'
    BY <1>5, Zenon DEF SteadyJob, LaneInv, LaneBase, LaneAt, FaultJob
  <2>2. pc' = "effect" => st'.flt[tgt'] \in InKernel /\ disk'.flt[tgt'] \in InKernel
    BY <1>5, Zenon DEF SteadyJob, LaneInv, LaneBase, LaneAt, Tame
  <2>3. pc' \in DropPlaces \/ (pc' = "settle" /\ This'.op = "fault.remove") => tgt' \notin qdisc'
    BY <1>5, Zenon DEF SteadyJob, LaneInv, LaneBase, LaneAt, FaultJob
  <2> QED  BY <1>1, <1>2, <1>3, <2>1, <2>2, <2>3, Zenon DEF LaneInv, LaneBase, LaneAt
<1> QED  BY <1>4, <1>5, Zenon DEF SteadyJob

Marked == ResPlaces \cup PlanPlaces \cup LanePlaces
CalmJournal ==
  /\ Calm(st, st') \/ (Calm(disk, st') /\ pc' = "off")
  /\ Calm(st, disk') \/ Calm(disk, disk')
Shrinks == ext' \subseteq ext /\ running' \subseteq running /\ qdisc' \subseteq qdisc

LEMMA CalmStep ==
  ASSUME IntentInv, CalmJournal, Shrinks, pc' # "off" => pc # "off", pc' \notin Marked
  PROVE  IntentInv'
<1>1. ResInv'
  BY ResQuiet, Zenon DEF IntentInv, CalmJournal, Calm, Shrinks, Marked
<1>2. PlanInv'
  BY PlanQuiet, Zenon DEF IntentInv, CalmJournal, Calm, Shrinks, Marked
<1>3. LaneInv'
  BY LaneQuiet, Zenon DEF IntentInv, CalmJournal, Calm, Shrinks, Marked
<1> QED  BY <1>1, <1>2, <1>3, Zenon DEF IntentInv

LEMMA CalmCall ==
  ASSUME IntentInv, UNCHANGED journal, Shrinks, pc # "off", pc' \notin Marked
  PROVE  IntentInv'
BY CalmSame, CalmStep, Zenon DEF CalmJournal, journal

(***************************************************************************)
(* Mutations of the journal that add nothing.                              *)
(***************************************************************************)
SameNames(s, t) ==
  t.res = s.res /\ t.epoch = s.epoch /\ t.planned = s.planned /\ t.flt = s.flt

JobSet(s, t, j, v) ==
  /\ SameNames(s, t)
  /\ t.job[j].is = v /\ t.job[j].op = s.job[j].op /\ t.job[j].flt = s.job[j].flt
  /\ \A i \in JobIds \ {j} : t.job[i] = s.job[i]
\* The fields a new job and key leave alone, and the job that enters.
NewJob(s, t, j, op, f) ==
  /\ SameNames(s, t)
  /\ t.job[j].is = "queued" /\ t.job[j].op = op /\ t.job[j].flt = f
  /\ \A i \in JobIds \ {j} : t.job[i] = s.job[i]
(***************************************************************************)
(* Steps that add nothing.                                                 *)
(***************************************************************************)
Free ==
  {"off", "loop", "exited", "catch", "failed", "preflight", "next", "stopold", "plan", "planned",
   "armed", "converge", "activate", "status", "release", "ready", "recheck", "quiesce", "stopped",
   "destroy", "compensate", "hold", "clear", "close", "closed", "remove", "destroyed",
   "cancelled", "observe", "finish", "m5", "expire", "m5fail", "m5hold", "m5note", "m5err",
   "renew", "mcatch", "mfail", "recover", "adopt", "bquiesce", "adopted", "flt"}

(***************************************************************************)
(* Resources: the intent is on disk before prepare is called, and stays    *)
(* there until remove has returned.                                        *)
(***************************************************************************)
ResourceSet(s, t, r, i, v) ==
  /\ t.res[r][i] = v
  /\ \A q \in Runs, n \in Slots : q # r \/ n # i => t.res[q][n] = s.res[q][n]
  /\ SamePlan(s, t) /\ Tame(s, t)
(***************************************************************************)
(* Capture workers: the plan of an epoch is on disk before its workers are *)
(* launched, and the epoch changes only when they are gone.                *)
(***************************************************************************)

\* Both mutations of a plan leave the other runs, the resources and the faults.
PlanOnly(s, t, r) ==
  /\ \A q \in Runs \ {r} : t.epoch[q] = s.epoch[q] /\ t.planned[q] = s.planned[q]
  /\ t.res = s.res /\ Tame(s, t)
(***************************************************************************)
(* Queueing disciplines: the fault is applying on disk before tc runs, and *)
(* is recorded as removed only after tc has removed it.                    *)
(***************************************************************************)
\* A journal that may replace st without leaving a discipline unnamed.
LaneFit(t) ==
  /\ t.res = st.res /\ SamePlan(st, t) /\ OneApply(t)
  /\ \A f \in qdisc : t.flt[f] \in InKernel
  /\ \A j \in JobIds : Applies(t, j) =>
       /\ Applies(st, j) /\ t.job[j].flt = st.job[j].flt
       /\ t.job[j].is = "queued" => st.job[j].is = "queued"

FaultSet(s, t, f, v) ==
  /\ t.flt[f] = v /\ \A g \in Faults \ {f} : t.flt[g] = s.flt[g]
  /\ t.res = s.res /\ SamePlan(s, t) /\ t.job = s.job

(***************************************************************************)
(* work() takes a job, the constructor starts over, the process ends.      *)
(***************************************************************************)
(***************************************************************************)
(* Requests.                                                               *)
(***************************************************************************)
(***************************************************************************)
(* The theorem.                                                            *)
(***************************************************************************)
LEMMA InitIntent ==
  ASSUME Init
  PROVE  IntentInv
<1>1. ext = {} /\ running = {} /\ qdisc = {} /\ pc = "loop"
      /\ st = EmptyJournal /\ disk = EmptyJournal
  BY Zenon DEF Init
<1>2. \A j \in JobIds : EmptyJournal.job[j].is = "absent"
  BY ZenonT(30) DEF EmptyJournal, NoJob
<1>3. ResInv /\ PlanInv
  BY <1>1, ZenonT(30) DEF ResInv, PlanInv
<1>4. LaneBase
  BY <1>1, <1>2, ZenonT(30) DEF LaneBase, OneApply, Applies, Unapplied
<1>5. LaneAt
  BY <1>1, Zenon DEF LaneAt, FaultJob, DropPlaces
<1> QED  BY <1>3, <1>4, <1>5, Zenon DEF IntentInv, LaneInv

LEMMA NextIntent ==
  TypeInv /\ IntentInv /\ [Next]_vars => IntentInv'
<1>CalmTrans. ASSUME NEW s, NEW t, NEW u, Calm(s, t), Calm(t, u)
              PROVE  Calm(s, u)
  BY <1>CalmTrans, Zenon DEF Calm, SamePlan, Tame
\* A step that does not move the worker.
<1>SteadyStep.
    ASSUME IntentInv, Calm(st, st'), Calm(st, disk') \/ Calm(disk, disk'), Shrinks,
           SteadyJob, UNCHANGED <<run, slot>>
    PROVE  IntentInv'
  <2> USE <1>SteadyStep
  <2>1. ResInv'
    BY ResQuiet, Zenon DEF IntentInv, Calm, Shrinks, SteadyJob
  <2>2. PlanInv'
    BY PlanQuiet, Zenon DEF IntentInv, Calm, Shrinks, SteadyJob
  <2>3. LaneInv'
    BY LaneQuiet, Zenon DEF IntentInv, Calm, Shrinks, SteadyJob
  <2> QED  BY <2>1, <2>2, <2>3, Zenon DEF IntentInv
<1>NamesCalm. ASSUME NEW s, NEW t, SameNames(s, t), t.job = s.job
              PROVE  Calm(s, t)
  BY <1>NamesCalm, Zenon DEF SameNames, Calm, SamePlan, Tame, Applies
<1>CalmFields.
    ASSUME NEW s \in Journal, NEW r, NEW v
    PROVE  /\ Calm(s, SetState(s, r, v)) /\ Calm(s, SetCov(s, r, v)) /\ Calm(s, Bump(s, r))
           /\ Calm(s, NewGeneration(s, r)) /\ Calm(s, NewRun(s, r))
  <2> USE <1>CalmFields
  <2>1. SameNames(s, SetState(s, r, v)) /\ SetState(s, r, v).job = s.job
    BY Zenon DEF SameNames, SetState, Journal
  <2>2. SameNames(s, SetCov(s, r, v)) /\ SetCov(s, r, v).job = s.job
    BY Zenon DEF SameNames, SetCov, Journal
  <2>3. SameNames(s, Bump(s, r)) /\ Bump(s, r).job = s.job
    BY Zenon DEF SameNames, Bump, Journal
  <2>4. SameNames(s, NewGeneration(s, r)) /\ NewGeneration(s, r).job = s.job
    BY Zenon DEF SameNames, NewGeneration, Journal
  <2>5. SameNames(s, NewRun(s, r)) /\ NewRun(s, r).job = s.job
    BY Zenon DEF SameNames, NewRun, Journal
  <2> QED  BY <2>1, <2>2, <2>3, <2>4, <2>5, <1>NamesCalm, Zenon
<1>FreeUnmarked. \A p \in Free : p \notin Marked
  BY DEF Free, Marked, ResPlaces, PlanPlaces, LanePlaces, FaultJob, DropPlaces
<1>SetFaultFields. ASSUME NEW s \in Journal, NEW f \in Faults, NEW v
                   PROVE  FaultSet(s, SetFault(s, f, v), f, v)
  BY <1>SetFaultFields, Zenon DEF FaultSet, SetFault, Journal, SamePlan
<1>FreeLane. ASSUME pc' \in Free
             PROVE  LaneAt'
  <2> USE <1>FreeLane
  <2>1. pc' \notin LanePlaces
    BY <1>FreeUnmarked, Zenon DEF Marked
  <2> QED  BY <2>1, Zenon DEF LaneAt, LanePlaces, FaultJob, DropPlaces
<1>BootIntent. TypeInv /\ IntentInv /\ Boot => IntentInv'
  \* What the constructor reads has no queued job.
  <2>CalmInterrupted.
      ASSUME NEW s \in Journal
      PROVE  Calm(s, Interrupted(s)) /\ \A j \in JobIds : Interrupted(s).job[j].is # "queued"
    <3> USE <2>CalmInterrupted
    <3> DEFINE t == Interrupted(s)
    <3>1. /\ SameNames(s, t)
          /\ t.job = [j \in JobIds |-> IF Pending(s, j) THEN [s.job[j] EXCEPT !.is = "failed"]
                                       ELSE s.job[j]]
      BY Zenon DEF Interrupted, Journal, SameNames
    <3>2. s.job \in [JobIds -> Jobs]
      BY Zenon DEF Journal
    <3> HIDE DEF t
    <3>3. ASSUME NEW j \in JobIds
          PROVE  /\ t.job[j].is # "queued" /\ t.job[j].op = s.job[j].op /\ t.job[j].flt = s.job[j].flt
                 /\ t.job[j].is # "absent" => s.job[j].is # "absent"
      <4>1. CASE Pending(s, j)
        <5>1. t.job[j] = [s.job[j] EXCEPT !.is = "failed"] /\ s.job[j] \in Jobs
          BY <3>1, <3>2, <4>1, Zenon
        <5> QED  BY <4>1, <5>1, Zenon DEF Jobs, Pending
      <4>2. CASE ~Pending(s, j)
        BY <3>1, <4>2, Zenon DEF Pending
      <4> QED  BY <4>1, <4>2, Zenon
    <3>4. Calm(s, t)
      BY <3>1, <3>3, Zenon DEF Calm, SamePlan, Tame, SameNames, Applies
    <3> QED  BY <3>3, <3>4, Zenon DEF t
  <2> SUFFICES ASSUME TypeInv, IntentInv, Boot PROVE IntentInv'
    OBVIOUS
  <2>1. PICK new : new = Interrupted(disk)
    OBVIOUS
  <2>2. Save(new, "recover", "off") /\ UNCHANGED <<ext, running, qdisc>>
    BY <2>1, Zenon DEF Boot, world, captures
  <2>3. Calm(disk, new) /\ \A j \in JobIds : new.job[j].is # "queued"
    BY <2>1, Parts, <2>CalmInterrupted, Zenon DEF Good
  <2>4. /\ pc' \in {"recover", "off"} /\ st' \in {new, disk} /\ disk' \in {new, disk}
        /\ pc' # "off" => st' = new
    BY <2>2, Zenon DEF Save
  <2>5. Calm(disk, st') /\ Calm(disk, disk')
    BY <2>3, <2>4, CalmSame, Zenon
  <2>6. pc' \in Free
    BY <2>4, Zenon DEF Free
  <2>7. pc' \notin ResPlaces /\ pc' \notin PlanPlaces
    BY <2>6, <1>FreeUnmarked, Zenon DEF Marked
  <2>8. ResInv'
    BY <2>2, <2>5, <2>7, ResQuiet, Zenon DEF IntentInv, Calm
  <2>9. PlanInv'
    BY <2>2, <2>5, <2>7, PlanQuiet, Zenon DEF IntentInv, Calm
  <2>10. OneApply(st)' /\ OneApply(disk)'
    BY <2>5, OneApplyTame, Zenon DEF IntentInv, LaneInv, LaneBase, Calm
  <2>11. \A f \in qdisc' : st'.flt[f] \in InKernel /\ disk'.flt[f] \in InKernel
    BY <2>2, <2>5, ZenonT(30) DEF IntentInv, LaneInv, LaneBase, Calm, Tame
  <2>12. pc' # "off" => Unapplied'
    BY <2>3, <2>4, Zenon DEF Unapplied
  <2>13. LaneAt'
    BY <2>6, <1>FreeLane, Zenon
  <2> QED  BY <2>8, <2>9, <2>10, <2>11, <2>12, <2>13, Zenon DEF IntentInv, LaneInv,
      LaneBase
<1>DiesIntent. ASSUME IntentInv, Dies
               PROVE  IntentInv'
  <2> USE <1>DiesIntent
  <2>1. Calm(disk, disk)
    BY CalmSame, Zenon
  <2>2. CalmJournal /\ Shrinks /\ pc' = "off"
    BY <2>1, Zenon DEF Dies, CalmJournal, Shrinks, world, captures
  <2>3. pc' \notin Marked
    BY <2>2, <1>FreeUnmarked, Zenon DEF Free
  <2> QED  BY <2>2, <2>3, CalmStep, Zenon
\* Steps of others: the worker stays, and a capture worker may be lost.
<1>Still.
    ASSUME IntentInv, UNCHANGED <<st, disk, pc, frame, ext, qdisc>>, running' \subseteq running
    PROVE  IntentInv'
  <2> USE <1>Still
  <2>1. Calm(st, st') /\ Calm(disk, disk')
    BY CalmSame, Zenon
  <2>2. Shrinks /\ SteadyJob /\ UNCHANGED <<run, slot>>
    BY Zenon DEF Shrinks, SteadyJob, This, frame
  <2> QED  BY <2>1, <2>2, <1>SteadyStep, Zenon
<1>DispatchIntent. TypeInv /\ IntentInv /\ Dispatch => IntentInv'
  <2>CalmCancel.
      ASSUME NEW s \in Journal, NEW j \in JobIds
      PROVE  LET t == [s EXCEPT !.job[j].cancel = TRUE]
             IN /\ Calm(s, t)
                /\ \A i \in JobIds : /\ t.job[i].is = s.job[i].is /\ t.job[i].op = s.job[i].op
                                     /\ t.job[i].flt = s.job[i].flt
    <3> USE <2>CalmCancel
    <3> DEFINE t == [s EXCEPT !.job[j].cancel = TRUE]
    <3>1. t.job = [s.job EXCEPT ![j] = [@ EXCEPT !.cancel = TRUE]]
          /\ SameNames(s, t)
      BY Zenon DEF Journal, SameNames
    <3>2. s.job \in [JobIds -> Jobs]
      BY Zenon DEF Journal
    <3>3. t.job[j] = [s.job[j] EXCEPT !.cancel = TRUE] /\ \A i \in JobIds \ {j} : t.job[i] = s.job[i]
      BY <3>1, <3>2, Zenon
    <3>4. t.job[j].is = s.job[j].is /\ t.job[j].op = s.job[j].op /\ t.job[j].flt = s.job[j].flt
      BY <3>2, <3>3 DEF Jobs
    <3> HIDE DEF t
    <3>5. \A i \in JobIds : /\ t.job[i].is = s.job[i].is /\ t.job[i].op = s.job[i].op
                            /\ t.job[i].flt = s.job[i].flt
      BY <3>3, <3>4, Zenon
    <3>6. Calm(s, t)
      BY <3>1, <3>5, Zenon DEF Calm, SamePlan, Tame, SameNames, Applies
    <3> QED  BY <3>5, <3>6, Zenon DEF t
  <2>EnterFields. ASSUME NEW s \in Journal, NEW k, NEW j \in JobIds, NEW req, NEW r, NEW f
                  PROVE  NewJob(s, Enter(k, j, req, s, r, f), j, req.op, f)
    <3> USE <2>EnterFields
    <3> DEFINE t == Enter(k, j, req, s, r, f)
               n == [is |-> "queued", op |-> req.op, run |-> r, rev |-> s.rev[r], flt |-> f,
                     cancel |-> FALSE]
    <3>1. t.job = [s.job EXCEPT ![j] = n]
          /\ SameNames(s, t)
      BY Zenon DEF Enter, Journal, SameNames
    <3>2. n.is = "queued" /\ n.op = req.op /\ n.flt = f
      OBVIOUS
    <3> HIDE DEF n, t
    <3>3. t.job[j] = n /\ \A i \in JobIds \ {j} : t.job[i] = s.job[i]
      BY <3>1, Zenon DEF Journal
    <3>4. NewJob(s, t, j, req.op, f)
      BY <3>1, <3>2, <3>3, Zenon DEF NewJob
    <3> QED  BY <3>4, Zenon DEF t
  <2>CalmEnter.
      ASSUME NEW s \in Journal, NEW k, NEW j \in JobIds, NEW req, req.op # "fault.apply", NEW r, NEW f
      PROVE  Calm(s, Enter(k, j, req, s, r, f))
    <3> USE <2>CalmEnter
    <3> DEFINE t == Enter(k, j, req, s, r, f)
    <3>1. NewJob(s, t, j, req.op, f)
      BY <2>EnterFields, Zenon
    <3> HIDE DEF t
    <3>2. Calm(s, t)
      BY <3>1, Zenon DEF NewJob, Calm, SamePlan, Tame, SameNames, Applies
    <3> QED  BY <3>2, Zenon DEF t
  \* A new job is not the one the worker has.
  <2>EnteredSteady. ASSUME TypeInv, NEW t, NEW j \in JobIds, st.job[j].is = "absent",
                           \A i \in JobIds \ {j} : t.job[i] = st.job[i],
                           st' = t, UNCHANGED <<pc, frame>>
                    PROVE  SteadyJob /\ (pc \in FaultJob => This' = This)
    <3> USE <2>EnteredSteady
    <3>1. pc \in FaultJob => job \in JobIds /\ st.job[job].is # "absent"
      BY Faulting, Jobbing, Zenon
    <3>2. pc \in FaultJob => This' = This
      BY <3>1, Zenon DEF This, frame
    <3> QED  BY <3>2, Zenon DEF SteadyJob, frame
  <2>AdmittedIntent.
      ASSUME TypeInv, IntentInv, NEW k, NEW j \in JobIds, Admissible(k, j),
             NEW s \in Journal, Calm(st, s), s.job = st.job,
             NEW req, req.op # "fault.apply", NEW r, NEW f,
             CommitAndReply(k, Enter(k, j, req, s, r, f)), UNCHANGED <<pc, frame, world, due>>
      PROVE  IntentInv'
    <3> USE <2>AdmittedIntent
    <3>1. PICK t : t = Enter(k, j, req, s, r, f)
      OBVIOUS
    <3>2. st' = t /\ disk' \in {t, disk}
      BY <3>1, ZenonT(30) DEF CommitAndReply
    <3>3. Calm(s, t) /\ NewJob(s, t, j, req.op, f)
      BY <3>1, <2>CalmEnter, <2>EnterFields, Zenon
    <3>4. Calm(st, t) /\ Calm(disk, disk)
      BY <3>3, <1>CalmTrans, CalmSame, Zenon
    <3>5. Calm(st, st') /\ (Calm(st, disk') \/ Calm(disk, disk'))
      BY <3>2, <3>4, Zenon
    <3>6. Shrinks /\ UNCHANGED <<run, slot>>
      BY ZenonT(30) DEF Shrinks, world, captures, frame
    <3>7. st.job[j].is = "absent"
      BY ZenonT(30) DEF Admissible, Fresh
    <3>8. \A i \in JobIds \ {j} : t.job[i] = st.job[i]
      BY <3>3, ZenonT(30) DEF NewJob
    <3>9. SteadyJob
      BY <3>2, <3>7, <3>8, <2>EnteredSteady, Zenon
    <3> QED  BY <3>5, <3>6, <3>9, <1>SteadyStep, ZenonT(30)
  \* A fault id is new, so nothing in the kernel or the journal has it.
  <2>ApplyIntent.
      ASSUME TypeInv, IntentInv, NEW k \in Keys, NEW j \in JobIds, NEW f \in Faults, FaultApply(k, j, f)
      PROVE  IntentInv'
    <3> USE <2>ApplyIntent
    <3> DEFINE q == SetFault(st, f, "queued")
               s == Bump(q, Owner[f])
               req == OperateRequest("fault.apply", Owner[f], NoFault)
    <3>1. /\ st.flt[f] = "none" /\ st.job[j].is = "absent" /\ pc # "off"
          /\ CommitAndReply(k, Enter(k, j, req, s, Owner[f], f)) /\ UNCHANGED <<pc, frame, world>>
      BY Zenon DEF FaultApply, Admissible, Fresh, Serving
    <3>2. st \in Journal /\ qdisc \subseteq Faults /\ LaneBase
      BY Parts, Zenon DEF Good, HostOK, IntentInv, LaneInv
    <3>3. q \in Journal
      BY <3>2, SetFaultType, Zenon DEF FaultStates
    <3>4. FaultSet(st, q, f, "queued")
      BY <3>2, <1>SetFaultFields, Zenon
    <3>5. req.op = "fault.apply"
      BY ZenonT(30) DEF OperateRequest
    <3> HIDE DEF q, req
    <3>6. s \in Journal /\ SameNames(q, s) /\ s.job = q.job
      BY <3>3, BumpType, Zenon DEF Bump, Journal, SameNames
    <3>7. PICK t : t = Enter(k, j, req, s, Owner[f], f)
      OBVIOUS
    <3> HIDE DEF s
    <3>8. NewJob(s, t, j, "fault.apply", f)
      BY <3>5, <3>6, <3>7, <2>EnterFields, ZenonT(30)
    <3>n. t.job[j].is = "queued" /\ t.job[j].op = "fault.apply" /\ t.job[j].flt = f
      BY <3>8, ZenonT(30) DEF NewJob
    <3>m. SameNames(q, t) /\ q.job = st.job
      BY <3>4, <3>6, <3>8, ZenonT(30) DEF NewJob, SameNames, FaultSet
    <3>9. /\ t.flt[f] = "queued" /\ \A g \in Faults \ {f} : t.flt[g] = st.flt[g]
          /\ t.res = st.res /\ SamePlan(st, t)
          /\ \A i \in JobIds \ {j} : t.job[i] = st.job[i]
      <4>1. t.flt[f] = "queued" /\ \A g \in Faults \ {f} : t.flt[g] = st.flt[g]
        BY <3>4, <3>m, ZenonT(30) DEF SameNames, FaultSet
      <4>2. t.res = st.res /\ SamePlan(st, t)
        BY <3>4, <3>m, Zenon DEF SameNames, FaultSet, SamePlan
      <4>3. \A i \in JobIds \ {j} : t.job[i] = st.job[i]
        BY <3>6, <3>8, <3>m, ZenonT(30) DEF NewJob
      <4> QED  BY <4>1, <4>2, <4>3, ZenonT(30)
    <3>10. st' = t /\ disk' \in {t, disk} /\ UNCHANGED <<ext, running, qdisc, run, slot, tgt, job, pc>>
      BY <3>1, <3>7, ZenonT(30) DEF CommitAndReply, world, captures, frame
    <3>11. f \notin qdisc
      BY <3>1, <3>2, ZenonT(30) DEF LaneBase, InKernel
    <3>12. \A i \in JobIds \ {j} : Applies(t, i) => Applies(st, i) /\ st.job[i].flt \in Faults \ {f}
      <4>1. \A i \in JobIds : Applies(st, i) => st.job[i].flt \in Faults /\ st.job[i].flt # f
        BY <3>1, <3>2, Parts, ZenonT(30) DEF LaneBase, OneApply, Good, JobsOK, Applies,
            FaultOps
      <4> QED  BY <3>9, <4>1, ZenonT(30) DEF Applies
    <3>13. OneApply(t)
      <4>0. OneApply(st)
        BY <3>2, Zenon DEF LaneBase
      <4>1. ASSUME NEW i \in JobIds, Applies(t, i) PROVE t.flt[t.job[i].flt] # "none"
        <5>1. CASE i = j
          BY <3>n, <3>9, <5>1, ZenonT(30)
        <5>2. CASE i # j
          BY <3>9, <3>12, <4>0, <4>1, <5>2, ZenonT(30) DEF OneApply
        <5> QED  BY <5>1, <5>2, ZenonT(30)
      <4>2. ASSUME NEW i \in JobIds, NEW n \in JobIds, Applies(t, i), Applies(t, n),
                   t.job[i].flt = t.job[n].flt
            PROVE  i = n
        <5>1. CASE i # j /\ n # j
          BY <3>9, <3>12, <4>0, <4>2, <5>1, ZenonT(30) DEF OneApply
        <5>0. \A x \in JobIds : Applies(t, x) /\ t.job[x].flt = f => x = j
          BY <3>9, <3>12, Zenon
        <5>2. CASE i = j
          BY <3>n, <4>2, <5>0, <5>2, Zenon
        <5>3. CASE n = j
          BY <3>n, <4>2, <5>0, <5>3, Zenon
        <5> QED  BY <5>1, <5>2, <5>3, Zenon
      <4> QED  BY <4>1, <4>2, Zenon DEF OneApply
    <3>14. \A g \in qdisc : t.flt[g] \in InKernel
      BY <3>2, <3>9, <3>11, Zenon DEF LaneBase
    <3>15. Unapplied'
      BY <3>1, <3>2, <3>n, <3>9, <3>10, <3>11, <3>12, Zenon DEF LaneBase, Unapplied
    <3>16. LaneBase'
      BY <3>2, <3>10, <3>13, <3>14, <3>15, Zenon DEF LaneBase
    <3>17. pc \in FaultJob => This' = This
      BY <3>1, <3>9, <3>10, <2>EnteredSteady, ZenonT(30)
    <3>18. LaneAt'
      <4>1. LaneAt
        BY Zenon DEF IntentInv, LaneInv
      <4>2. pc = "effect" => t.flt[tgt] \in InKernel /\ disk'.flt[tgt] \in InKernel
        <5>1. pc = "effect" => /\ tgt \in Faults /\ st.flt[tgt] \in InKernel
                               /\ disk.flt[tgt] \in InKernel
          BY <4>1, Faulting, ZenonT(30) DEF LaneAt, FaultJob
        <5> QED  BY <3>1, <3>9, <3>10, <5>1, ZenonT(30) DEF InKernel
      <4> QED  BY <3>10, <3>17, <4>1, <4>2, Zenon DEF LaneAt, FaultJob
    <3>19. ResInv'
      BY <3>9, <3>10, ResQuiet, Zenon DEF IntentInv
    <3>20. SamePlan(disk, disk)
      BY Zenon DEF SamePlan
    <3>21. PlanInv'
      BY <3>9, <3>10, <3>20, PlanQuiet, ZenonT(30) DEF IntentInv
    <3> QED  BY <3>16, <3>18, <3>19, <3>21, Zenon DEF IntentInv, LaneInv
  <2> SUFFICES ASSUME TypeInv, IntentInv, Dispatch PROVE IntentInv'
    OBVIOUS
  <2>0. Good(st) /\ st \in Journal
    BY Parts, Zenon DEF Good
  <2>1. ASSUME NEW k \in Keys, NEW j \in JobIds, NEW r \in Runs, Start(k, j, r)
        PROVE  IntentInv'
    <3>1. NewRun(st, r) \in Journal /\ NewRun(st, r).job = st.job /\ Calm(st, NewRun(st, r))
      BY <2>0, NewRunFollows, SameJobField, <1>CalmFields, ZenonT(30) DEF Follows, Good
    <3>2. StartRequest.op # "fault.apply"
      BY Zenon DEF StartRequest
    <3>3. /\ Admissible(k, j) /\ UNCHANGED <<pc, frame, world, due>>
          /\ CommitAndReply(k, Enter(k, j, StartRequest, NewRun(st, r), r, NoFault))
      BY <2>1, ZenonT(30) DEF Start
    <3> QED  BY <3>1, <3>2, <3>3, <2>AdmittedIntent, ZenonT(30)
  <2>2. ASSUME NEW k \in Keys, NEW j \in JobIds, NEW r \in Runs,
               NEW op \in {"stop", "resume", "destroy", "recover"}, Operate(k, j, r, op)
        PROVE  IntentInv'
    <3>1. Bump(st, r) \in Journal /\ Bump(st, r).job = st.job /\ Calm(st, Bump(st, r))
      BY <2>0, BumpType, SameJobField, <1>CalmFields, ZenonT(30)
    <3>2. OperateRequest(op, r, NoFault).op # "fault.apply"
      BY Zenon DEF OperateRequest
    <3>3. /\ Admissible(k, j) /\ UNCHANGED <<pc, frame, world, due>>
          /\ CommitAndReply(k, Enter(k, j, OperateRequest(op, r, NoFault), Bump(st, r), r, NoFault))
      BY <2>2, ZenonT(30) DEF Operate
    <3> QED  BY <3>1, <3>2, <3>3, <2>AdmittedIntent, ZenonT(30)
  <2>3. ASSUME NEW k \in Keys, NEW j \in JobIds, NEW f \in Faults, FaultRemove(k, j, f)
        PROVE  IntentInv'
    <3> DEFINE s == Bump(st, Owner[f])
               req == OperateRequest("fault.remove", Owner[f], f)
    <3>1. s \in Journal /\ s.job = st.job /\ Calm(st, s)
      BY <2>0, BumpType, SameJobField, <1>CalmFields, ZenonT(30)
    <3>2. req.op # "fault.apply"
      BY ZenonT(30) DEF OperateRequest
    <3>3. /\ Admissible(k, j) /\ UNCHANGED <<pc, frame, world, due>>
          /\ CommitAndReply(k, Enter(k, j, req, s, Owner[f], f))
      BY <2>3, Zenon DEF FaultRemove
    <3> HIDE DEF s, req
    <3> QED  BY <3>1, <3>2, <3>3, <2>AdmittedIntent, ZenonT(30)
  <2>4. ASSUME NEW k \in Keys, NEW x \in Keys, Retry(k, x)
        PROVE  IntentInv'
    <3>1. UNCHANGED <<st, disk, pc, frame, ext, running, qdisc>>
      BY <2>4, Zenon DEF Retry, journal, world, captures
    <3> QED  BY <3>1, <1>Still, Zenon
  <2>5. ASSUME NEW j \in JobIds, Cancel(j)
        PROVE  IntentInv'
    <3>1. PICK t : t = [st EXCEPT !.job[j].cancel = TRUE]
      OBVIOUS
    <3>2. Save(t, pc, pc) /\ UNCHANGED <<frame, world>> /\ pc # "off"
      BY <2>5, <3>1, Zenon DEF Cancel, Serving
    <3>3. Calm(st, t) /\ \A i \in JobIds : /\ t.job[i].is = st.job[i].is
                                           /\ t.job[i].op = st.job[i].op
                                           /\ t.job[i].flt = st.job[i].flt
      BY <2>0, <3>1, <2>CalmCancel
    <3>4. st' = t /\ pc' = pc /\ disk' \in {t, disk}
      BY <3>2, Zenon DEF Save
    <3>5. Calm(st, st') /\ (Calm(st, disk') \/ Calm(disk, disk'))
      BY <3>3, <3>4, CalmSame, Zenon
    <3>6. Shrinks /\ UNCHANGED <<run, slot, tgt, job>>
      BY <3>2, Zenon DEF Shrinks, world, captures, frame
    <3>7. pc \in FaultJob => job \in JobIds
      BY Faulting, Jobbing, Zenon
    <3>8. SteadyJob
      BY <3>3, <3>4, <3>6, <3>7, Zenon DEF SteadyJob, This
    <3> QED  BY <3>5, <3>6, <3>8, <1>SteadyStep, Zenon
  <2> QED  BY <2>1, <2>2, <2>3, <2>4, <2>5, <2>ApplyIntent, Zenon DEF Dispatch
<1>WorkerIntent. TypeInv /\ IntentInv /\ WorkerStep => IntentInv'
  <2>SaveCalm. ASSUME NEW new, Calm(st, new), NEW next, NEW h, Save(new, next, h)
               PROVE  CalmJournal /\ pc' \in {next, h}
    BY <2>SaveCalm, CalmSame, Zenon DEF CalmJournal, Save
  <2>CalmCommit.
      ASSUME IntentInv, NEW new, Calm(st, new), NEW next, NEW h, Save(new, next, h),
             next \notin Marked, h \notin Marked, pc # "off", UNCHANGED <<ext, running, qdisc>>
      PROVE  IntentInv'
    BY <2>CalmCommit, <2>SaveCalm, CalmStep, Zenon DEF Shrinks
  <2>SetJobFields. ASSUME NEW s \in Journal, NEW j \in JobIds, NEW v \in JobStates
                   PROVE  JobSet(s, SetJob(s, j, v), j, v)
    <3> USE <2>SetJobFields
    <3> DEFINE t == SetJob(s, j, v)
    <3>1. t.job = [s.job EXCEPT ![j] = [@ EXCEPT !.is = v]]
          /\ SameNames(s, t)
      BY Zenon DEF Journal, SetJob, SameNames
    <3>2. s.job \in [JobIds -> Jobs]
      BY Zenon DEF Journal
    <3>3. t.job[j] = [s.job[j] EXCEPT !.is = v] /\ \A i \in JobIds \ {j} : t.job[i] = s.job[i]
      BY <3>1, <3>2, Zenon
    <3>4. t.job[j].is = v /\ t.job[j].op = s.job[j].op /\ t.job[j].flt = s.job[j].flt
      BY <3>2, <3>3, Zenon DEF Jobs
    <3> QED  BY <3>1, <3>3, <3>4, Zenon DEF JobSet
  <2>CalmSetJob. ASSUME NEW s \in Journal, NEW j \in JobIds, s.job[j].is # "absent",
                        NEW v \in JobStates \ {"queued"}
                 PROVE  Calm(s, SetJob(s, j, v))
    <3> USE <2>CalmSetJob
    <3> DEFINE t == SetJob(s, j, v)
    <3>1. JobSet(s, t, j, v)
      BY <2>SetJobFields, Zenon
    <3> HIDE DEF t
    <3>2. Calm(s, t)
      BY <3>1, Zenon DEF JobSet, Calm, SamePlan, Tame, SameNames, Applies
    <3> QED  BY <3>2, Zenon DEF t
  <2>Commits. ASSUME IntentInv, NEW new, Calm(st, new), NEW next \in Free, NEW h \in Free,
                     Committing(new, next, h), pc # "off"
              PROVE  IntentInv'
    <3> USE <2>Commits
    <3>1. Save(new, next, h) /\ UNCHANGED <<ext, running, qdisc>>
      BY Zenon DEF Committing, world, captures
    <3> QED  BY <3>1, <1>FreeUnmarked, <2>CalmCommit, Zenon
  <2>Calls.
      ASSUME IntentInv, UNCHANGED <<st, disk>>, ext' \subseteq ext, running' \subseteq running,
             qdisc' \subseteq qdisc, pc # "off", pc' \in Free
      PROVE  IntentInv'
    BY <2>Calls, <1>FreeUnmarked, CalmSame, CalmStep, Zenon DEF CalmJournal, Shrinks
  \* The worker's own commits: the handler of execute() is the catch of work().
  <2>WorkerCommits. ASSUME IntentInv, NEW new, Calm(st, new), NEW next \in Free,
                           Committing(new, next, "catch"), pc # "off"
                    PROVE  IntentInv'
    <3> USE <2>WorkerCommits
    <3>1. "catch" \in Free
      BY Zenon DEF Free
    <3> QED  BY <3>1, <2>Commits, Zenon
  <2>StateSaved. ASSUME TypeInv, IntentInv, NEW v, NEW next \in Free,
                        Committing(SetState(st, run, v), next, "catch"), pc # "off"
                 PROVE  IntentInv'
    <3> USE <2>StateSaved
    <3>1. st \in Journal
      BY Parts, Zenon DEF Good
    <3>2. Calm(st, SetState(st, run, v))
      BY <3>1, <1>CalmFields, Zenon
    <3> QED  BY <3>2, <2>WorkerCommits, Zenon
  <2>StateCommits.
      ASSUME TypeInv, IntentInv, Converge \/ Stopped \/ Destroy \/ Compensate \/ Destroyed
      PROVE  IntentInv'
    <3> USE <2>StateCommits
    <3> DEFINE ends == IF This.op = "start" THEN "cancelled" ELSE "observe"
    <3>0. /\ "activate" \in Free /\ "observe" \in Free /\ "hold" \in Free
          /\ ends \in Free
      BY Zenon DEF Free
    <3>1. CASE Converge
      <4>1. pc # "off" /\ Committing(SetState(st, run, "converging"), "activate", "catch")
        BY <3>1, Zenon DEF Converge
      <4> QED  BY <3>0, <4>1, <2>StateSaved, Zenon
    <3>2. CASE Stopped
      <4>1. pc # "off" /\ Committing(SetState(st, run, "stopped"), "observe", "catch")
        BY <3>2, Zenon DEF Stopped
      <4> QED  BY <3>0, <4>1, <2>StateSaved, Zenon
    <3>3. CASE Destroy
      <4>1. pc # "off" /\ Committing(SetState(st, run, "destroying"), "hold", "catch")
        BY <3>3, Zenon DEF Destroy
      <4> QED  BY <3>0, <4>1, <2>StateSaved, Zenon
    <3>4. CASE Compensate
      <4>1. pc # "off" /\ Committing(SetState(st, run, "compensating"), "hold", "catch")
        BY <3>4, Zenon DEF Compensate
      <4> QED  BY <3>0, <4>1, <2>StateSaved, Zenon
    <3>5. CASE Destroyed
      <4>1. pc # "off" /\ Committing(SetState(st, run, "destroyed"), ends, "catch")
        BY <3>5, Zenon DEF Destroyed
      <4> HIDE DEF ends
      <4> QED  BY <3>0, <4>1, <2>StateSaved, Zenon
    <3> QED  BY <3>1, <3>2, <3>3, <3>4, <3>5, Zenon
  <2>CoverageCommits. ASSUME TypeInv, IntentInv, Armed \/ RecordClosed
                      PROVE  IntentInv'
    <3> USE <2>CoverageCommits
    <3>0. st \in Journal
      BY Parts, Zenon DEF Good
    <3>1. CASE Armed
      <4> DEFINE next == IF This.op = "start" THEN "converge" ELSE "activate"
                 s == SetState(st, run, "armed")
      <4>1. pc # "off" /\ next \in Free /\ Committing(SetCov(s, run, "armed"), next, "catch")
        BY <3>1, Zenon DEF Armed, Free
      <4>2. s \in Journal /\ Calm(st, s)
        BY <3>0, SetStateType, <1>CalmFields, Zenon DEF RunStates
      <4> HIDE DEF next, s
      <4>3. Calm(s, SetCov(s, run, "armed"))
        BY <4>2, <1>CalmFields, Zenon
      <4>4. Calm(st, SetCov(s, run, "armed"))
        BY <4>2, <4>3, <1>CalmTrans, Zenon
      <4> QED  BY <4>1, <4>4, <2>WorkerCommits, Zenon
    <3>2. CASE RecordClosed
      <4>1. AfterClose \in Free
        BY Zenon DEF AfterClose, Free
      <4>2. pc # "off" /\ Committing(SetCov(st, run, ClosedCoverage(st, run)), AfterClose, "catch")
        BY <3>2, Zenon DEF RecordClosed
      <4>3. Calm(st, SetCov(st, run, ClosedCoverage(st, run)))
        BY <3>0, <1>CalmFields, Zenon
      <4> QED  BY <4>1, <4>2, <4>3, <2>WorkerCommits, Zenon
    <3> QED  BY <3>1, <3>2, Zenon
  <2>OutcomeCommits. ASSUME TypeInv, IntentInv, RecordFailure \/ Finish \/ StartCancelled
                     PROVE  IntentInv'
    <3> USE <2>OutcomeCommits
    <3>0. pc \in JobPlaces /\ pc # "off" /\ "loop" \in Free /\ "off" \in Free
      BY Zenon DEF RecordFailure, Finish, StartCancelled, JobPlaces, Free
    <3>1. st \in Journal /\ job \in JobIds /\ st.job[job].is # "absent"
      BY <3>0, Jobbing, Zenon DEF Good
    <3>2. CASE StartCancelled
      <4>1. Committing(SetJob(st, job, "cancelled"), "loop", "catch")
        BY <3>2, Zenon DEF StartCancelled
      <4>2. Calm(st, SetJob(st, job, "cancelled"))
        BY <3>1, <2>CalmSetJob, Zenon DEF JobStates
      <4> QED  BY <3>0, <4>1, <4>2, <2>WorkerCommits, Zenon
    <3>3. CASE RecordFailure
      <4> DEFINE s == SetJob(st, job, "failed")
                 t == SetState(s, run, "reconciling")
      <4>1. s \in Journal /\ Calm(st, s)
        BY <3>1, SetJobType, <2>CalmSetJob, Zenon DEF JobStates
      <4>2. Committing(Failed(s, run), "loop", "off")
        BY <3>3, Zenon DEF RecordFailure
      <4> HIDE DEF s
      <4>3. t \in Journal /\ Calm(s, t)
        BY <4>1, SetStateType, <1>CalmFields, Zenon DEF RunStates
      <4>4. Failed(s, run) = t \/ Failed(s, run) = SetCov(t, run, "incomplete")
        BY Zenon DEF Failed
      <4> HIDE DEF t
      <4>5. Calm(t, SetCov(t, run, "incomplete"))
        BY <4>3, <1>CalmFields, Zenon
      <4>6. Calm(s, Failed(s, run))
        BY <4>3, <4>4, <4>5, <1>CalmTrans
      <4>7. Calm(st, Failed(s, run))
        BY <4>1, <4>6, <1>CalmTrans, Zenon
      <4> QED  BY <3>0, <4>2, <4>7, <2>Commits, Zenon
    <3>4. CASE Finish
      <4> DEFINE s == IF run \in Recording THEN SetCov(st, run, FinalCoverage(st, run)) ELSE st
      <4>1. s \in Journal /\ Calm(st, s) /\ s.job = st.job
        <5>1. FinalCoverage(st, run) \in Coverage
          BY Zenon DEF FinalCoverage, Coverage
        <5>2. SetCov(st, run, FinalCoverage(st, run)).job = st.job
          BY <3>1, Zenon DEF SetCov, Journal
        <5>3. Calm(st, st) /\ Calm(st, SetCov(st, run, FinalCoverage(st, run)))
          BY <3>1, <1>CalmFields, CalmSame, Zenon
        <5> QED  BY <3>1, <5>1, <5>2, <5>3, SetCovType, Zenon
      <4>2. Committing(SetJob(s, job, "succeeded"), "loop", "catch")
        BY <3>4, Zenon DEF Finish
      <4> HIDE DEF s
      <4>3. Calm(s, SetJob(s, job, "succeeded"))
        BY <3>1, <4>1, <2>CalmSetJob, Zenon DEF JobStates
      <4>4. Calm(st, SetJob(s, job, "succeeded"))
        BY <4>1, <4>3, <1>CalmTrans, Zenon
      <4> QED  BY <3>0, <4>2, <4>4, <2>WorkerCommits, Zenon
    <3> QED  BY <3>2, <3>3, <3>4, Zenon
  <2>QuietCalls.
      ASSUME TypeInv, IntentInv,
             \/ WorkerExits \/ CatchQuiesce \/ Observe \/ Preflight \/ PlanCall \/ Release
             \/ StopQuiesce \/ Hold \/ FailureQuiesce \/ Idle \/ MonitorQuiesce \/ RunsReconciled
      PROVE  IntentInv'
    <3> USE <2>QuietCalls
    <3>1. UNCHANGED <<st, disk, ext, running, qdisc>> /\ pc # "off"
      BY Zenon DEF WorkerExits, CatchQuiesce, Observe, Preflight, PlanCall, Calling,
          Release, StopQuiesce,
             Hold, FailureQuiesce, Idle, MonitorQuiesce, RunsReconciled, journal, world, captures
    <3>2. pc' \in Free
      BY Zenon DEF WorkerExits, CatchQuiesce, Observe, Preflight, PlanCall, Calling,
          Release, StopQuiesce,
             Hold, FailureQuiesce, Idle, MonitorQuiesce, RunsReconciled, Free
    <3> QED  BY <3>1, <3>2, <2>Calls, Zenon
  <2>OpeningCalls.
      ASSUME TypeInv, IntentInv, Activate \/ Status \/ Ready \/ Recheck \/ CloseCaptures
      PROVE  IntentInv'
    <3> USE <2>OpeningCalls
    <3>1. CASE Activate
      <4>1. UNCHANGED <<st, disk, ext, running, qdisc>> /\ pc # "off"
        BY <3>1, Zenon DEF Activate, journal, world, captures
      <4>2. pc' \in Free
        BY <3>1, Zenon DEF Activate, Checked, AfterActivate, Free
      <4> QED  BY <4>1, <4>2, <2>Calls, Zenon
    <3>2. CASE Status
      <4>1. UNCHANGED <<st, disk, ext, running, qdisc>> /\ pc # "off"
        BY <3>2, Zenon DEF Status, journal, world, captures
      <4>2. pc' \in Free
        BY <3>2, Zenon DEF Status, Free
      <4> QED  BY <4>1, <4>2, <2>Calls, Zenon
    <3>3. CASE Ready
      <4>1. CASE Committing(SetState(st, run, "ready"), "observe", "catch")
        <5>1. pc # "off" /\ "observe" \in Free
          BY <3>3, Zenon DEF Ready, Free
        <5> QED  BY <4>1, <5>1, <2>StateSaved, Zenon
      <4>2. CASE pc' = Checked("ready") /\ UNCHANGED <<journal, frame, world, due, acked, left>>
        <5>1. pc' \in Free /\ pc # "off"
          BY <3>3, <4>2, Zenon DEF Ready, Checked, Free
        <5> QED  BY <4>2, <5>1, <2>Calls, Zenon DEF journal, world, captures
      <4> QED  BY <3>3, <4>1, <4>2, Zenon DEF Ready
    <3>4. CASE Recheck
      <4>1. UNCHANGED <<st, disk, ext, running, qdisc>> /\ pc # "off"
        BY <3>4, Zenon DEF Recheck, journal, world, captures
      <4>2. pc' \in Free
        BY <3>4, Zenon DEF Recheck, Free
      <4> QED  BY <4>1, <4>2, <2>Calls, Zenon
    <3>5. CASE CloseCaptures
      <4>1. UNCHANGED <<st, disk, ext, qdisc>> /\ pc # "off" /\ running' \subseteq running
        BY <3>5, Zenon DEF CloseCaptures, StopCaptures, StopThrows, journal, captures
      <4>2. pc' \in Free
        BY <3>5, Zenon DEF CloseCaptures, AfterClose, Free
      <4> QED  BY <4>1, <4>2, <2>Calls, Zenon
    <3> QED  BY <3>1, <3>2, <3>3, <3>4, <3>5, Zenon
  <2>Saves. ASSUME IntentInv, NEW new, Calm(st, new), NEW next \in Free, NEW h \in Free,
                   Save(new, next, h), UNCHANGED world, pc # "off"
            PROVE  IntentInv'
    <3> USE <2>Saves
    <3>1. UNCHANGED <<ext, running, qdisc>>
      BY Zenon DEF world, captures
    <3> QED  BY <3>1, <1>FreeUnmarked, <2>CalmCommit, Zenon
  <2>MonitorCommits.
      ASSUME TypeInv, IntentInv, M5Sample \/ FailureNoted \/ M5Caught \/ Renew \/ MonitorFailure
      PROVE  IntentInv'
    <3> USE <2>MonitorCommits
    <3>0. /\ M5Error \in Free /\ M5Continue \in Free
          /\ "renew" \in Free /\ "off" \in Free /\ "loop" \in Free /\ "mcatch" \in Free
      BY DEF M5Error, M5Continue, Free
    <3>1. Calm(st, st)
      BY CalmSame, Zenon
    <3>2. CASE M5Sample
      <4>1. pc # "off" /\ UNCHANGED world
        BY <3>2, Zenon DEF M5Sample
      <4>2. CASE pc' = M5Continue /\ UNCHANGED <<journal, left>>
        BY <3>0, <4>1, <4>2, <2>Calls, Zenon DEF journal, world, captures
      <4>3. CASE Save(st, M5Continue, M5Error)
        BY <3>0, <3>1, <4>1, <4>3, <2>Saves, Zenon
      <4> QED  BY <3>2, <4>2, <4>3, Zenon DEF M5Sample
    <3>3. CASE FailureNoted
      <4> DEFINE next == IF ret = "boot" THEN "flt" ELSE "m5"
      <4>1. next \in Free
        BY Zenon DEF Free
      <4>2. pc # "off" /\ Committing(st, next, M5Error)
        BY <3>3, Zenon DEF FailureNoted
      <4> HIDE DEF next
      <4> QED  BY <3>0, <3>1, <4>1, <4>2, <2>Commits, Zenon
    <3>4. CASE M5Caught
      <4>1. pc # "off" /\ Committing(st, "renew", "off")
        BY <3>4, Zenon DEF M5Caught
      <4> QED  BY <3>0, <3>1, <4>1, <2>Commits, Zenon
    <3>5. CASE Renew
      <4>1. pc # "off" /\ UNCHANGED world
        BY <3>5, Zenon DEF Renew
      <4>2. CASE UNCHANGED journal /\ pc' \in {"loop", "mcatch"}
        <5>1. pc' \in Free
          BY <3>0, <4>2, Zenon
        <5> QED  BY <4>1, <4>2, <5>1, <2>Calls, Zenon DEF journal, world, captures
      <4>3. CASE Save(st, "loop", "mcatch")
        BY <3>0, <3>1, <4>1, <4>3, <2>Saves, Zenon
      <4> QED  BY <3>5, <4>2, <4>3, Zenon DEF Renew
    <3>6. CASE MonitorFailure
      <4> DEFINE s == SetState(st, run, "reconciling")
      <4>1. pc # "off" /\ Committing(SetCov(s, run, "incomplete"), "loop", "off")
        BY <3>6, Zenon DEF MonitorFailure
      <4>2. st \in Journal
        BY Parts, Zenon DEF Good
      <4>3. s \in Journal /\ Calm(st, s)
        BY <4>2, SetStateType, <1>CalmFields, Zenon DEF RunStates
      <4> HIDE DEF s
      <4>4. Calm(s, SetCov(s, run, "incomplete"))
        BY <4>3, <1>CalmFields, Zenon
      <4>5. Calm(st, SetCov(s, run, "incomplete"))
        BY <4>3, <4>4, <1>CalmTrans, Zenon
      <4> QED  BY <3>0, <4>1, <4>5, <2>Commits, Zenon
    <3> QED  BY <3>2, <3>3, <3>4, <3>5, <3>6, Zenon
  <2>BootCommits.
      ASSUME TypeInv, IntentInv, Reconcile \/ Adopt \/ BootQuiesce \/ RunReconciled \/ BootDone
      PROVE  IntentInv'
    <3> USE <2>BootCommits
    <3>0. /\ "adopt" \in Free /\ "bquiesce" \in Free /\ "adopted" \in Free /\ "recover" \in Free
          /\ "off" \in Free /\ "loop" \in Free
      BY Zenon DEF Free
    <3>1. st \in Journal /\ Calm(st, st) /\ Calm(disk, disk)
      BY Parts, CalmSame, Zenon DEF Good
    <3>2. CASE Reconcile
      <4>1. PICK r \in todo : Save(NewGeneration(st, r), "adopt", "off")
        BY <3>2, Zenon DEF Reconcile
      <4>2. pc # "off" /\ UNCHANGED world
        BY <3>2, Zenon DEF Reconcile
      <4>3. Calm(st, NewGeneration(st, r))
        BY <3>1, <1>CalmFields, Zenon
      <4> QED  BY <3>0, <4>1, <4>2, <4>3, <2>Saves, Zenon
    <3>3. CASE Adopt \/ BootQuiesce
      <4>1. /\ pc # "off" /\ pc' \in {"bquiesce", "adopted"}
            /\ UNCHANGED <<disk, ext, running, qdisc>>
        BY <3>3, Zenon DEF Adopt, BootQuiesce, captures
      <4>2. Calm(st, Incomplete) /\ Calm(st, SetState(st, run, "stopped"))
        BY <3>1, <1>CalmFields, Zenon DEF Incomplete
      <4>3. st' = st \/ st' = Incomplete \/ st' = SetState(st, run, "stopped")
        BY <3>3, Zenon DEF Adopt, BootQuiesce
      <4>4. Calm(st, st')
        BY <3>1, <4>2, <4>3, Zenon
      <4>5. CalmJournal /\ Shrinks
        BY <3>1, <4>1, <4>4, Zenon DEF CalmJournal, Shrinks
      <4>6. pc' \notin Marked
        BY <3>0, <4>1, <1>FreeUnmarked, Zenon
      <4> QED  BY <4>1, <4>5, <4>6, CalmStep, Zenon
    <3>4. CASE RunReconciled
      <4>1. pc # "off" /\ Committing(st, "recover", "off")
        BY <3>4, Zenon DEF RunReconciled
      <4> QED  BY <3>0, <3>1, <4>1, <2>Commits, Zenon
    <3>5. CASE BootDone
      <4>1. pc # "off" /\ UNCHANGED world /\ Save(st, "loop", "off")
        BY <3>5, Zenon DEF BootDone
      <4> QED  BY <3>0, <3>1, <4>1, <2>Saves, Zenon
    <3> QED  BY <3>2, <3>3, <3>4, <3>5, Zenon
  <2>ResourceSteps.
      (/\ TypeInv
       /\ IntentInv
       /\ NextResource \/ Prepare \/ Prepared \/ RemoveResource \/ ResourceRemoved)
      => IntentInv'
    <3>SetResFields. ASSUME NEW s \in Journal, NEW r \in Runs, NEW i \in Slots, NEW v
                     PROVE  ResourceSet(s, SetRes(s, r, i, v), r, i, v)
      <4> USE <3>SetResFields
      <4> DEFINE t == SetRes(s, r, i, v)
      <4>1. /\ t.res = [s.res EXCEPT ![r] = [@ EXCEPT ![i] = v]]
            /\ t.epoch = s.epoch /\ t.planned = s.planned /\ t.flt = s.flt /\ t.job = s.job
        BY Zenon DEF SetRes, Journal
      <4>2. s.res \in [Runs -> [Slots -> ResourceStates]]
        BY Zenon DEF Journal
      <4> HIDE DEF t
      <4>3. t.res[r] = [s.res[r] EXCEPT ![i] = v] /\ \A q \in Runs \ {r} : t.res[q] = s.res[q]
        BY <4>1, <4>2, Zenon
      <4>4. t.res[r][i] = v /\ \A n \in Slots \ {i} : t.res[r][n] = s.res[r][n]
        BY <4>2, <4>3, Zenon
      <4>5. SamePlan(s, t) /\ Tame(s, t)
        BY <4>1, Zenon DEF SamePlan, Tame, Applies
      <4>6. ResourceSet(s, t, r, i, v)
        BY <4>3, <4>4, <4>5, Zenon DEF ResourceSet
      <4> QED  BY <4>6, Zenon DEF t
    \* Only a resource's entry changes: the plans and the faults are as they were.
    <3>ResCommit. ASSUME TypeInv, IntentInv, NEW new, SamePlan(st, new), Tame(st, new),
                         NEW next \in Free \cup ResPlaces, Save(new, next, "catch"),
                         pc # "off", UNCHANGED <<running, qdisc>>, ResInv'
                  PROVE  IntentInv'
      <4> USE <3>ResCommit
      <4>1. next \notin PlanPlaces /\ next \notin LanePlaces
            /\ "catch" \notin PlanPlaces /\ "catch" \notin LanePlaces
        BY Zenon DEF Free, ResPlaces, PlanPlaces, LanePlaces, FaultJob, DropPlaces
      <4>2. /\ pc' \in {next, "catch"}
            /\ SamePlan(st, st') /\ (SamePlan(st, disk') \/ SamePlan(disk, disk'))
            /\ Tame(st, st') /\ (Tame(st, disk') \/ Tame(disk, disk'))
        BY CalmSame, Zenon DEF Save, Calm
      <4>3. PlanInv'
        BY <4>1, <4>2, PlanQuiet, Zenon DEF IntentInv
      <4>4. LaneInv'
        BY <4>1, <4>2, LaneQuiet, Zenon DEF IntentInv
      <4> QED  BY <4>3, <4>4, Zenon DEF IntentInv
    <3>ResCall. ASSUME IntentInv, UNCHANGED <<st, disk, running, qdisc>>, pc # "off",
                       pc' \in Free \cup ResPlaces, ResInv'
                PROVE  IntentInv'
      <4> USE <3>ResCall
      <4>1. pc' \notin PlanPlaces /\ pc' \notin LanePlaces
        BY Zenon DEF Free, ResPlaces, PlanPlaces, LanePlaces, FaultJob, DropPlaces
      <4>2. SamePlan(st, st') /\ SamePlan(disk, disk') /\ Tame(st, st') /\ Tame(disk, disk')
        BY CalmSame, Zenon DEF Calm
      <4>3. PlanInv'
        BY <4>1, <4>2, PlanQuiet, Zenon DEF IntentInv
      <4>4. LaneInv'
        BY <4>1, <4>2, LaneQuiet, Zenon DEF IntentInv
      <4> QED  BY <4>3, <4>4, Zenon DEF IntentInv
    \* A resource that exists keeps its intent.
    <3>ResSet.
        ASSUME TypeInv, ResInv, NEW r \in Runs, NEW i \in Slots, NEW v,
               Journaled(v) \/ <<r, i>> \notin ext, NEW t, ResourceSet(st, t, r, i, v)
        PROVE  \A x \in ext : Journaled(t.res[x[1]][x[2]])
      <4> USE <3>ResSet
      <4>1. ext \subseteq Runs \X Slots
        BY Parts, Zenon DEF HostOK
      <4>2. ASSUME NEW x \in ext PROVE Journaled(t.res[x[1]][x[2]])
        <5>1. x[1] \in Runs /\ x[2] \in Slots /\ x = <<x[1], x[2]>>
          BY <4>1
        <5>2. CASE x[1] = r /\ x[2] = i
          BY <5>1, <5>2, Zenon DEF ResourceSet
        <5>3. CASE x[1] # r \/ x[2] # i
          BY <5>1, <5>3, Zenon DEF ResInv, ResourceSet
        <5> QED  BY <5>2, <5>3, Zenon
      <4> QED  BY <4>2, Zenon
    \* A commit of a resource's new state, and what the worker knows after it.
    <3>ResSaved.
        ASSUME TypeInv, IntentInv, NEW r \in Runs, NEW i \in Slots, NEW v,
               Journaled(v) \/ <<r, i>> \notin ext, NEW next \in Free \cup {"prepare"},
               Save(SetRes(st, r, i, v), next, "catch"), pc # "off", UNCHANGED world,
               next = "prepare" => run' = r /\ slot' = i /\ Journaled(v)
        PROVE  IntentInv'
      <4> USE <3>ResSaved
      <4>1. PICK t : t = SetRes(st, r, i, v)
        OBVIOUS
      <4>2. Save(t, next, "catch") /\ UNCHANGED <<ext, running, qdisc>>
        BY <4>1, Zenon DEF world, captures
      <4>3. /\ \A x \in ext : Journaled(t.res[x[1]][x[2]])
            /\ t.res[r][i] = v /\ SamePlan(st, t) /\ Tame(st, t)
        <5>1. st \in Journal
          BY Parts, Zenon DEF Good
        <5>2. ResourceSet(st, t, r, i, v)
          BY <4>1, <5>1, <3>SetResFields, Zenon
        <5>3. \A x \in ext : Journaled(t.res[x[1]][x[2]])
          BY <5>2, <3>ResSet, Zenon DEF IntentInv
        <5> QED  BY <5>2, <5>3, Zenon DEF ResourceSet
      <4>4. \A x \in ext' : Journaled(st'.res[x[1]][x[2]]) /\ Journaled(disk'.res[x[1]][x[2]])
        BY <4>2, <4>3, Zenon DEF Save, IntentInv, ResInv
      <4>5. next \in Free => next \notin ResPlaces
        BY <1>FreeUnmarked, Zenon DEF Marked
      <4>6. ResInv'
        BY <4>2, <4>3, <4>4, <4>5, Zenon DEF Save, ResInv, ResPlaces
      <4>7. next \in Free \cup ResPlaces
        BY Zenon DEF ResPlaces
      <4> QED  BY <4>2, <4>3, <4>6, <4>7, <3>ResCommit, Zenon
    <3> SUFFICES ASSUME TypeInv,
                        IntentInv,
                        NextResource \/ Prepare \/ Prepared \/ RemoveResource \/ ResourceRemoved
                 PROVE  IntentInv'
      OBVIOUS
    <3>0. /\ pc # "off" /\ pc \in JobPlaces
          /\ "next" \in Free /\ "remove" \in Free /\ "catch" \in Free /\ "destroyed" \in Free
      BY DEF NextResource, Prepare, Prepared, RemoveResource, ResourceRemoved,
          JobPlaces,
          Free
    <3>1. run \in Runs
      BY <3>0, Jobbing, Zenon
    <3>2. CASE NextResource
      <4>1. CASE \E i \in Absent(st, run) :
                   slot' = i /\ Save(SetRes(st, run, i, "intent"), "prepare", "catch")
        <5>1. PICK i \in Slots : slot' = i /\ Save(SetRes(st, run, i, "intent"), "prepare", "catch")
          BY <4>1, Zenon DEF Absent
        <5>2. UNCHANGED world /\ run' = run /\ Journaled("intent")
          BY <3>2, Zenon DEF NextResource, Journaled
        <5> QED  BY <3>0, <3>1, <5>1, <5>2, <3>ResSaved, Zenon
      <4>2. CASE pc' = Checked(AfterResources) /\ UNCHANGED journal
        <5>1. pc' \in Free
          BY <4>2, Zenon DEF Checked, AfterResources, Free
        <5>2. UNCHANGED <<st, disk, ext, running, qdisc>>
          BY <3>2, <4>2, Zenon DEF NextResource, journal, world, captures
        <5> QED  BY <3>0, <5>1, <5>2, <2>Calls, Zenon
      <4> QED  BY <3>2, <4>1, <4>2, Zenon DEF NextResource
    <3>3. CASE Prepare
      <4>1. /\ pc = "prepare" /\ pc' \in {"prepared", "catch"} /\ ext' \subseteq ext \cup {<<run, slot>>}
            /\ UNCHANGED <<st, disk, running, qdisc, run, slot>>
        BY <3>3, Zenon DEF Prepare, Created, CreateThrows, journal, captures, frame
      <4>2. Journaled(st.res[run][slot]) /\ Journaled(disk.res[run][slot])
        BY <4>1, Zenon DEF IntentInv, ResInv
      <4>3. \A x \in ext' : Journaled(st.res[x[1]][x[2]]) /\ Journaled(disk.res[x[1]][x[2]])
        BY <4>1, <4>2 DEF IntentInv, ResInv
      <4>4. ResInv'
        BY <4>1, <4>2, <4>3, Zenon DEF ResInv
      <4>5. pc' \in Free \cup ResPlaces
        BY <3>0, <4>1, Zenon DEF ResPlaces
      <4> QED  BY <3>0, <4>1, <4>4, <4>5, <3>ResCall, Zenon
    <3>4. CASE Prepared
      <4>1. /\ pc = "prepared" /\ Save(SetRes(st, run, slot, "prepared"), "next", "catch")
            /\ UNCHANGED world
        BY <3>4, Zenon DEF Prepared, Committing
      <4>2. slot \in Slots /\ Journaled("prepared")
        BY <4>1, Zenon DEF TypeInv, FrameAt, Journaled
      <4> QED  BY <3>0, <3>1, <4>1, <4>2, <3>ResSaved, Zenon
    <3>5. CASE RemoveResource
      <4>1. UNCHANGED <<st, disk, running, qdisc, run>>
        BY <3>5, Zenon DEF RemoveResource, journal, captures
      <4>2. CASE pc' \in {"destroyed", "catch"} /\ ext' \subseteq ext
        <5>1. pc' \in Free
          BY <3>0, <4>2, Zenon
        <5> QED  BY <3>0, <4>1, <4>2, <5>1, <2>Calls, Zenon
      <4>3. CASE pc' = "removed" /\ ext' = ext \ {<<run, slot'>>}
        <5>1. ResInv'
          BY <4>1, <4>3, Zenon DEF IntentInv, ResInv
        <5>2. pc' \in Free \cup ResPlaces
          BY <4>3, Zenon DEF ResPlaces
        <5> QED  BY <3>0, <4>1, <5>1, <5>2, <3>ResCall, Zenon
      <4> QED  BY <3>5, <4>2, <4>3, Zenon DEF RemoveResource, Removed, RemoveThrows,
          Gone
    <3>6. CASE ResourceRemoved
      <4>1. /\ pc = "removed" /\ Save(SetRes(st, run, slot, "removed"), "remove", "catch")
            /\ UNCHANGED world
        BY <3>6, Zenon DEF ResourceRemoved, Committing
      <4>2. slot \in Slots /\ <<run, slot>> \notin ext
        BY <4>1, Zenon DEF TypeInv, FrameAt, IntentInv, ResInv
      <4> QED  BY <3>0, <3>1, <4>1, <4>2, <3>ResSaved, Zenon
    <3> QED  BY <3>2, <3>3, <3>4, <3>5, <3>6, Zenon
  <2>CaptureSteps.
      TypeInv /\ IntentInv /\ (StopOld \/ Epoch \/ PlanCaptures \/ Arm) => IntentInv'
    <3>PlannedElsewhere.
        ASSUME NEW s, NEW t, NEW r, t.epoch[r] = s.epoch[r], t.planned[r] = s.planned[r]
        PROVE  Planned(t, r) = Planned(s, r)
      BY <3>PlannedElsewhere, Zenon DEF Planned
    <3>NewEpochFields. ASSUME NEW s \in Journal, NEW r \in Runs
                       PROVE  PlanOnly(s, NewEpoch(s, r), r)
      <4> USE <3>NewEpochFields
      <4>1. NewEpoch(s, r).res = s.res /\ NewEpoch(s, r).flt = s.flt /\ NewEpoch(s, r).job = s.job
        BY Zenon DEF NewEpoch, Journal
      <4>2. \A q \in Runs \ {r} : /\ NewEpoch(s, r).epoch[q] = s.epoch[q]
                                  /\ NewEpoch(s, r).planned[q] = s.planned[q]
        BY Zenon DEF NewEpoch, Journal
      <4> QED  BY <4>1, <4>2, Zenon DEF PlanOnly, Tame, Applies
    <3>SetPlannedFields. ASSUME NEW s \in Journal, NEW r \in Runs
                         PROVE  LET t == [s EXCEPT !.planned[r] = TRUE]
                                IN PlanOnly(s, t, r) /\ t.epoch = s.epoch /\ t.planned[r]
      <4> USE <3>SetPlannedFields
      <4> DEFINE t == [s EXCEPT !.planned[r] = TRUE]
      <4>1. t.res = s.res /\ t.flt = s.flt /\ t.job = s.job /\ t.epoch = s.epoch
        BY Zenon DEF Journal
      <4>2. t.planned[r] /\ \A q \in Runs \ {r} : t.planned[q] = s.planned[q]
        BY Zenon DEF Journal
      <4> HIDE DEF t
      <4>3. PlanOnly(s, t, r)
        BY <4>1, <4>2, Zenon DEF PlanOnly, Tame, Applies
      <4> QED  BY <4>1, <4>2, <4>3, Zenon DEF t
    <3>PlanCommit. ASSUME IntentInv, NEW new, new.res = st.res, Tame(st, new),
                          NEW next \in Free \cup PlanPlaces, Save(new, next, "catch"),
                          pc # "off", UNCHANGED <<ext, qdisc>>, PlanInv'
                   PROVE  IntentInv'
      <4> USE <3>PlanCommit
      <4>1. next \notin ResPlaces /\ next \notin LanePlaces
            /\ "catch" \notin ResPlaces /\ "catch" \notin LanePlaces
        BY Zenon DEF Free, ResPlaces, PlanPlaces, LanePlaces, FaultJob, DropPlaces
      <4>2. /\ pc' \in {next, "catch"}
            /\ st'.res = st.res /\ disk'.res \in {st.res, disk.res}
            /\ Tame(st, st') /\ (Tame(st, disk') \/ Tame(disk, disk'))
        BY CalmSame, Zenon DEF Save, Calm
      <4>3. ResInv'
        BY <4>1, <4>2, ResQuiet, Zenon DEF IntentInv
      <4>4. LaneInv'
        BY <4>1, <4>2, LaneQuiet, Zenon DEF IntentInv
      <4> QED  BY <4>3, <4>4, Zenon DEF IntentInv
    <3>PlanMoves. ASSUME IntentInv, UNCHANGED <<st, disk, ext, qdisc>>, pc # "off",
                         pc' \in Free \cup PlanPlaces, PlanInv'
                  PROVE  IntentInv'
      <4> USE <3>PlanMoves
      <4>1. pc' \notin ResPlaces /\ pc' \notin LanePlaces
        BY Zenon DEF Free, ResPlaces, PlanPlaces, LanePlaces, FaultJob, DropPlaces
      <4>2. Tame(st, st') /\ Tame(disk, disk')
        BY CalmSame, Zenon DEF Calm
      <4>3. ResInv'
        BY <4>1, <4>2, ResQuiet, Zenon DEF IntentInv
      <4>4. LaneInv'
        BY <4>1, <4>2, LaneQuiet, Zenon DEF IntentInv
      <4> QED  BY <4>3, <4>4, Zenon DEF IntentInv
    <3> SUFFICES ASSUME TypeInv, IntentInv, StopOld \/ Epoch \/ PlanCaptures \/ Arm PROVE IntentInv'
      OBVIOUS
    <3>0. pc # "off" /\ pc \in JobPlaces /\ "catch" \in Free /\ "plan" \in Free /\ "armed" \in Free
          /\ "epoch" \in PlanPlaces /\ "arm" \in PlanPlaces
      BY DEF StopOld, Epoch, PlanCaptures, Arm, JobPlaces, Free, PlanPlaces
    <3>1. run \in Runs /\ st \in Journal /\ running \subseteq dirs
      BY <3>0, Jobbing, Zenon DEF Good, HostOK
    <3>2. PlanInv
      BY Zenon DEF IntentInv
    <3>3. running \subseteq Workers
      BY Parts, Zenon DEF HostOK
    <3>4. CASE StopOld
      <4>1. UNCHANGED <<st, disk, ext, qdisc, run>> /\ running' \subseteq running
        BY <3>4, Zenon DEF StopOld, StopCaptures, StopThrows, journal, frame
      <4>2. CASE pc' = "catch"
        BY <3>0, <4>1, <4>2, <2>Calls, Zenon
      <4>3. CASE pc' = "epoch" /\ running' = running \ Launched(run)
        <5>1. \A w \in running' : w[1] # run
          BY <3>1, <3>2, <4>3, Zenon DEF PlanInv, Launched
        <5>2. PlanInv'
          BY <3>2, <4>1, <4>3, <5>1, Zenon DEF PlanInv
        <5> QED  BY <3>0, <4>1, <4>3, <5>2, <3>PlanMoves, Zenon
      <4> QED  BY <3>4, <4>2, <4>3, Zenon DEF StopOld, StopCaptures
    <3>5. CASE Epoch
      <4>1. PICK new : new = NewEpoch(st, run)
        OBVIOUS
      <4>2. /\ pc = "epoch" /\ Save(new, "plan", "catch")
            /\ UNCHANGED <<ext, running, qdisc>>
        BY <3>5, <4>1, Zenon DEF Epoch, Committing, world, captures
      <4>3. PlanOnly(st, new, run)
        BY <3>1, <4>1, <3>NewEpochFields, Zenon
      <4>4. ASSUME NEW w \in running PROVE w \in Planned(new, w[1])
        <5>1. w[1] # run /\ w[1] \in Runs /\ w \in Planned(st, w[1])
          BY <3>2, <3>3, <4>2, Zenon DEF PlanInv, Workers
        <5>2. new.epoch[w[1]] = st.epoch[w[1]] /\ new.planned[w[1]] = st.planned[w[1]]
          BY <4>3, <5>1, Zenon DEF PlanOnly
        <5> QED  BY <5>1, <5>2, <3>PlannedElsewhere, Zenon
      <4>5. PlanInv'
        BY <3>2, <4>2, <4>4, Zenon DEF Save, PlanInv
      <4> QED  BY <3>0, <4>2, <4>3, <4>5, <3>PlanCommit, Zenon DEF PlanOnly
    <3>6. CASE PlanCaptures
      <4>1. PICK new : new = [st EXCEPT !.planned[run] = TRUE]
        OBVIOUS
      <4>2. Save(new, "arm", "catch") /\ UNCHANGED <<ext, running, qdisc, run>>
        BY <3>6, <4>1, Zenon DEF PlanCaptures, Committing, world, captures, frame
      <4>3. PlanOnly(st, new, run) /\ new.epoch = st.epoch /\ new.planned[run]
        BY <3>1, <4>1, <3>SetPlannedFields, Zenon
      <4>4. ASSUME NEW w \in running PROVE w \in Planned(new, w[1])
        <5>1. w[1] \in Runs /\ w \in Planned(st, w[1])
          BY <3>2, <3>3, Zenon DEF PlanInv, Workers
        <5>2. CASE w[1] # run
          <6>1. new.epoch[w[1]] = st.epoch[w[1]] /\ new.planned[w[1]] = st.planned[w[1]]
            BY <4>3, <5>1, <5>2, Zenon DEF PlanOnly
          <6> QED  BY <5>1, <6>1, <3>PlannedElsewhere, Zenon
        <5>3. CASE w[1] = run
          BY <4>3, <5>1, <5>3, Zenon DEF Planned
        <5> QED  BY <5>2, <5>3, Zenon
      <4>5. PlanInv'
        BY <3>2, <4>2, <4>4, Zenon DEF Save, PlanInv
      <4> QED  BY <3>0, <4>2, <4>3, <4>5, <3>PlanCommit, Zenon DEF PlanOnly
    <3>7. CASE Arm
      <4>1. pc = "arm" /\ UNCHANGED <<st, disk, ext, qdisc>> /\ pc' \in {"armed", "catch"}
        BY <3>7, Zenon DEF Arm, journal
      <4>2. running' \subseteq running \cup Planned(st, run)
        BY <3>7, Zenon DEF Arm, ArmCaptures, ArmThrows
      <4>3. ASSUME NEW w \in running' PROVE w \in Planned(st, w[1]) /\ w \in Planned(disk, w[1])
        <5>1. CASE w \in running
          BY <3>2, <5>1, Zenon DEF PlanInv
        <5>2. CASE w \in Planned(st, run)
          <6>1. w[1] = run
            BY <5>2 DEF Planned
          <6> QED  BY <3>2, <4>1, <5>2, <6>1, Zenon DEF PlanInv
        <5> QED  BY <4>2, <5>1, <5>2, Zenon
      <4>4. PlanInv'
        BY <4>1, <4>3, Zenon DEF PlanInv
      <4> QED  BY <3>0, <4>1, <4>4, <3>PlanMoves, Zenon
    <3> QED  BY <3>4, <3>5, <3>6, <3>7, Zenon
  <2>FitCalm. ASSUME NEW t, NEW u, LaneFit(t), Calm(t, u)
              PROVE  LaneFit(u)
    <3> USE <2>FitCalm
    <3>1. OneApply(u)
      BY OneApplyTame, Zenon DEF LaneFit, Calm
    <3> QED  BY <3>1, ZenonT(30) DEF LaneFit, Calm, SamePlan, Tame
  <2>FaultOneApply.
      ASSUME TypeInv, IntentInv, NEW f \in Faults, NEW v, v # "none", NEW t, FaultSet(st, t, f, v)
      PROVE  OneApply(t)
    <3> USE <2>FaultOneApply
    <3>1. t.flt[f] = v /\ (\A g \in Faults \ {f} : t.flt[g] = st.flt[g]) /\ t.job = st.job
      BY Zenon DEF FaultSet
    <3>2. \A j \in JobIds : Applies(st, j) => st.job[j].flt \in Faults
      BY Parts, ZenonT(30) DEF Good, JobsOK, Applies, FaultOps
    <3>3. \A j \in JobIds : Applies(t, j) <=> Applies(st, j)
      BY <3>1, Zenon DEF Applies
    <3> QED  BY <3>1, <3>2, <3>3, ZenonT(30) DEF OneApply, IntentInv, LaneInv, LaneBase
  <2>FaultSetFit.
      ASSUME TypeInv, IntentInv, NEW f \in Faults, NEW v, v # "none", f \notin qdisc \/ v \in InKernel,
             NEW t, FaultSet(st, t, f, v)
      PROVE  LaneFit(t)
    <3> USE <2>FaultSetFit
    <3>1. qdisc \subseteq Faults
      BY Parts, Zenon DEF HostOK
    <3>2. OneApply(t)
      BY <2>FaultOneApply, Zenon
    <3>3. \A g \in qdisc : t.flt[g] \in InKernel
      BY <3>1, Zenon DEF FaultSet, IntentInv, LaneInv, LaneBase
    <3> QED  BY <3>2, <3>3, Zenon DEF FaultSet, LaneFit, Applies
  <2>FitFault.
      ASSUME TypeInv, IntentInv, NEW f \in Faults, NEW v, v # "none", f \notin qdisc \/ v \in InKernel
      PROVE  LaneFit(SetFault(st, f, v))
    <3> USE <2>FitFault
    <3>1. st \in Journal
      BY Parts, Zenon DEF Good
    <3>2. FaultSet(st, SetFault(st, f, v), f, v)
      BY <3>1, <1>SetFaultFields, Zenon
    <3> QED  BY <3>2, <2>FaultSetFit, Zenon
  \* A commit that changes faults and jobs only.
  <2>LaneCommit.
      ASSUME IntentInv, NEW new, LaneFit(new), NEW next \in Free \cup LanePlaces, NEW h \in Free,
             Save(new, next, h), UNCHANGED world, pc # "off", LaneAt'
      PROVE  IntentInv'
    <3> USE <2>LaneCommit
    <3>1. UNCHANGED <<ext, running, qdisc>>
      BY Zenon DEF world, captures
    <3>2. next \notin ResPlaces /\ next \notin PlanPlaces
      BY Zenon DEF Free, ResPlaces, PlanPlaces, LanePlaces, FaultJob, DropPlaces
    <3>3. h \notin ResPlaces /\ h \notin PlanPlaces
      BY <1>FreeUnmarked, Zenon DEF Marked
    <3>4. /\ pc' \in {next, h} /\ st' \in {new, disk} /\ disk' \in {new, disk}
          /\ pc' # "off" => st' = new
      BY Zenon DEF Save
    <3>5. ResInv'
      BY <3>1, <3>2, <3>3, <3>4, ResQuiet, Zenon DEF IntentInv, LaneFit
    <3>6. SamePlan(disk, disk)
      BY Zenon DEF SamePlan
    <3>7. PlanInv'
      BY <3>1, <3>2, <3>3, <3>4, <3>6, PlanQuiet, ZenonT(30) DEF IntentInv, LaneFit
    <3>8. \A f \in qdisc' : st'.flt[f] \in InKernel /\ disk'.flt[f] \in InKernel
      BY <3>1, <3>4, ZenonT(30) DEF LaneFit, IntentInv, LaneInv, LaneBase
    <3>9. OneApply(st)' /\ OneApply(disk)'
      BY <3>4, ZenonT(30) DEF LaneFit, IntentInv, LaneInv, LaneBase
    <3>10. pc' # "off" => Unapplied'
      BY <3>1, <3>4, Zenon DEF LaneFit, IntentInv, LaneInv, LaneBase, Unapplied
    <3> QED  BY <3>5, <3>7, <3>8, <3>9, <3>10, Zenon DEF IntentInv, LaneInv, LaneBase
  <2>FitCommit. ASSUME IntentInv, NEW new, LaneFit(new), NEW next \in Free, NEW h \in Free,
                       Save(new, next, h), UNCHANGED world, pc # "off"
                PROVE  IntentInv'
    <3> USE <2>FitCommit
    <3>1. pc' \in Free
      BY Zenon DEF Save
    <3> QED  BY <3>1, <1>FreeLane, <2>LaneCommit, Zenon
  \* A call that changes at most a discipline.
  <2>LaneMoves. ASSUME IntentInv, UNCHANGED <<st, disk, ext, running>>, pc # "off",
                       pc' \in Free \cup LanePlaces, LaneInv'
                PROVE  IntentInv'
    <3> USE <2>LaneMoves
    <3>1. pc' \notin ResPlaces /\ pc' \notin PlanPlaces
      BY Zenon DEF Free, ResPlaces, PlanPlaces, LanePlaces, FaultJob, DropPlaces
    <3>2. SamePlan(st, st') /\ SamePlan(disk, disk')
      BY Zenon DEF SamePlan
    <3>3. ResInv'
      BY <3>1, <3>2, ResQuiet, Zenon DEF IntentInv
    <3>4. PlanInv'
      BY <3>1, <3>2, PlanQuiet, Zenon DEF IntentInv
    <3> QED  BY <3>3, <3>4, Zenon DEF IntentInv
  <2>LaneShrinks. ASSUME LaneInv, UNCHANGED <<st, disk>>, qdisc' \subseteq qdisc, pc # "off"
                  PROVE  LaneBase'
    BY <2>LaneShrinks, Zenon DEF LaneInv, LaneBase, Unapplied
  \* The commits of a fault's new state that lead to a place of no account.
  <2>FaultCommits.
      ASSUME TypeInv, IntentInv, FaultCleared \/ M5Expiring \/ Expired \/ FaultFailure
      PROVE  IntentInv'
    <3> USE <2>FaultCommits
    <3>0. /\ pc # "off" /\ UNCHANGED world
          /\ "clear" \in Free /\ "catch" \in Free /\ "expire" \in Free /\ "m5" \in Free
          /\ "m5fail" \in Free /\ "m5hold" \in Free /\ M5Error \in Free
      BY DEF FaultCleared, M5Expiring, Expired, FaultFailure, Committing, M5Error, Free
    <3>1. st \in Journal
      BY Parts, Zenon DEF Good
    <3>2. CASE FaultCleared
      <4>1. pc = "cleared" /\ Save(SetFault(st, tgt, "removed"), "clear", "catch")
        BY <3>2, Zenon DEF FaultCleared, Committing
      <4>2. tgt \in Faults /\ tgt \notin qdisc
        BY <4>1, Zenon DEF TypeInv, FrameAt, FaultPlaces, IntentInv, LaneInv, LaneAt,
            DropPlaces
      <4>3. LaneFit(SetFault(st, tgt, "removed"))
        BY <4>2, <2>FitFault, Zenon
      <4> QED  BY <3>0, <4>1, <4>3, <2>FitCommit, Zenon
    <3>3. CASE M5Expiring
      <4>1. PICK f \in Faults : Save(SetFault(st, f, "removing"), "expire", M5Error)
        BY <3>3, Zenon DEF M5Expiring
      <4>2. LaneFit(SetFault(st, f, "removing"))
        BY <2>FitFault, Zenon DEF InKernel
      <4> QED  BY <3>0, <4>1, <4>2, <2>FitCommit, Zenon
    <3>4. CASE Expired
      <4> DEFINE s == SetFault(st, tgt, "removed")
      <4>1. pc = "expired" /\ Save(Bump(s, Owner[tgt]), "m5", "m5fail")
        BY <3>4, Zenon DEF Expired, Committing
      <4>2. tgt \in Faults /\ tgt \notin qdisc
        BY <4>1, Zenon DEF TypeInv, FrameAt, FaultPlaces, IntentInv, LaneInv, LaneAt,
            DropPlaces
      <4>3. LaneFit(s)
        BY <4>2, <2>FitFault, Zenon
      <4>4. s \in Journal
        BY <3>1, SetFaultType, Zenon DEF FaultStates
      <4> HIDE DEF s
      <4>5. LaneFit(Bump(s, Owner[tgt]))
        BY <4>3, <4>4, <1>CalmFields, <2>FitCalm, Zenon
      <4> QED  BY <3>0, <4>1, <4>5, <2>FitCommit, Zenon
    <3>5. CASE FaultFailure
      <4> DEFINE s == SetFault(st, tgt, "recovery-required")
                 t == SetState(s, Owner[tgt], "reconciling")
      <4>1. pc = "m5fail" /\ Save(Bump(t, Owner[tgt]), "m5hold", M5Error)
        BY <3>5, Zenon DEF FaultFailure, Committing, RecoveryRequired
      <4>2. tgt \in Faults
        BY <4>1, Zenon DEF TypeInv, FrameAt, FaultPlaces
      <4>3. LaneFit(s)
        BY <4>2, <2>FitFault, Zenon DEF InKernel
      <4>4. s \in Journal
        BY <3>1, SetFaultType, Zenon DEF FaultStates
      <4> HIDE DEF s
      <4>5. t \in Journal /\ LaneFit(t)
        BY <4>3, <4>4, SetStateType, <1>CalmFields, <2>FitCalm, Zenon DEF RunStates
      <4> HIDE DEF t
      <4>6. LaneFit(Bump(t, Owner[tgt]))
        BY <4>5, <1>CalmFields, <2>FitCalm, Zenon
      <4> QED  BY <3>0, <4>1, <4>6, <2>FitCommit, Zenon
    <3> QED  BY <3>2, <3>3, <3>4, <3>5, Zenon
  \* A fault job's last commit: the fault's outcome and the job's.
  <2>FaultOutcome.
      ASSUME TypeInv, IntentInv, pc \in FaultJob, NEW v \in FaultStates \ {"none"},
             tgt \notin qdisc \/ v \in InKernel, NEW w \in JobStates \ {"queued"},
             Committing(SetJob(SetFault(st, tgt, v), job, w), "loop", "catch")
      PROVE  IntentInv'
    <3> USE <2>FaultOutcome
    <3>0. pc # "off" /\ "loop" \in Free /\ "catch" \in Free
      BY Zenon DEF FaultJob, Free
    <3> DEFINE s == SetFault(st, tgt, v)
    <3>1. pc \in JobPlaces /\ tgt \in Faults
      BY Faulting, Zenon
    <3>2. st \in Journal /\ job \in JobIds /\ st.job[job].is # "absent"
      BY <3>1, Jobbing, Zenon DEF Good
    <3>3. s \in Journal /\ s.job = st.job /\ LaneFit(s)
      <4>1. s \in Journal
        BY <3>2, SetFaultType, ZenonT(30)
      <4>2. FaultSet(st, s, tgt, v)
        BY <3>1, <3>2, <1>SetFaultFields, Zenon
      <4>3. LaneFit(s)
        BY <3>1, <2>FitFault, Zenon
      <4> QED  BY <4>1, <4>2, <4>3, ZenonT(30) DEF FaultSet
    <3>4. Save(SetJob(s, job, w), "loop", "catch") /\ UNCHANGED world
      BY Zenon DEF Committing
    <3> HIDE DEF s
    <3>5. LaneFit(SetJob(s, job, w))
      BY <3>2, <3>3, <2>CalmSetJob, <2>FitCalm, Zenon
    <3> QED  BY <3>0, <3>4, <3>5, <2>FitCommit, Zenon
  <2>FaultBeginIntent. TypeInv /\ IntentInv /\ FaultBegin => IntentInv'
    <3>FaultIntent.
        ASSUME TypeInv, IntentInv, pc = "fault", NEW v \in {"applying", "removing"},
               Committing(SetFault(st, tgt, v), "effect", "catch")
        PROVE  IntentInv'
      <4> USE <3>FaultIntent
      <4>0. pc \in FaultJob /\ pc # "off" /\ "catch" \in Free /\ "effect" \in LanePlaces
        BY Zenon DEF FaultJob, Free, LanePlaces
      <4>1. PICK new : new = SetFault(st, tgt, v)
        OBVIOUS
      <4>2. tgt \in Faults /\ st \in Journal
        BY <4>0, Faulting, Parts, Zenon DEF Good
      <4>3. LaneFit(new)
        BY <4>1, <4>2, <2>FitFault, Zenon DEF InKernel
      <4>4. Save(new, "effect", "catch") /\ UNCHANGED <<world, tgt, job>>
        BY <4>1, Zenon DEF Committing, frame
      <4>5. new.flt[tgt] \in InKernel /\ new.job = st.job
        <5>1. FaultSet(st, new, tgt, v)
          BY <4>1, <4>2, <1>SetFaultFields, Zenon
        <5> QED  BY <5>1, Zenon DEF FaultSet, InKernel
      <4>6. tgt = This.flt /\ This.op \in FaultOps /\ This.is # "queued"
        BY <4>0, Zenon DEF IntentInv, LaneInv, LaneAt
      <4>7. CASE pc' = "catch"
        BY <4>0, <4>7, <1>FreeLane, <4>3, <4>4, <2>LaneCommit, Zenon
      <4>8. CASE pc' = "effect" /\ st' = new /\ disk' = new
        <5>1. This' = This
          BY <4>4, <4>5, <4>8, Zenon DEF This
        <5>2. LaneAt'
          BY <4>4, <4>5, <4>6, <4>8, <5>1, Zenon DEF LaneAt, DropPlaces
        <5> QED  BY <4>0, <4>3, <4>4, <5>2, <2>LaneCommit, Zenon
      <4> QED  BY <4>4, <4>7, <4>8, Zenon DEF Save
    <3> SUFFICES ASSUME TypeInv, IntentInv, FaultBegin PROVE IntentInv'
      OBVIOUS
    <3>0. pc = "fault" /\ pc \in FaultJob
      BY Zenon DEF FaultBegin, FaultJob
    <3>1. CASE /\ This.op = "fault.apply"
               /\ Committing(SetJob(SetFault(st, tgt, "cancelled"), job, "cancelled"), "loop", "catch")
      <4>1. tgt \notin qdisc
        BY <3>0, <3>1, Zenon DEF IntentInv, LaneInv, LaneAt
      <4>2. "cancelled" \in FaultStates \ {"none"} /\ "cancelled" \in JobStates \ {"queued"}
        BY Zenon DEF FaultStates, JobStates
      <4> QED  BY <3>0, <3>1, <4>1, <4>2, <2>FaultOutcome, Zenon
    <3>2. CASE Committing(SetJob(st, job, "succeeded"), "loop", "catch")
      <4>1. st \in Journal /\ job \in JobIds /\ st.job[job].is # "absent"
        BY <3>0, Faulting, Jobbing, Zenon DEF Good
      <4>2. Calm(st, SetJob(st, job, "succeeded"))
        BY <4>1, <2>CalmSetJob, Zenon DEF JobStates
      <4>3. "loop" \in Free
        BY Zenon DEF Free
      <4> QED  BY <3>0, <3>2, <4>2, <4>3, <2>WorkerCommits, Zenon
    <3>3. CASE Committing(SetFault(st, tgt, "applying"), "effect", "catch")
      BY <3>0, <3>3, <3>FaultIntent, Zenon
    <3>4. CASE Committing(SetFault(st, tgt, "removing"), "effect", "catch")
      BY <3>0, <3>4, <3>FaultIntent, Zenon
    <3> QED  BY <3>1, <3>2, <3>3, <3>4, ZenonT(30) DEF FaultBegin
  <2>FaultCalls.
      TypeInv /\ IntentInv /\ (FaultEffect \/ FaultVerdict \/ FaultUndo) => IntentInv'
    \* The worker stays in its fault job, and the journal is as it was.
    <3>FaultMove.
        ASSUME IntentInv, pc \in FaultJob, UNCHANGED <<st, disk, ext, running, tgt, job>>,
               LaneBase', NEW p, p \in FaultJob \ {"fault", "effect"}, pc' = p,
               p = "verdict" => This.op = "fault.apply",
               p = "undone" \/ (p = "settle" /\ This.op = "fault.remove") => tgt \notin qdisc'
        PROVE  IntentInv'
      <4> USE <3>FaultMove
      <4>1. pc # "off" /\ pc' \in LanePlaces
        BY Zenon DEF FaultJob, LanePlaces
      <4>2. This' = This /\ tgt = This.flt /\ This.op \in FaultOps /\ This.is # "queued"
        BY ZenonT(30) DEF IntentInv, LaneInv, LaneAt, This
      <4>3. LaneAt'
        BY <4>2, ZenonT(30) DEF LaneAt, FaultJob, DropPlaces
      <4> QED  BY <4>1, <4>3, <2>LaneMoves, Zenon DEF LaneInv
    <3> SUFFICES ASSUME TypeInv, IntentInv, FaultEffect \/ FaultVerdict \/ FaultUndo PROVE IntentInv'
      OBVIOUS
    <3>0. pc \in FaultJob /\ pc # "off" /\ "catch" \in Free /\ LaneInv
          /\ {"verdict", "undo", "undone", "settle"} \subseteq FaultJob \ {"fault", "effect"}
      BY Zenon DEF FaultEffect, FaultVerdict, FaultUndo, FaultJob, Free, IntentInv
    <3>1. UNCHANGED <<st, disk, ext, running, tgt, job>>
      BY Zenon DEF FaultEffect, FaultVerdict, FaultUndo, journal, frame, world, captures
    <3>2. tgt = This.flt /\ This.op \in FaultOps /\ This.is # "queued" /\ job \in JobIds
          /\ This.is # "absent"
      BY <3>0, Faulting, Jobbing, Zenon DEF LaneInv, LaneAt, This
    <3>3. CASE FaultEffect
      <4>1. CASE This.op = "fault.apply"
        <5>1. qdisc' \subseteq qdisc \cup {tgt} /\ pc' \in {"verdict", "catch"} /\ pc = "effect"
          BY <3>3, <4>1, Zenon DEF FaultEffect, PutQdisc, PutThrows
        <5>2. st.flt[tgt] \in InKernel /\ disk.flt[tgt] \in InKernel
          BY <3>0, <5>1, Zenon DEF LaneInv, LaneAt
        <5>3. \A f \in qdisc' : st.flt[f] \in InKernel /\ disk.flt[f] \in InKernel
          BY <3>0, <5>1, <5>2, Zenon DEF LaneInv, LaneBase
        <5>4. \A j \in JobIds : Applies(st, j) /\ st.job[j].is = "queued" => st.job[j].flt # tgt
          BY <3>0, <3>2, <4>1, ZenonT(30) DEF LaneInv, LaneBase, OneApply, Applies, This
        <5>5. Unapplied'
          BY <3>0, <3>1, <5>1, <5>4, ZenonT(30) DEF LaneInv, LaneBase, Unapplied
        <5>6. LaneBase'
          BY <3>0, <3>1, <5>3, <5>5, Zenon DEF LaneInv, LaneBase
        <5>7. CASE pc' = "catch"
          <6>1. LaneAt'
            BY <3>0, <5>7, <1>FreeLane, Zenon
          <6> QED  BY <3>0, <3>1, <5>6, <5>7, <6>1, <2>LaneMoves, Zenon DEF LaneInv
        <5>8. CASE pc' = "verdict"
          BY <3>0, <3>1, <4>1, <5>6, <5>8, <3>FaultMove, Zenon
        <5> QED  BY <5>1, <5>7, <5>8, Zenon
      <4>2. CASE This.op # "fault.apply"
        <5>1. /\ qdisc' \subseteq qdisc
              /\ pc' = "catch" \/ (pc' = "settle" /\ tgt \notin qdisc')
          BY <3>3, <4>2, Zenon DEF FaultEffect, DropQdisc, DropThrows
        <5>2. LaneBase'
          BY <3>0, <3>1, <5>1, <2>LaneShrinks, Zenon
        <5>3. CASE pc' = "catch"
          BY <3>0, <3>1, <5>1, <5>3, <2>Calls, Zenon
        <5>4. CASE pc' = "settle" /\ tgt \notin qdisc'
          BY <3>0, <3>1, <5>2, <5>4, <3>FaultMove, Zenon
        <5> QED  BY <5>1, <5>3, <5>4, Zenon
      <4> QED  BY <4>1, <4>2, Zenon
    <3>4. CASE FaultVerdict
      <4>1. pc = "verdict" /\ pc' \in {"undo", "settle"} /\ qdisc' = qdisc
        BY <3>4, Zenon DEF FaultVerdict, world
      <4>2. This.op # "fault.remove"
        BY <3>0, <4>1, Zenon DEF LaneInv, LaneAt
      <4>3. LaneBase'
        BY <3>0, <3>1, <4>1, <2>LaneShrinks, Zenon
      <4> QED  BY <3>0, <3>1, <4>1, <4>2, <4>3, <3>FaultMove, Zenon
    <3>5. CASE FaultUndo
      <4>1. /\ qdisc' \subseteq qdisc
            /\ pc' = "catch" \/ (pc' = "undone" /\ tgt \notin qdisc')
        BY <3>5, Zenon DEF FaultUndo, DropQdisc, DropThrows
      <4>2. LaneBase'
        BY <3>0, <3>1, <4>1, <2>LaneShrinks, Zenon
      <4>3. CASE pc' = "catch"
        BY <3>0, <3>1, <4>1, <4>3, <2>Calls, Zenon
      <4>4. CASE pc' = "undone" /\ tgt \notin qdisc'
        BY <3>0, <3>1, <4>2, <4>4, <3>FaultMove, Zenon
      <4> QED  BY <4>1, <4>3, <4>4, Zenon
    <3> QED  BY <3>3, <3>4, <3>5, Zenon
  <2>FaultEnds. ASSUME TypeInv, IntentInv, FaultUndone \/ FaultSettle
                PROVE  IntentInv'
    <3> USE <2>FaultEnds
    <3>0. pc \in FaultJob /\ LaneAt
      BY Zenon DEF FaultUndone, FaultSettle, FaultJob, IntentInv, LaneInv
    <3>1. CASE FaultUndone
      <4>1. /\ tgt \notin qdisc
            /\ Committing(SetJob(SetFault(st, tgt, "cancelled"), job, "cancelled"), "loop", "catch")
        BY <3>0, <3>1, Zenon DEF FaultUndone, LaneAt, DropPlaces
      <4>2. "cancelled" \in FaultStates \ {"none"} /\ "cancelled" \in JobStates \ {"queued"}
        BY Zenon DEF FaultStates, JobStates
      <4> QED  BY <3>0, <4>1, <4>2, <2>FaultOutcome, Zenon
    <3>2. CASE FaultSettle
      <4> DEFINE v == IF This.op = "fault.apply" THEN "active" ELSE "removed"
      <4>1. Committing(SetJob(SetFault(st, tgt, v), job, "succeeded"), "loop", "catch")
        BY <3>2, Zenon DEF FaultSettle
      <4>2. tgt \notin qdisc \/ v \in InKernel
        BY <3>0, <3>2, Zenon DEF FaultSettle, LaneAt, FaultOps, InKernel
      <4>3. v \in FaultStates \ {"none"} /\ "succeeded" \in JobStates \ {"queued"}
        BY Zenon DEF FaultStates, JobStates
      <4> HIDE DEF v
      <4> QED  BY <3>0, <4>1, <4>2, <4>3, <2>FaultOutcome, Zenon
    <3> QED  BY <3>1, <3>2, Zenon
  \* Removals outside a fault job.
  <2>FaultDrops. ASSUME TypeInv, IntentInv, ClearFault \/ Expire
                 PROVE  IntentInv'
    <3> USE <2>FaultDrops
    <3>0. pc # "off" /\ LaneInv /\ "catch" \in Free /\ "close" \in Free /\ "m5fail" \in Free
          /\ "cleared" \in LanePlaces /\ "expired" \in LanePlaces
      BY Zenon DEF ClearFault, Expire, IntentInv, Free, LanePlaces, DropPlaces
    <3>1. /\ UNCHANGED <<st, disk, ext, running>> /\ qdisc' \subseteq qdisc
          /\ \/ pc' \in {"catch", "close", "m5fail"}
             \/ pc' \in {"cleared", "expired"} /\ tgt' \notin qdisc'
      <4>1. CASE ClearFault
        BY <4>1, Zenon DEF ClearFault, DropQdisc, DropThrows, journal, captures
      <4>2. CASE Expire
        BY <4>2, Zenon DEF Expire, DropQdisc, DropThrows, journal, captures, frame
      <4> QED  BY <4>1, <4>2, Zenon
    <3>2. CASE pc' \in {"catch", "close", "m5fail"}
      <4>1. pc' \in Free
        BY <3>0, <3>2, Zenon
      <4> QED  BY <3>0, <3>1, <4>1, <2>Calls, Zenon
    <3>3. CASE pc' \in {"cleared", "expired"} /\ tgt' \notin qdisc'
      <4>1. LaneBase'
        BY <3>0, <3>1, <2>LaneShrinks, Zenon
      <4>2. LaneAt'
        BY <3>3, Zenon DEF LaneAt, FaultJob
      <4>3. pc' \in LanePlaces
        BY <3>0, <3>3, Zenon
      <4> QED  BY <3>0, <3>1, <4>1, <4>2, <4>3, <2>LaneMoves, Zenon DEF LaneInv
    <3> QED  BY <3>1, <3>2, <3>3, Zenon
  <2>RecoverIntent. ASSUME TypeInv, IntentInv, RecoverFault
                    PROVE  IntentInv'
    <3> USE <2>RecoverIntent
    <3>0. pc # "off" /\ UNCHANGED <<disk, ext, running>> /\ "flt" \in Free /\ "m5fail" \in Free
      BY Zenon DEF RecoverFault, captures, Free
    <3>1. PICK f \in Faults :
            \/ qdisc' = qdisc \ {f} /\ st' = SetFault(st, f, "removed") /\ pc' = "flt"
            \/ qdisc' \subseteq qdisc /\ pc' = "m5fail" /\ UNCHANGED st
      BY Parts, Zenon DEF RecoverFault, FrameOK, DropQdisc, DropThrows
    <3>2. CASE qdisc' \subseteq qdisc /\ pc' = "m5fail" /\ UNCHANGED st
      BY <3>0, <3>2, <2>Calls, Zenon
    <3>3. CASE qdisc' = qdisc \ {f} /\ st' = SetFault(st, f, "removed") /\ pc' = "flt"
      <4>1. st \in Journal /\ qdisc \subseteq Faults
        BY Parts, Zenon DEF Good, HostOK
      <4>a. PICK t : t = SetFault(st, f, "removed")
        OBVIOUS
      <4>b. FaultSet(st, t, f, "removed") /\ st' = t
        BY <3>3, <4>1, <4>a, <1>SetFaultFields, Zenon
      <4>2. /\ \A g \in Faults \ {f} : st'.flt[g] = st.flt[g]
            /\ st'.res = st.res /\ SamePlan(st, st') /\ st'.job = st.job
        BY <4>b, Zenon DEF FaultSet
      <4>c. OneApply(t)
        BY <4>b, <2>FaultOneApply, Zenon
      <4>3. OneApply(st)' /\ OneApply(disk)'
        BY <3>0, <4>b, <4>c, Zenon DEF IntentInv, LaneInv, LaneBase
      <4>4. \A g \in qdisc' : st'.flt[g] \in InKernel /\ disk'.flt[g] \in InKernel
        BY <3>0, <3>3, <4>1, <4>2, Zenon DEF IntentInv, LaneInv, LaneBase
      <4>5. Unapplied'
        BY <3>0, <3>3, <4>2, ZenonT(30) DEF IntentInv, LaneInv, LaneBase, Unapplied,
            Applies
      <4>6. LaneInv'
        BY <3>0, <3>3, <4>3, <4>4, <4>5, <1>FreeLane, Zenon DEF LaneInv, LaneBase
      <4>7. pc' \notin ResPlaces /\ pc' \notin PlanPlaces /\ SamePlan(disk, disk')
        BY <3>0, <3>3, <1>FreeUnmarked, Zenon DEF Marked, SamePlan
      <4>8. ResInv'
        BY <3>0, <4>2, <4>7, ResQuiet, Zenon DEF IntentInv
      <4>9. PlanInv'
        BY <3>0, <4>2, <4>7, PlanQuiet, Zenon DEF IntentInv
      <4> QED  BY <4>6, <4>8, <4>9, Zenon DEF IntentInv
    <3> QED  BY <3>1, <3>2, <3>3, Zenon
  <2>TakeJobIntent. TypeInv /\ IntentInv /\ TakeJob => IntentInv'
    <3>FitSame. ASSUME IntentInv
                PROVE  LaneFit(st)
      BY <3>FitSame, Zenon DEF IntentInv, LaneInv, LaneBase, LaneFit, SamePlan
    <3> SUFFICES ASSUME TypeInv, IntentInv, TakeJob PROVE IntentInv'
      OBVIOUS
    <3>0. pc # "off" /\ UNCHANGED world /\ "off" \in Free /\ "fault" \in LanePlaces
      BY ZenonT(30) DEF TakeJob, Free, LanePlaces, FaultJob
    <3>1. PICK j \in JobIds : /\ st.job[j].is = "queued" /\ job' = j /\ tgt' = st.job[j].flt
                              /\ Save(SetJob(st, j, "running"), Entry(st.job[j].op), "off")
      BY ZenonT(30) DEF TakeJob
    <3>2. st \in Journal /\ st.job[j].op \in Operations /\ st.job[j].is # "absent"
      <4>1. st.job \in [JobIds -> Jobs]
        BY Parts, Zenon DEF Good, Journal
      <4> QED  BY <3>1, <4>1, Parts, ZenonT(30) DEF Good, Jobs
    <3>3. PICK new : new = SetJob(st, j, "running")
      OBVIOUS
    <3>4. /\ Calm(st, new)
          /\ new.job[j].is = "running" /\ new.job[j].op = st.job[j].op
          /\ new.job[j].flt = st.job[j].flt
      <4>1. "running" \in JobStates \ {"queued"}
        BY Zenon DEF JobStates
      <4>2. Calm(st, new)
        BY <3>2, <3>3, <4>1, <2>CalmSetJob, ZenonT(30)
      <4>3. JobSet(st, new, j, "running")
        BY <3>2, <3>3, <4>1, <2>SetJobFields, Zenon
      <4> QED  BY <4>2, <4>3, Zenon DEF JobSet
    <3>5. CASE st.job[j].op \notin FaultOps
      <4>1. Entry(st.job[j].op) \in Free
        BY <3>2, <3>5, Zenon DEF Entry, Operations, FaultOps, Free
      <4> QED  BY <3>0, <3>1, <3>3, <3>4, <4>1, <2>Saves, ZenonT(30)
    <3>6. CASE st.job[j].op \in FaultOps
      <4>1. Entry(st.job[j].op) = "fault"
        BY <3>6, Zenon DEF Entry, FaultOps
      <4>2. Save(new, "fault", "off")
        BY <3>1, <3>3, <4>1, Zenon
      <4>3. LaneFit(new)
        BY <3>4, <3>FitSame, <2>FitCalm, Zenon
      <4>4. CASE pc' = "off"
        <5>1. LaneAt'
          BY <3>0, <4>4, <1>FreeLane, Zenon
        <5> QED  BY <3>0, <4>2, <4>3, <5>1, <2>LaneCommit, Zenon
      <4>5. CASE pc' = "fault" /\ st' = new
        <5>1. /\ This'.op = st.job[j].op /\ This'.flt = st.job[j].flt /\ This'.is = "running"
              /\ qdisc' = qdisc
          BY <3>0, <3>1, <3>4, <4>5, ZenonT(30) DEF This, world
        <5>2. This'.op = "fault.apply" => tgt' \notin qdisc'
          BY <3>0, <3>1, <3>2, <5>1, ZenonT(30) DEF IntentInv, LaneInv, LaneBase,
              Unapplied, Applies
        <5>3. LaneAt'
          BY <3>1, <3>6, <4>5, <5>1, <5>2, ZenonT(30) DEF LaneAt, DropPlaces
        <5> QED  BY <3>0, <4>2, <4>3, <5>3, <2>LaneCommit, Zenon
      <4> QED  BY <4>2, <4>4, <4>5, Zenon DEF Save
    <3> QED  BY <3>5, <3>6, Zenon
  <2> SUFFICES ASSUME TypeInv, IntentInv, WorkerStep PROVE IntentInv'
    OBVIOUS
  <2>1. CASE JobStep
    BY <2>1, <2>TakeJobIntent, <2>QuietCalls, <2>OutcomeCommits, <2>ResourceSteps,
        <2>CaptureSteps,
       <2>CoverageCommits, <2>StateCommits, <2>OpeningCalls, <2>FaultDrops, <2>FaultCommits, Zenon DEF JobStep
  <2>2. CASE FaultStep
    BY <2>2, <2>FaultBeginIntent, <2>FaultCalls, <2>FaultEnds, Zenon DEF FaultStep
  <2>3. CASE MonitorStep
    BY <2>3, <2>QuietCalls, <2>FaultCommits, <2>MonitorCommits, <2>FaultDrops,
        Zenon DEF MonitorStep
  <2>4. CASE BootStep
    BY <2>4, <2>BootCommits, <2>QuietCalls, <2>RecoverIntent, Zenon DEF BootStep
  <2> QED  BY <2>1, <2>2, <2>3, <2>4, Zenon DEF WorkerStep
<1> SUFFICES ASSUME TypeInv, IntentInv, [Next]_vars PROVE IntentInv'
  OBVIOUS
<1>1. CASE UNCHANGED vars
  <2>1. UNCHANGED <<st, disk, pc, frame, ext, running, qdisc>>
    BY <1>1, Zenon DEF vars, journal, world, captures
  <2> QED  BY <2>1, <1>Still, Zenon
<1>2. CASE Environment
  <2>1. UNCHANGED <<st, disk, pc, frame, ext, qdisc>> /\ running' \subseteq running
    BY <1>2, Zenon DEF Environment, LeaseExpires, CaptureDies, FaultDue, journal,
        world, captures
  <2> QED  BY <2>1, <1>Still, Zenon
<1>3. CASE Shutdown
  <2>1. UNCHANGED <<st, disk, pc, frame, ext, running, qdisc>>
    BY <1>3, Zenon DEF Shutdown, world, captures
  <2> QED  BY <2>1, <1>Still, Zenon
<1>4. CASE Crash \/ Exit
  BY <1>4, <1>DiesIntent, Zenon DEF Crash, Exit
<1> QED  BY <1>1, <1>2, <1>3, <1>4, <1>DispatchIntent, <1>WorkerIntent, <1>BootIntent,
    Zenon DEF Next

\* Whatever crashed or failed, cleanup() finds in the journal on disk every
\* resource, capture worker and queueing discipline that exists on the host:
\* each was committed as an intent before the call that created it, and its
\* entry outlives it.
THEOREM IntentFirst == Spec => []NoOrphans
<1>1. EngineInv => TypeInv
  BY Zenon DEF EngineInv
<1>2. EngineInv /\ IntentInv /\ [Next]_vars => (EngineInv /\ IntentInv)'
  BY <1>1, NextInv, NextIntent, Zenon
<1>3. Init => EngineInv /\ IntentInv
  BY InitInv, InitIntent, Zenon
<1>4. IntentInv => NoOrphans
  BY Zenon DEF IntentInv, ResInv, PlanInv, LaneInv, LaneBase, NoOrphans
<1> QED  BY <1>2, <1>3, <1>4, PTL DEF Spec

=============================================================================
