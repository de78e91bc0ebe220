---------------------------- MODULE EngineProofs ----------------------------
(***************************************************************************)
(* The agent keeps its types, answers only from the committed journal, and *)
(* keeps what it answered, for every value of the constants.  What the     *)
(* mutations of the journal do, the invariant every step keeps, and the    *)
(* steps of the worker, of the constructor and of the requests.            *)
(***************************************************************************)
EXTENDS Engine, TLAPS

(***************************************************************************)
(* The journal documents the agent can hold: jobs name their run, fault    *)
(* jobs their fault, and keys their job.  Every mutation of the journal    *)
(* keeps the jobs and the keys it finds.                                   *)
(***************************************************************************)
FaultOps == {"fault.apply", "fault.remove"}
JobsOK(s) ==
  /\ \A j \in JobIds : s.job[j].is # "absent" =>
       s.job[j].run \in Runs /\ (s.job[j].op \in FaultOps => s.job[j].flt \in Faults)
  /\ \A k \in Keys : s.key[k] # NoEntry =>
       s.key[k].job \in JobIds /\ s.job[s.key[k].job].is # "absent"
JobsKept(s, t) ==
  /\ \A j \in JobIds : s.job[j].is # "absent" =>
       /\ t.job[j].is # "absent" /\ t.job[j].op = s.job[j].op
       /\ t.job[j].run = s.job[j].run /\ t.job[j].flt = s.job[j].flt
  /\ \A k \in Keys : s.key[k] # NoEntry => t.key[k] = s.key[k]
Good(s) == s \in Journal /\ JobsOK(s)
Follows(s, t) == Good(t) /\ JobsKept(s, t)

LEMMA SetStateType ==
  ASSUME NEW s \in Journal, NEW r, NEW v \in RunStates
  PROVE  SetState(s, r, v) \in Journal
BY Zenon DEF SetState, Journal

LEMMA SetCovType ==
  ASSUME NEW s \in Journal, NEW r, NEW v \in Coverage
  PROVE  SetCov(s, r, v) \in Journal
BY Zenon DEF SetCov, Journal

LEMMA SetFaultType ==
  ASSUME NEW s \in Journal, NEW f, NEW v \in FaultStates
  PROVE  SetFault(s, f, v) \in Journal
BY Zenon DEF SetFault, Journal

LEMMA SetJobType ==
  ASSUME NEW s \in Journal, NEW j, NEW v \in JobStates
  PROVE  SetJob(s, j, v) \in Journal
<1> DEFINE t == [s.job EXCEPT ![j] = [@ EXCEPT !.is = v]]
<1>1. t \in [JobIds -> Jobs]
  <2>1. s.job \in [JobIds -> Jobs]
    BY Zenon DEF Journal
  <2>2. \A i \in JobIds : [s.job[i] EXCEPT !.is = v] \in Jobs
    BY <2>1, Zenon DEF Jobs
  <2> QED  BY <2>1, <2>2, Zenon
<1> HIDE DEF t
<1>2. [s EXCEPT !.job = t] \in Journal
  BY <1>1, Zenon DEF Journal
<1>3. SetJob(s, j, v) = [s EXCEPT !.job = t]
  BY Zenon DEF SetJob, t
<1> QED  BY <1>2, <1>3, Zenon

LEMMA Increment ==
  ASSUME NEW S, NEW g \in [S -> Nat], NEW x
  PROVE  [g EXCEPT ![x] = @ + 1] \in [S -> Nat]
<1>1. CASE x \in S
  BY <1>1
<1>2. CASE x \notin S
  <2>1. [g EXCEPT ![x] = @ + 1] = g
    BY <1>2, Zenon
  <2> QED  BY <2>1, Zenon
<1> QED  BY <1>1, <1>2, Zenon

LEMMA BumpType ==
  ASSUME NEW s \in Journal, NEW r
  PROVE  Bump(s, r) \in Journal
<1> DEFINE t == [s.rev EXCEPT ![r] = @ + 1]
<1>1. t \in [Runs -> Nat]
  BY Increment, Zenon DEF Journal
<1> HIDE DEF t
<1>2. [s EXCEPT !.rev = t] \in Journal
  BY <1>1, Zenon DEF Journal
<1>3. Bump(s, r) = [s EXCEPT !.rev = t]
  BY Zenon DEF Bump, t
<1> QED  BY <1>2, <1>3, Zenon

LEMMA SameJobs ==
  ASSUME NEW s, NEW t \in Journal, Good(s), t.job = s.job, t.key = s.key
  PROVE  Follows(s, t)
BY Zenon DEF Follows, Good, JobsOK, JobsKept

\* A new job takes a place in the journal that no job has.
Entered(s, t, k, j, req) ==
  Follows(s, t) /\ t.job[j].is # "absent" /\ t.key[k] = [req |-> req, job |-> j]
Replies == [key : Keys, req : Requests, job : JobIds]

\* The reply, if one is sent, is the one the journal on disk now holds.
Recorded(a) == disk.key[a.key] = [req |-> a.req, job |-> a.job] /\ disk.job[a.job].is # "absent"
AcksRecorded == \A a \in acked' : a \in acked \/ Recorded(a)'

LEMMA SameJobField ==
  ASSUME NEW s \in Journal, NEW r, NEW f, NEW v
  PROVE  /\ Bump(s, r).job = s.job /\ SetFault(s, f, v).job = s.job
         /\ NewRun(s, r).job = s.job /\ Bump(s, r).key = s.key
         /\ SetFault(s, f, v).key = s.key /\ NewRun(s, r).key = s.key
BY Zenon DEF Journal, Bump, SetFault, NewRun

LEMMA NewRunFollows ==
  ASSUME NEW s, Good(s), NEW r
  PROVE  Follows(s, NewRun(s, r))
<1> DEFINE v == [s.state EXCEPT ![r] = "preparing"]
           a == [s.rev EXCEPT ![r] = 1]
           g == [s.gen EXCEPT ![r] = 1]
           c == [s.cov EXCEPT ![r] = IF r \in Recording THEN "pending" ELSE "unavailable"]
<1>1. /\ v \in [Runs -> RunStates] /\ a \in [Runs -> Nat] /\ g \in [Runs -> Nat]
      /\ c \in [Runs -> Coverage]
  BY Zenon DEF Good, Journal, RunStates, Coverage
<1>2. NewRun(s, r) = [s EXCEPT !.state = v, !.rev = a, !.gen = g, !.cov = c]
  BY Zenon DEF NewRun
<1> HIDE DEF v, a, g, c
<1>3. [s EXCEPT !.state = v, !.rev = a, !.gen = g, !.cov = c] \in Journal
  BY <1>1, Zenon DEF Good, Journal
<1>4. NewRun(s, r).job = s.job /\ NewRun(s, r).key = s.key
  BY SameJobField, Zenon DEF Good
<1> QED  BY <1>2, <1>3, <1>4, SameJobs, Zenon

(***************************************************************************)
(* What the worker's frame holds at each of its places.                    *)
(***************************************************************************)
JobPlaces ==
  {"catch", "failed", "preflight", "next", "prepare", "prepared", "stopold", "epoch", "plan",
   "planned", "arm", "armed", "converge", "activate", "status", "release", "ready", "recheck",
   "quiesce", "stopped", "destroy", "compensate", "hold", "clear", "cleared", "close", "closed",
   "remove", "removed", "destroyed", "cancelled", "observe", "finish", "fault", "effect",
   "verdict", "undo", "undone", "settle"}
M5Places == {"m5", "expire", "expired", "m5fail", "m5hold", "m5note"}
FaultPlaces == {"fault", "effect", "verdict", "undo", "undone", "settle", "cleared",
                "expire", "expired", "m5fail", "m5hold", "m5note"}
BootPlaces == {"recover", "adopt", "bquiesce", "adopted", "flt"}
InJob(p) == p \in JobPlaces \/ (p \in M5Places /\ ret \in {"before", "after"})
FrameAt(p) ==
  /\ InJob(p) => job \in JobIds
  /\ InJob(p) \/ p \in {"mcatch", "mfail", "adopt", "bquiesce", "adopted"} => run \in Runs
  /\ p \in FaultPlaces => tgt \in Faults
  /\ p \in {"prepare", "prepared", "removed"} => slot \in Slots
  /\ p \in BootPlaces => ret = "boot"
  /\ p \notin BootPlaces \cup {"off", "m5fail", "m5hold", "m5note"} => ret # "boot"

\* The inductive invariant: types, the journal's own consistency, that memory
\* has every job and key the disk has, and the frame.
TypeInv ==
  /\ TypeOK /\ JobsOK(st) /\ JobsOK(disk) /\ JobsKept(disk, st)
  /\ FrameAt(pc)
  /\ InJob(pc) => st.job[job].is # "absent"

\* What every step keeps: the invariant, and the jobs and keys on disk.
Advance == TypeInv' /\ JobsKept(disk, disk')

\* Memory and disk differ only where nobody is served.
DurableInv == ret = "boot" \/ pc = "off" \/ stopping \/ st = disk

LEMMA KeptSame == ASSUME NEW s PROVE JobsKept(s, s)
BY Zenon DEF JobsKept

Budget == [{"crash", "fail", "save"} -> Nat]

\* The types of the frame's variables, and a step seen part by part.
FrameOK ==
  /\ job \in JobIds \cup {0} /\ run \in Runs \cup {NoRun} /\ tgt \in Faults \cup {NoFault}
  /\ slot \in Slots \cup {0} /\ ret \in {"monitor", "before", "after", "boot"}
  /\ was \in BOOLEAN /\ todo \subseteq Recording /\ ftodo \subseteq Faults

LEMMA Parts ==
  ASSUME TypeInv
  PROVE  /\ Good(st) /\ Good(disk) /\ JobsKept(disk, st) /\ stopping \in BOOLEAN
         /\ left \in Budget /\ HostOK /\ FrameOK /\ pc \in Places
         /\ due \subseteq Faults /\ acked \subseteq Replies
BY Zenon DEF TypeInv, TypeOK, Good, Budget, FrameOK, Replies

LEMMA KnownPlaces ==
  /\ JobPlaces \subseteq Places /\ M5Places \subseteq Places /\ BootPlaces \subseteq Places
  /\ {"off", "loop", "m5err", "renew", "mcatch", "mfail"} \subseteq Places
BY DEF JobPlaces, M5Places, BootPlaces, Places

(***************************************************************************)
(* The steps of a job.                                                     *)
(***************************************************************************)
LEMMA Jobbing ==
  ASSUME TypeInv, pc \in JobPlaces
  PROVE  /\ Good(st) /\ job \in JobIds /\ st.job[job].is # "absent" /\ run \in Runs
         /\ InJob(pc) /\ ret # "boot" /\ left \in Budget /\ HostOK
BY Zenon DEF TypeInv, TypeOK, Good, FrameAt, InJob, JobPlaces, BootPlaces, Budget

\* Places a job reaches without a new fault or slot.
Plain == JobPlaces \ (FaultPlaces \cup {"prepare", "prepared", "removed"})

FaultJob == {"fault", "effect", "verdict", "undo", "undone", "settle"}
LEMMA Faulting ==
  ASSUME TypeInv, pc \in FaultJob
  PROVE  /\ pc \in JobPlaces /\ tgt \in Faults
         /\ \A p \in FaultJob \cup {"catch", "loop"} :
              FrameAt(p) /\ p \in Places /\ (InJob(p) => InJob(pc))
<1>1. pc \in JobPlaces /\ tgt \in Faults
  BY Zenon DEF TypeInv, FrameAt, FaultJob, JobPlaces, FaultPlaces
<1>2. ASSUME NEW p \in FaultJob \cup {"catch", "loop"}
      PROVE  FrameAt(p) /\ p \in Places /\ (InJob(p) => InJob(pc))
  <2>1. p \in Places
    BY <1>2, KnownPlaces, Zenon DEF FaultJob, JobPlaces
  <2>2. p \notin BootPlaces \cup {"prepare", "prepared", "removed"}
    BY <1>2, Zenon DEF FaultJob, BootPlaces
  <2>3. p \notin {"mcatch", "mfail", "adopt", "bquiesce", "adopted"}
    BY <1>2, Zenon DEF FaultJob
  <2> QED  BY <1>1, <2>1, <2>2, <2>3, Jobbing, Zenon DEF FrameAt
<1> QED  BY <1>1, <1>2, Zenon

(***************************************************************************)
(* The steps of a job.                                                     *)
(***************************************************************************)

(***************************************************************************)
(* The steps of a fault job.                                               *)
(***************************************************************************)

(***************************************************************************)
(* The steps of the monitor.                                               *)
(***************************************************************************)
(***************************************************************************)
(* The constructor.                                                        *)
(***************************************************************************)
(***************************************************************************)
(* The end of the process, and the environment.                            *)
(***************************************************************************)
(***************************************************************************)
(* Requests.                                                               *)
(***************************************************************************)

(***************************************************************************)
(* Memory and disk differ only where nobody is served: in the constructor, *)
(* and after a commit that failed.                                         *)
(***************************************************************************)

(***************************************************************************)
(* The theorems.                                                           *)
(***************************************************************************)
EngineInv == TypeInv /\ DurableInv /\ RepliesAreDurable

LEMMA InvImplies ==
  EngineInv => TypeOK /\ VisibleIsDurable /\ RepliesAreDurable
BY ZenonT(30) DEF EngineInv, TypeInv, DurableInv, VisibleIsDurable, Serving

LEMMA InitInv ==
  Init => EngineInv
<1>BudgetType.
    ASSUME NEW a \in Nat, NEW b \in Nat, NEW c \in Nat
    PROVE  [crash |-> a, fail |-> b, save |-> c] \in [{"crash", "fail", "save"} -> Nat]
  BY <1>BudgetType
<1> SUFFICES ASSUME Init PROVE EngineInv
  OBVIOUS
<1>1. NoJob \in Jobs /\ NoEntry \in Entries /\ NoJob.is = "absent"
  BY ZenonT(30) DEF NoJob, Jobs, NoEntry, Entries, StartRequest, Requests, JobStates,
      Operations
<1>2. EmptyJournal \in Journal
  BY <1>1, ZenonT(30) DEF EmptyJournal, Journal, RunStates, Coverage, ResourceStates,
      FaultStates
<1>3. JobsOK(EmptyJournal)
  BY <1>1, ZenonT(30) DEF EmptyJournal, JobsOK
<1>4. left \in Budget
  <2>1. MaxCrashes \in Nat /\ MaxFailures \in Nat /\ MaxSaveFailures \in Nat
    BY EngineAssumption, Zenon
  <2> QED  BY <2>1, <1>BudgetType, Zenon DEF Init, Budget
<1>5. HostOK
  BY Zenon DEF Init, HostOK
<1>6. TypeOK
  BY <1>2, <1>4, <1>5, ZenonT(30) DEF Init, TypeOK, Budget, Places
<1>7. FrameAt(pc) /\ ~InJob(pc)
  BY ZenonT(30) DEF Init, FrameAt, InJob, JobPlaces, M5Places, FaultPlaces, BootPlaces
<1>8. DurableInv /\ RepliesAreDurable
  BY Zenon DEF Init, DurableInv, RepliesAreDurable
<1> QED  BY <1>3, <1>6, <1>7, <1>8, KeptSame, ZenonT(30) DEF EngineInv, TypeInv, Init

LEMMA NextInv ==
  EngineInv /\ [Next]_vars => EngineInv' /\ Advance
<1>FollowsTrans. ASSUME NEW s, NEW t, NEW u, Follows(s, t), Follows(t, u)
                 PROVE  Follows(s, u)
  BY <1>FollowsTrans, Zenon DEF Follows, JobsKept
<1>StateFollows. ASSUME NEW s, Good(s), NEW r, NEW v \in RunStates
                 PROVE  Follows(s, SetState(s, r, v))
  <2> USE <1>StateFollows
  <2>1. SetState(s, r, v).job = s.job /\ SetState(s, r, v).key = s.key
    BY Zenon DEF Good, Journal, SetState
  <2> QED  BY <2>1, SameJobs, SetStateType, Zenon DEF Good
<1>CovFollows. ASSUME NEW s, Good(s), NEW r, NEW v \in Coverage
               PROVE  Follows(s, SetCov(s, r, v))
  <2> USE <1>CovFollows
  <2>1. SetCov(s, r, v).job = s.job /\ SetCov(s, r, v).key = s.key
    BY Zenon DEF Good, Journal, SetCov
  <2> QED  BY <2>1, SameJobs, SetCovType, Zenon DEF Good
<1>FaultFollows. ASSUME NEW s, Good(s), NEW f, NEW v \in FaultStates
                 PROVE  Follows(s, SetFault(s, f, v))
  <2> USE <1>FaultFollows
  <2>1. SetFault(s, f, v).job = s.job /\ SetFault(s, f, v).key = s.key
    BY Zenon DEF Good, Journal, SetFault
  <2> QED  BY <2>1, SameJobs, SetFaultType, Zenon DEF Good
<1>BumpFollows. ASSUME NEW s, Good(s), NEW r
                PROVE  Follows(s, Bump(s, r))
  <2> USE <1>BumpFollows
  <2>1. Bump(s, r).job = s.job /\ Bump(s, r).key = s.key
    BY Zenon DEF Good, Journal, Bump
  <2> QED  BY <2>1, SameJobs, BumpType, Zenon DEF Good
\* Only a job that exists changes its state.
<1>JobFollows. ASSUME NEW s, Good(s), NEW j \in JobIds, s.job[j].is # "absent",
                      NEW v \in JobStates \ {"absent"}
               PROVE  Follows(s, SetJob(s, j, v))
  <2> USE <1>JobFollows
  <2> DEFINE t == SetJob(s, j, v)
  <2>1. t.job = [s.job EXCEPT ![j] = [@ EXCEPT !.is = v]] /\ t.key = s.key
    BY Zenon DEF Good, Journal, SetJob
  <2>2. s.job \in [JobIds -> Jobs]
    BY Zenon DEF Good, Journal
  <2>3. /\ t.job[j] = [s.job[j] EXCEPT !.is = v]
        /\ \A i \in JobIds \ {j} : t.job[i] = s.job[i]
    BY <2>1, <2>2, Zenon
  <2>4. /\ t.job[j].is = v /\ t.job[j].op = s.job[j].op
        /\ t.job[j].run = s.job[j].run /\ t.job[j].flt = s.job[j].flt
    BY <2>2, <2>3 DEF Jobs
  <2>5. t \in Journal
    BY SetJobType, Zenon DEF Good
  <2> HIDE DEF t
  <2>6. /\ t.job[j].is # "absent"
        /\ \A i \in JobIds : /\ t.job[i].is # "absent" <=> s.job[i].is # "absent"
                             /\ t.job[i].op = s.job[i].op /\ t.job[i].run = s.job[i].run
                             /\ t.job[i].flt = s.job[i].flt
    BY <2>3, <2>4, Zenon
  <2>7. JobsKept(s, t)
    BY <2>1, <2>6, Zenon DEF JobsKept
  <2>8. JobsOK(t)
    <3>1. ASSUME NEW i \in JobIds, t.job[i].is # "absent"
          PROVE  t.job[i].run \in Runs /\ (t.job[i].op \in FaultOps => t.job[i].flt \in Faults)
      BY <2>6, <3>1, Zenon DEF Good, JobsOK
    <3>2. ASSUME NEW k \in Keys, t.key[k] # NoEntry
          PROVE  t.key[k].job \in JobIds /\ t.job[t.key[k].job].is # "absent"
      BY <2>1, <2>6, <3>2, Zenon DEF Good, JobsOK
    <3> QED  BY <3>1, <3>2, Zenon DEF JobsOK
  <2>9. Follows(s, t)
    BY <2>5, <2>7, <2>8, Zenon DEF Follows, Good
  <2> QED  BY <2>9, Zenon DEF t
<1>SpendType. ASSUME left \in Budget, NEW kind \in {"crash", "fail", "save"}, Spend(kind)
              PROVE  left' \in Budget
  BY <1>SpendType DEF Spend, Budget
<1>ThrowsType. ASSUME left \in Budget, NEW b, Throws(b)
               PROVE  left' \in Budget
  BY <1>ThrowsType, <1>SpendType, Zenon DEF Throws
<1>SaveType.
    ASSUME TypeInv, NEW new, Follows(st, new), NEW next \in Places, NEW h \in Places,
           Save(new, next, h)
    PROVE  /\ Good(st') /\ Good(disk') /\ stopping' \in BOOLEAN /\ left' \in Budget
           /\ JobsKept(disk, disk') /\ JobsKept(disk', st')
           /\ \/ pc' = next /\ st' = new
              \/ pc' = h /\ (st' = new \/ h = "off")
  <2> USE <1>SaveType
  <2>1. left \in Budget
    BY Zenon DEF TypeInv, TypeOK, Budget
  <2>2. Good(st) /\ Good(disk) /\ Good(new)
    BY Zenon DEF TypeInv, TypeOK, Good, Follows
  <2>3. left' \in Budget
    BY <2>1, <1>SpendType, Zenon DEF Save
  <2>4. JobsKept(disk, new)
    BY Zenon DEF TypeInv, Follows, JobsKept
  <2> QED  BY <2>2, <2>3, <2>4, KeptSame, Zenon DEF Save, TypeInv, TypeOK
<1>MovedStep. ASSUME TypeInv, UNCHANGED <<due, acked>>, FrameOK',
                     Good(st'), Good(disk'), JobsKept(disk, disk'), JobsKept(disk', st'),
                     stopping' \in BOOLEAN, left' \in Budget, HostOK',
                     pc' \in Places, FrameAt(pc)', (InJob(pc) => st.job[job].is # "absent")'
              PROVE  Advance
  <2> USE <1>MovedStep
  <2>1. TypeOK'
    BY Zenon DEF TypeInv, TypeOK, Good, FrameOK, Budget
  <2> QED  BY <2>1, Zenon DEF Advance, TypeInv, Good
<1>MovedCall.
    ASSUME TypeInv, UNCHANGED <<journal, due, acked>>, FrameOK', left' \in Budget, HostOK',
           pc' \in Places, FrameAt(pc)', (InJob(pc) => st.job[job].is # "absent")'
    PROVE  Advance
  <2> USE <1>MovedCall
  <2>1. Good(st') /\ Good(disk') /\ JobsKept(disk, disk') /\ JobsKept(disk', st')
        /\ stopping' \in BOOLEAN
    BY Parts, KeptSame, Zenon DEF journal
  <2> QED  BY <2>1, <1>MovedStep, Zenon
\* A step that leaves the frame alone.
<1>FrameStep. ASSUME TypeInv, UNCHANGED <<frame, due, acked>>,
                     Good(st'), Good(disk'), JobsKept(disk, disk'), JobsKept(disk', st'),
                     stopping' \in BOOLEAN, left' \in Budget, HostOK',
                     pc' \in Places, FrameAt(pc'), InJob(pc') => st'.job[job].is # "absent"
              PROVE  Advance
  BY <1>FrameStep DEF Advance, TypeInv, TypeOK, Good, frame, FrameAt, InJob, Budget
<1>CommitStep.
    ASSUME TypeInv, NEW new, Follows(st, new), NEW next \in Places, NEW h \in Places,
           FrameAt(next), FrameAt(h), InJob(next) \/ InJob(h) => InJob(pc),
           Committing(new, next, h)
    PROVE  Advance
  <2> USE <1>CommitStep
  <2>1. Save(new, next, h) /\ UNCHANGED <<frame, world, due, acked>>
    BY Zenon DEF Committing
  <2>2. /\ Good(st') /\ Good(disk') /\ stopping' \in BOOLEAN /\ left' \in Budget
        /\ JobsKept(disk, disk') /\ JobsKept(disk', st')
        /\ \/ pc' = next /\ st' = new
           \/ pc' = h /\ (st' = new \/ h = "off")
    BY <2>1, <1>SaveType, Zenon
  <2>3. HostOK'
    BY <2>1, Zenon DEF HostOK, TypeInv, TypeOK, world, captures
  <2>4. InJob(pc) => new.job[job].is # "absent"
    BY Zenon DEF TypeInv, Follows, JobsKept, FrameAt
  <2>5. ~InJob("off")
    BY Zenon DEF InJob, JobPlaces, M5Places
  <2>6. FrameAt(pc') /\ pc' \in Places /\ (InJob(pc') => st'.job[job].is # "absent")
    BY <2>2, <2>4, <2>5, Zenon
  <2> QED  BY <2>1, <2>2, <2>3, <2>6, <1>FrameStep, Zenon
\* A backend call: the host may change, the journal does not.
<1>CallStep.
    ASSUME TypeInv, UNCHANGED <<journal, frame, due, acked>>, HostOK', left' \in Budget,
           pc' \in Places, FrameAt(pc'), InJob(pc') => InJob(pc)
    PROVE  Advance
  <2> USE <1>CallStep
  <2>1. Good(st') /\ Good(disk') /\ stopping' \in BOOLEAN /\ st' = st
        /\ JobsKept(disk, disk') /\ JobsKept(disk', st')
    BY KeptSame, Zenon DEF TypeInv, TypeOK, Good, journal
  <2> QED  BY <2>1, <1>FrameStep, Zenon DEF TypeInv
<1>SameHost. ASSUME HostOK, UNCHANGED world
             PROVE  HostOK'
  BY <1>SameHost, Zenon DEF HostOK, world, captures
<1>QuiesceType.
    ASSUME HostOK, left \in Budget, NEW r, QuiesceAttempt(r), UNCHANGED <<ext, captures, qdisc>>
    PROVE  HostOK' /\ left' \in Budget
  <2> USE <1>QuiesceType
  <2>1. open' \subseteq open
    BY Zenon DEF QuiesceAttempt, Quiesced, QuiesceThrows
  <2>2. left' \in Budget
    BY <1>ThrowsType, Zenon DEF QuiesceAttempt, Quiesced, QuiesceThrows
  <2> QED  BY <2>1, <2>2, Zenon DEF HostOK, captures
<1>AdoptType. ASSUME HostOK, Good(st), NEW r \in Runs, NEW E, Adopted(r, E)
              PROVE  wgen' \in [Runs -> [Edges -> Nat]]
  BY <1>AdoptType, Zenon DEF Adopted, HostOK, Good, Journal
<1>JobStepType. TypeInv /\ JobStep => Advance
  <2>SetResType. ASSUME NEW s \in Journal, NEW r, NEW i, NEW v \in ResourceStates
                 PROVE  SetRes(s, r, i, v) \in Journal
    BY <2>SetResType, Zenon DEF SetRes, Journal
  <2>ResFollows. ASSUME NEW s, Good(s), NEW r, NEW i, NEW v \in ResourceStates
                 PROVE  Follows(s, SetRes(s, r, i, v))
    <3> USE <2>ResFollows
    <3>1. SetRes(s, r, i, v).job = s.job /\ SetRes(s, r, i, v).key = s.key
      BY Zenon DEF Good, Journal, SetRes
    <3> QED  BY <3>1, SameJobs, <2>SetResType, Zenon DEF Good
  <2>PlainFrame.
      ASSUME TypeInv, pc \in JobPlaces, NEW p \in Plain \cup {"loop", "off", "m5"}
      PROVE  FrameAt(p) /\ p \in Places /\ (InJob(p) => InJob(pc))
    <3> USE <2>PlainFrame
    <3>1. p \in Places
      BY KnownPlaces, Zenon DEF Plain, M5Places
    <3>2. p \notin FaultPlaces \cup BootPlaces \cup {"prepare", "prepared", "removed"}
          /\ p \notin {"mcatch", "mfail", "adopt", "bquiesce", "adopted"}
      BY Zenon DEF Plain, JobPlaces, FaultPlaces, BootPlaces
    <3> QED  BY <3>1, <3>2, Jobbing, Zenon DEF FrameAt
  \* A job's commit between two such places, and a call that changes nothing.
  <2>JobCommit.
      ASSUME TypeInv, pc \in JobPlaces, NEW new, Follows(st, new),
             NEW next \in Plain \cup {"loop"}, NEW h \in {"catch", "off"}, Committing(new, next, h)
      PROVE  Advance
    <3> USE <2>JobCommit
    <3>1. h \in Plain \cup {"loop", "off"}
      BY Zenon DEF Plain, JobPlaces, FaultPlaces
    <3> QED  BY <3>1, <2>PlainFrame, <1>CommitStep, Zenon
  <2>JobCall.
      ASSUME TypeInv, pc \in JobPlaces, UNCHANGED <<journal, frame, due, acked>>, HostOK',
             left' \in Budget, pc' \in Plain \cup {"m5"}
      PROVE  Advance
    BY <2>JobCall, <2>PlainFrame, <1>CallStep, Zenon
  <2>TakeJobType. TypeInv /\ TakeJob => Advance
    <3>EntryPlace.
        ASSUME NEW op \in Operations
        PROVE  Entry(op) \in Plain \cup {"m5", "fault"} /\ (Entry(op) = "fault" => op \in FaultOps)
      BY <3>EntryPlace DEF Entry, Operations, Plain, JobPlaces, FaultPlaces, FaultOps
    <3> SUFFICES ASSUME TypeInv, TakeJob PROVE Advance
      OBVIOUS
    <3>1. PICK j \in JobIds :
            /\ st.job[j].is = "queued"
            /\ job' = j /\ run' = st.job[j].run /\ tgt' = st.job[j].flt /\ ret' = "before"
            /\ Save(SetJob(st, j, "running"), Entry(st.job[j].op), "off")
      BY Zenon DEF TakeJob
    <3> DEFINE new == SetJob(st, j, "running")
               next == Entry(st.job[j].op)
    <3>2. Good(st) /\ st.job[j] \in Jobs
      BY Zenon DEF TypeInv, TypeOK, Good, Journal
    <3>3. Follows(st, new)
      BY <3>1, <3>2, <1>JobFollows, Zenon DEF JobStates
    <3>4. next \in Plain \cup {"m5", "fault"} /\ (next = "fault" => st.job[j].op \in FaultOps)
      BY <3>2, <3>EntryPlace, Zenon DEF Jobs
    <3>5. next \in Places /\ "off" \in Places
      BY <3>4, KnownPlaces, Zenon DEF Plain, JobPlaces, M5Places
    <3>6. st.job[j].run \in Runs /\ st.job[j].flt \in Faults \cup {NoFault}
          /\ (next = "fault" => st.job[j].flt \in Faults)
      BY <3>1, <3>2, <3>4, Zenon DEF Good, JobsOK, Jobs
    <3>7. new.job[j].is # "absent"
      BY <3>1, <3>3, Zenon DEF Follows, JobsKept
    <3> HIDE DEF new, next
    <3>8. /\ Good(st') /\ Good(disk') /\ stopping' \in BOOLEAN /\ left' \in Budget
          /\ JobsKept(disk, disk') /\ JobsKept(disk', st')
          /\ (pc' = next /\ st' = new) \/ pc' = "off"
      BY <3>1, <3>3, <3>5, <1>SaveType, Zenon DEF new, next
    <3>9. UNCHANGED <<slot, was, todo, ftodo, world, due, acked>>
      BY Zenon DEF TakeJob
    <3>10. HostOK'
      BY <3>9, <1>SameHost, Zenon DEF TypeInv, TypeOK
    <3>11. FrameOK' /\ pc' \in Places
      BY <3>1, <3>5, <3>6, <3>8, <3>9, Parts, Zenon DEF FrameOK
    <3>12. FrameAt(pc)'
      BY <3>1, <3>4, <3>6, <3>8, <3>9, Zenon
         DEF FrameAt, InJob, JobPlaces, M5Places, FaultPlaces, BootPlaces, Plain
    <3>13. (InJob(pc) => st.job[job].is # "absent")'
      BY <3>1, <3>7, <3>8, Zenon DEF InJob, JobPlaces, M5Places
    <3> QED  BY <3>8, <3>9, <3>10, <3>11, <3>12, <3>13, <1>MovedStep, Zenon
  <2>CheckedPlace. ASSUME NEW p \in Plain
                   PROVE  Checked(p) \in Plain
    BY <2>CheckedPlace DEF Checked, Plain, JobPlaces, FaultPlaces
  <2>StartType. ASSUME TypeInv, Preflight \/ NextResource \/ Prepare \/ Prepared
                PROVE  Advance
    <3> USE <2>StartType
    <3> USE DEF Plain, JobPlaces, FaultPlaces
    <3>1. CASE Preflight
      <4>1. HostOK' /\ left' \in Budget /\ UNCHANGED <<journal, frame, due, acked>>
        BY <3>1, Jobbing, <1>SameHost, <1>ThrowsType, Zenon DEF Preflight
      <4>2. pc \in JobPlaces /\ pc' \in Plain
        BY <3>1, Zenon DEF Preflight
      <4> QED  BY <4>1, <4>2, <2>JobCall, Zenon
    <3>2. CASE NextResource
      <4>0. pc = "next" /\ UNCHANGED <<job, run, tgt, ret, was, todo, ftodo, world, due, acked>>
        BY <3>2, Zenon DEF NextResource
      <4>1. CASE \E i \in Absent(st, run) : slot' = i /\ Save(SetRes(st, run, i, "intent"), "prepare", "catch")
        <5>1. PICK i \in Slots : slot' = i /\ Save(SetRes(st, run, i, "intent"), "prepare", "catch")
          BY <4>1, Zenon DEF Absent
        <5> DEFINE new == SetRes(st, run, i, "intent")
        <5>2. Follows(st, new)
          BY <4>0, Jobbing, <2>ResFollows, Zenon DEF ResourceStates
        <5>a. Save(new, "prepare", "catch") /\ "prepare" \in Places /\ "catch" \in Places
          BY <5>1 DEF Places
        <5> HIDE DEF new
        <5>3. /\ Good(st') /\ Good(disk') /\ stopping' \in BOOLEAN /\ left' \in Budget
              /\ JobsKept(disk, disk') /\ JobsKept(disk', st')
              /\ pc' \in {"prepare", "catch"} /\ st' = new
          BY <5>2, <5>a, <1>SaveType, Zenon
        <5>4. new.job[job].is # "absent"
          BY <4>0, <5>2, Jobbing, Zenon DEF Follows, JobsKept
        <5>5. HostOK'
          BY <4>0, Jobbing, <1>SameHost, Zenon
        <5>6. FrameOK' /\ pc' \in Places
          BY <4>0, <5>1, <5>3, <5>a, Parts, Zenon DEF FrameOK
        <5>7. FrameAt(pc)'
          BY <4>0, <5>1, <5>3, Jobbing, Zenon DEF FrameAt, InJob, M5Places, BootPlaces
        <5> QED  BY <4>0, <5>3, <5>4, <5>5, <5>6, <5>7, <1>MovedStep, Zenon
      <4>2. CASE pc' = Checked(AfterResources) /\ UNCHANGED <<journal, slot, left>>
        <5>1. AfterResources \in Plain
          BY Zenon DEF AfterResources
        <5>2. pc' \in Plain
          BY <4>2, <5>1, <2>CheckedPlace, Zenon
        <5>3. HostOK' /\ left' \in Budget
          BY <4>0, <4>2, Jobbing, <1>SameHost, Zenon
        <5> QED  BY <4>0, <4>2, <5>2, <5>3, <2>JobCall, Zenon DEF frame
      <4> QED  BY <3>2, <4>1, <4>2, Zenon DEF NextResource
    <3>3. CASE Prepare
      <4>1. ext' \subseteq ext \cup {<<run, slot>>} /\ pc' \in {"prepared", "catch"} /\ left' \in Budget
        BY <3>3, Jobbing, <1>SpendType, Zenon DEF Prepare, Created, CreateThrows
      <4>2. run \in Runs /\ slot \in Slots
        BY <3>3, Zenon DEF Prepare, TypeInv, FrameAt, InJob
      <4>3. HostOK'
        BY <3>3, <4>1, <4>2, Jobbing DEF Prepare, HostOK, captures
      <4>4. FrameAt(pc') /\ pc' \in Places /\ InJob(pc)
        BY <3>3, <4>1, <4>2, Jobbing DEF Prepare, FrameAt, InJob, M5Places, BootPlaces,
            Places
      <4> QED  BY <3>3, <4>1, <4>3, <4>4, <1>CallStep, Zenon DEF Prepare
    <3>4. CASE Prepared
      <4>1. Follows(st, SetRes(st, run, slot, "prepared"))
        BY <3>4, Jobbing, <2>ResFollows, Zenon DEF Prepared, ResourceStates
      <4> QED  BY <3>4, <4>1, <2>JobCommit, Zenon DEF Prepared
    <3> QED  BY <3>1, <3>2, <3>3, <3>4, Zenon
  <2>StopType.
      ASSUME HostOK, Good(st), left \in Budget, NEW r \in Runs, StopCaptures(r) \/ StopThrows(r),
             UNCHANGED <<ext, open, qdisc>>
      PROVE  HostOK' /\ left' \in Budget
    <3> USE <2>StopType
    <3>1. running' \subseteq running /\ sealed' \subseteq sealed \cup running
          /\ UNCHANGED <<dirs, conf>> /\ wgen' \in [Runs -> [Edges -> Nat]]
      BY <1>AdoptType, Zenon DEF StopCaptures, StopThrows, HostOK
    <3>2. left' \in Budget
      BY <1>ThrowsType, Zenon DEF StopCaptures, StopThrows
    <3> QED  BY <3>1, <3>2, Zenon DEF HostOK
  <2>ArmingType.
      TypeInv /\ (StopOld \/ Epoch \/ PlanCall \/ PlanCaptures \/ Arm \/ Armed) => Advance
    <3>EpochFollows. ASSUME NEW s, Good(s), NEW r
                     PROVE  Follows(s, NewEpoch(s, r))
      <4> USE <3>EpochFollows
      <4> DEFINE e == [s.epoch EXCEPT ![r] = @ + 1]
                 p == [s.planned EXCEPT ![r] = FALSE]
      <4>1. e \in [Runs -> Nat] /\ p \in [Runs -> BOOLEAN]
        BY Increment, Zenon DEF Good, Journal
      <4>2. NewEpoch(s, r) = [s EXCEPT !.epoch = e, !.planned = p]
        BY Zenon DEF NewEpoch
      <4> HIDE DEF e, p
      <4>3. [s EXCEPT !.epoch = e, !.planned = p] \in Journal
        BY <4>1, Zenon DEF Good, Journal
      <4>4. [s EXCEPT !.epoch = e, !.planned = p].job = s.job
            /\ [s EXCEPT !.epoch = e, !.planned = p].key = s.key
        BY Zenon DEF Good, Journal
      <4> QED  BY <4>2, <4>3, <4>4, SameJobs, Zenon
    <3>PlanFollows. ASSUME NEW s, Good(s), NEW r
                    PROVE  Follows(s, [s EXCEPT !.planned[r] = TRUE])
      <4> USE <3>PlanFollows
      <4>1. [s EXCEPT !.planned[r] = TRUE] \in Journal
        BY Zenon DEF Good, Journal
      <4>2. [s EXCEPT !.planned[r] = TRUE].job = s.job
            /\ [s EXCEPT !.planned[r] = TRUE].key = s.key
        BY Zenon DEF Good, Journal
      <4> QED  BY <4>1, <4>2, SameJobs, Zenon
    <3>CallingStep. ASSUME TypeInv, pc \in JobPlaces, NEW next \in Plain, Calling(next)
                    PROVE  Advance
      <4> USE <3>CallingStep
      <4>1. HostOK' /\ left' \in Budget
        BY Jobbing, <1>SameHost, <1>SpendType, Zenon DEF Calling
      <4>2. pc' \in Plain
        BY Zenon DEF Calling, Plain, JobPlaces, FaultPlaces
      <4> QED  BY <4>1, <4>2, <2>JobCall, Zenon DEF Calling
    <3>PlannedType. ASSUME Good(st), NEW r \in Runs
                    PROVE  Planned(st, r) \subseteq Workers
      BY <3>PlannedType DEF Planned, Workers, Good, Journal
    <3>ArmType.
        ASSUME HostOK, Good(st), left \in Budget, NEW r \in Runs, ArmCaptures(r) \/ ArmThrows(r),
               UNCHANGED <<ext, open, qdisc>>
        PROVE  HostOK' /\ left' \in Budget
      <4> USE <3>ArmType
      <4>1. Planned(st, r) \subseteq Workers /\ st.gen[r] \in Nat
        BY <3>PlannedType, Zenon DEF Good, Journal
      <4>2. CASE ArmCaptures(r)
        BY <4>1, <4>2, Zenon DEF ArmCaptures, HostOK
      <4>3. CASE ArmThrows(r)
        <5>1. PICK e \in Edges, stage \in 0..3 :
                LET before == {w \in Planned(st, r) : w[2] < e}
                    upto(n) == before \cup {w \in Planned(st, r) : w[2] = e /\ stage >= n}
                IN /\ dirs' = dirs \cup upto(1)
                   /\ conf' = conf \cup upto(2)
                   /\ running' = running \cup upto(3)
                   /\ wgen' = [wgen EXCEPT ![r] = [x \in Edges |-> IF x <= e THEN st.gen[r] ELSE @[x]]]
          BY <4>3, Zenon DEF ArmThrows
        <5>2. wgen' \in [Runs -> [Edges -> Nat]]
          BY <4>1, <5>1, Zenon DEF HostOK
        <5>3. dirs' \subseteq Workers /\ conf' \subseteq dirs' /\ running' \subseteq conf' /\ dirs \subseteq dirs'
          <6> DEFINE before == {w \in Planned(st, r) : w[2] < e}
                     upto(n) == before \cup {w \in Planned(st, r) : w[2] = e /\ stage >= n}
          <6>1. upto(3) \subseteq upto(2) /\ upto(2) \subseteq upto(1) /\ upto(1) \subseteq Planned(st, r)
            OBVIOUS
          <6>2. dirs' = dirs \cup upto(1) /\ conf' = conf \cup upto(2) /\ running' = running \cup upto(3)
            BY <5>1, Zenon
          <6> HIDE DEF upto
          <6> QED  BY <4>1, <6>1, <6>2, Zenon DEF HostOK
        <5>4. left' \in Budget /\ sealed' = sealed
          BY <4>3, <1>ThrowsType, Zenon DEF ArmThrows
        <5> QED  BY <5>2, <5>3, <5>4, Zenon DEF HostOK
      <4> QED  BY <4>2, <4>3, Zenon
    <3> SUFFICES ASSUME TypeInv, StopOld \/ Epoch \/ PlanCall \/ PlanCaptures \/ Arm \/ Armed
                 PROVE  Advance
      OBVIOUS
    <3> USE DEF Plain, JobPlaces, FaultPlaces
    <3>1. CASE StopOld
      <4>1. pc' \in Plain
        BY <3>1, Zenon DEF StopOld
      <4>2. HostOK' /\ left' \in Budget
        BY <3>1, Jobbing, <2>StopType, Zenon DEF StopOld
      <4> QED  BY <3>1, <4>1, <4>2, <2>JobCall, Zenon DEF StopOld
    <3>2. CASE Epoch
      BY <3>2, Jobbing, <3>EpochFollows, <2>JobCommit, Zenon DEF Epoch
    <3>3. CASE PlanCall
      BY <3>3, <3>CallingStep, Zenon DEF PlanCall
    <3>4. CASE PlanCaptures
      BY <3>4, Jobbing, <3>PlanFollows, <2>JobCommit, Zenon DEF PlanCaptures
    <3>5. CASE Arm
      <4>1. pc' \in Plain
        BY <3>5, Zenon DEF Arm
      <4>2. HostOK' /\ left' \in Budget
        BY <3>5, Jobbing, <3>ArmType, Zenon DEF Arm
      <4> QED  BY <3>5, <4>1, <4>2, <2>JobCall, Zenon DEF Arm
    <3>6. CASE Armed
      <4>1. Follows(st, SetState(st, run, "armed"))
        BY <3>6, Jobbing, <1>StateFollows, Zenon DEF Armed, RunStates
      <4>2. Follows(st, SetCov(SetState(st, run, "armed"), run, "armed"))
        BY <4>1, <1>CovFollows, <1>FollowsTrans, Zenon DEF Coverage, Follows
      <4> QED  BY <3>6, <4>2, <2>JobCommit, Zenon DEF Armed
    <3> QED  BY <3>1, <3>2, <3>3, <3>4, <3>5, <3>6, Zenon
  \* The commit of a new run state.
  <2>StateCommit. ASSUME TypeInv, pc \in JobPlaces, NEW v \in RunStates, NEW next \in Plain,
                         Committing(SetState(st, run, v), next, "catch")
                  PROVE  Advance
    BY <2>StateCommit, Jobbing, <1>StateFollows, <2>JobCommit, Zenon
  <2>OpeningType. TypeInv /\ (Converge \/ Status \/ Release \/ Ready \/ Recheck) => Advance
    <3>ReleaseType.
        ASSUME HostOK, left \in Budget, NEW r \in Runs, Released(r) \/ ReleaseThrows(r),
               UNCHANGED <<ext, captures, qdisc>>
        PROVE  HostOK' /\ left' \in Budget
      <4> USE <3>ReleaseType
      <4>1. open' \subseteq open \cup ({r} \X Gated)
        BY Zenon DEF Released, ReleaseThrows, Containers
      <4>2. left' \in Budget
        BY <1>ThrowsType, Zenon DEF Released, ReleaseThrows
      <4> QED  BY <4>1, <4>2, Zenon DEF HostOK, captures
    <3> SUFFICES ASSUME TypeInv, Converge \/ Status \/ Release \/ Ready \/ Recheck PROVE Advance
      OBVIOUS
    <3> USE DEF Plain, JobPlaces, FaultPlaces
    <3>1. CASE Converge
      BY <3>1, <2>StateCommit, Zenon DEF Converge, RunStates
    <3>2. CASE Status
      <4>1. HostOK' /\ left' \in Budget /\ UNCHANGED <<journal, frame, due, acked>>
        BY <3>2, Jobbing, <1>SameHost, <1>ThrowsType, Zenon DEF Status
      <4>2. pc \in JobPlaces /\ pc' \in Plain \cup {"m5"}
        BY <3>2, Zenon DEF Status
      <4> QED  BY <4>1, <4>2, <2>JobCall, Zenon
    <3>3. CASE Release
      <4>1. HostOK' /\ left' \in Budget
        BY <3>3, Jobbing, <3>ReleaseType, Zenon DEF Release
      <4> QED  BY <3>3, <4>1, <2>JobCall, Zenon DEF Release
    <3>4. CASE Ready
      <4>1. CASE Committing(SetState(st, run, "ready"), "observe", "catch")
        BY <3>4, <4>1, <2>StateCommit, Zenon DEF Ready, RunStates
      <4>2. CASE pc' = Checked("ready") /\ UNCHANGED <<journal, frame, world, due, acked, left>>
        BY <3>4, <4>2, <2>CheckedPlace, Jobbing, <1>SameHost, <2>JobCall,
            Zenon DEF Ready
      <4> QED  BY <3>4, <4>1, <4>2, Zenon DEF Ready
    <3>5. CASE Recheck
      BY <3>5, Jobbing, <1>SameHost, <2>JobCall, Zenon DEF Recheck
    <3> QED  BY <3>1, <3>2, <3>3, <3>4, <3>5, Zenon
  \* Activate calls m5_monitor for the second time when it leads there.
  <2>ActivateType. ASSUME TypeInv, Activate
                   PROVE  Advance
    <3> USE <2>ActivateType
    <3> USE DEF Plain, JobPlaces, FaultPlaces
    <3>1. /\ pc = "activate" /\ ret' = "after"
          /\ UNCHANGED <<journal, job, run, tgt, slot, was, todo, ftodo, world, due, acked>>
      BY Zenon DEF Activate
    <3>2. pc' \in Plain \cup {"m5"}
      BY Zenon DEF Activate, AfterActivate, Checked
    <3>3. HostOK' /\ left' \in Budget
      BY <3>1, Jobbing, <1>SameHost, <1>SpendType, Zenon DEF Activate
    <3>4. FrameOK' /\ pc' \in Places
      <4>1. pc' \in Places
        BY <3>2, KnownPlaces, Zenon DEF M5Places
      <4> QED  BY <3>1, <4>1, Parts, Zenon DEF FrameOK
    <3>5. FrameAt(pc)' /\ (InJob(pc) => st.job[job].is # "absent")'
      BY <3>1, <3>2, Jobbing, Zenon DEF FrameAt, InJob, M5Places, BootPlaces, journal
    <3> QED  BY <3>1, <3>3, <3>4, <3>5, <1>MovedCall, Zenon
  <2>EndingType. (/\ TypeInv
                  /\ WorkerExits \/ CatchQuiesce \/ RecordFailure \/ Observe \/ Finish)
                 => Advance
    <3>FailedFollows. ASSUME NEW s, Good(s), NEW r
                      PROVE  Follows(s, Failed(s, r))
      <4> USE <3>FailedFollows
      <4> DEFINE t == SetState(s, r, "reconciling")
      <4>1. Follows(s, t)
        BY <1>StateFollows, Zenon DEF RunStates
      <4>2. Follows(s, SetCov(t, r, "incomplete"))
        BY <4>1, <1>CovFollows, <1>FollowsTrans, Zenon DEF Coverage, Follows
      <4> QED  BY <4>1, <4>2, Zenon DEF Failed
    <3> SUFFICES ASSUME TypeInv, WorkerExits \/ CatchQuiesce \/ RecordFailure \/ Observe \/ Finish
                 PROVE  Advance
      OBVIOUS
    <3> USE DEF Plain, JobPlaces, FaultPlaces
    <3>1. CASE WorkerExits
      <4>1. HostOK' /\ left' \in Budget
        BY <3>1, <1>SameHost, ZenonT(30) DEF WorkerExits, TypeInv, TypeOK, Budget
      <4>2. FrameAt(pc') /\ pc' \in Places /\ ~InJob(pc')
        BY <3>1, Zenon DEF WorkerExits, TypeInv, TypeOK, FrameAt, InJob, M5Places,
            BootPlaces, Places
      <4> QED  BY <3>1, <4>1, <4>2, <1>CallStep, Zenon DEF WorkerExits
    <3>2. CASE CatchQuiesce
      BY <3>2, Jobbing, <1>QuiesceType, <2>JobCall, Zenon DEF CatchQuiesce
    <3>3. CASE RecordFailure
      <4>1. Follows(st, SetJob(st, job, "failed"))
        BY <3>3, Jobbing, <1>JobFollows, Zenon DEF RecordFailure, JobStates
      <4>2. Follows(st, Failed(SetJob(st, job, "failed"), run))
        BY <4>1, <3>FailedFollows, <1>FollowsTrans, Zenon DEF Follows
      <4> QED  BY <3>3, <4>2, <2>JobCommit, Zenon DEF RecordFailure
    <3>4. CASE Observe
      BY <3>4, Jobbing, <1>SameHost, <1>SpendType, <2>JobCall, Zenon DEF Observe
    <3>5. CASE Finish
      <4> DEFINE s == IF run \in Recording THEN SetCov(st, run, FinalCoverage(st, run)) ELSE st
      <4>1. Follows(st, s)
        <5>1. FinalCoverage(st, run) \in Coverage
          BY Zenon DEF FinalCoverage, Coverage
        <5>2. Follows(st, st)
          BY <3>5, Jobbing, SameJobs, ZenonT(30) DEF Finish, Good
        <5> QED  BY <3>5, <5>1, <5>2, Jobbing, <1>CovFollows, Zenon DEF Finish
      <4>2. s.job[job].is # "absent"
        BY <3>5, <4>1, Jobbing, Zenon DEF Finish, Follows, JobsKept
      <4>3. Committing(SetJob(s, job, "succeeded"), "loop", "catch")
        BY <3>5, Zenon DEF Finish
      <4> HIDE DEF s
      <4>4. Follows(s, SetJob(s, job, "succeeded"))
        BY <3>5, <4>1, <4>2, Jobbing, <1>JobFollows, Zenon DEF Finish, JobStates,
            Follows
      <4>5. Follows(st, SetJob(s, job, "succeeded"))
        BY <4>1, <4>4, <1>FollowsTrans, Zenon
      <4> QED  BY <3>5, <4>3, <4>5, <2>JobCommit, Zenon DEF Finish
    <3> QED  BY <3>1, <3>2, <3>3, <3>4, <3>5, Zenon
  <2>ClosingType.
      ASSUME TypeInv,
             StopQuiesce \/ Stopped \/ Destroy \/ Compensate \/ Hold \/ CloseCaptures \/ RecordClosed
             \/ Destroyed \/ StartCancelled
      PROVE  Advance
    <3> USE <2>ClosingType
    <3> USE DEF Plain, JobPlaces, FaultPlaces
    <3>1. CASE StopQuiesce
      <4>1. HostOK' /\ left' \in Budget
        BY <3>1, Jobbing, <1>QuiesceType, Zenon DEF StopQuiesce, QuiesceAttempt
      <4> QED  BY <3>1, <4>1, <2>JobCall DEF StopQuiesce
    <3>2. CASE Stopped
      BY <3>2, <2>StateCommit, Zenon DEF Stopped, RunStates
    <3>3. CASE Destroy
      BY <3>3, <2>StateCommit, Zenon DEF Destroy, RunStates
    <3>4. CASE Compensate
      BY <3>4, <2>StateCommit, Zenon DEF Compensate, RunStates
    <3>5. CASE Hold
      BY <3>5, Jobbing, <1>QuiesceType, <2>JobCall, Zenon DEF Hold
    <3>6. CASE CloseCaptures
      <4>1. HostOK' /\ left' \in Budget
        <5>1. CASE StopCaptures(run) \/ StopThrows(run)
          BY <3>6, <5>1, Jobbing, <2>StopType, Zenon DEF CloseCaptures
        <5>2. CASE UNCHANGED <<captures, left>>
          BY <3>6, <5>2, Jobbing, <1>SameHost, Zenon DEF CloseCaptures, world
        <5> QED  BY <3>6, <5>1, <5>2, Zenon DEF CloseCaptures
      <4>2. pc' \in Plain
        BY <3>6, Zenon DEF CloseCaptures, AfterClose
      <4> QED  BY <3>6, <4>1, <4>2, <2>JobCall, Zenon DEF CloseCaptures
    <3>7. CASE RecordClosed
      <4>1. ClosedCoverage(st, run) \in Coverage /\ AfterClose \in Plain
        BY Zenon DEF ClosedCoverage, Coverage, AfterClose
      <4> QED  BY <3>7, <4>1, Jobbing, <1>CovFollows, <2>JobCommit,
          ZenonT(30) DEF RecordClosed
    <3>8. CASE Destroyed
      BY <3>8, <2>StateCommit, Zenon DEF Destroyed, RunStates
    <3>9. CASE StartCancelled
      BY <3>9, Jobbing, <1>JobFollows, <2>JobCommit, Zenon DEF StartCancelled, JobStates
    <3> QED  BY <3>1, <3>2, <3>3, <3>4, <3>5, <3>6, <3>7, <3>8, <3>9, Zenon
  <2>RemovingType.
      ASSUME TypeInv, ClearFault \/ FaultCleared \/ RemoveResource \/ ResourceRemoved
      PROVE  Advance
    <3> USE <2>RemovingType
    <3> USE DEF Plain, JobPlaces, FaultPlaces
    <3>1. CASE ClearFault
      <4>1. /\ pc = "clear"
            /\ UNCHANGED <<journal, job, run, slot, ret, was, todo, ftodo, ext, open, captures, due, acked>>
        BY <3>1, Zenon DEF ClearFault
      <4>2. /\ left' \in Budget /\ qdisc' \subseteq qdisc
            /\ \/ pc' \in {"close", "catch"} /\ tgt' \in Faults \cup {NoFault}
               \/ pc' = "cleared" /\ tgt' \in Faults
        BY <3>1, <4>1, Jobbing, <1>ThrowsType, ZenonT(30)
           DEF ClearFault, LiveFaults, DropQdisc, DropThrows, TypeInv, TypeOK
      <4>3. HostOK'
        BY <4>1, <4>2, Jobbing, Zenon DEF HostOK, captures
      <4>4. FrameOK' /\ pc' \in Places
        <5>1. pc' \in Places
          BY <4>2, KnownPlaces, Zenon
        <5> QED  BY <4>1, <4>2, <5>1, Parts, Zenon DEF FrameOK
      <4>5. FrameAt(pc)' /\ (InJob(pc) => st.job[job].is # "absent")'
        BY <4>1, <4>2, Jobbing, ZenonT(30) DEF FrameAt, InJob, M5Places, BootPlaces,
            journal
      <4> QED  BY <4>1, <4>2, <4>3, <4>4, <4>5, <1>MovedCall, Zenon
    <3>2. CASE FaultCleared
      BY <3>2, Jobbing, <1>FaultFollows, <2>JobCommit, Zenon DEF FaultCleared,
          FaultStates
    <3>3. CASE RemoveResource
      <4>1. /\ pc = "remove"
            /\ UNCHANGED <<journal, job, run, tgt, ret, was, todo, ftodo, captures, qdisc, due, acked>>
        BY <3>3, Zenon DEF RemoveResource
      <4>2. /\ left' \in Budget /\ ext' \subseteq ext /\ open' \subseteq open
            /\ \/ pc' \in {"destroyed", "catch"} /\ slot' \in Slots \cup {0}
               \/ pc' = "removed" /\ slot' \in Slots
        BY <3>3, <4>1, Jobbing, <1>SpendType, ZenonT(30)
           DEF RemoveResource, Removed, RemoveThrows, Gone, Kept, TypeInv, TypeOK
      <4>3. HostOK'
        BY <4>1, <4>2, Jobbing, ZenonT(30) DEF HostOK, captures
      <4>4. FrameOK' /\ pc' \in Places
        <5>1. pc' \in Places
          BY <4>2, KnownPlaces, Zenon
        <5> QED  BY <4>1, <4>2, <5>1, Parts, Zenon DEF FrameOK
      <4>5. FrameAt(pc)' /\ (InJob(pc) => st.job[job].is # "absent")'
        BY <4>1, <4>2, Jobbing, ZenonT(30) DEF FrameAt, InJob, M5Places, BootPlaces,
            journal
      <4> QED  BY <4>1, <4>2, <4>3, <4>4, <4>5, <1>MovedCall, Zenon
    <3>4. CASE ResourceRemoved
      BY <3>4, Jobbing, <2>ResFollows, <2>JobCommit, Zenon DEF ResourceRemoved,
          ResourceStates
    <3> QED  BY <3>1, <3>2, <3>3, <3>4, Zenon
  <2> SUFFICES ASSUME TypeInv, JobStep PROVE Advance
    OBVIOUS
  <2> QED  BY <2>TakeJobType, <2>StartType, <2>ArmingType, <2>OpeningType,
      <2>ActivateType, <2>EndingType,
           <2>ClosingType,
          <2>RemovingType, Zenon DEF JobStep
<1>QdiscType.
    ASSUME HostOK, left \in Budget, NEW f \in Faults, UNCHANGED <<ext, open, captures>>,
           PutQdisc(f) \/ PutThrows(f) \/ DropQdisc(f) \/ DropThrows(f)
    PROVE  HostOK' /\ left' \in Budget
  <2> USE <1>QdiscType
  <2>1. qdisc' \subseteq qdisc \cup {f} /\ left' \in Budget
    BY <1>ThrowsType, Zenon DEF PutQdisc, PutThrows, DropQdisc, DropThrows
  <2> QED  BY <2>1, Zenon DEF HostOK, captures
<1>FaultStepType. TypeInv /\ FaultStep => Advance
  <2>FaultCommit.
      ASSUME TypeInv, pc \in FaultJob, NEW new, Follows(st, new), NEW next \in FaultJob \cup {"loop"},
             Committing(new, next, "catch")
      PROVE  Advance
    BY <2>FaultCommit, Faulting, <1>CommitStep, Zenon
  \* The outcome of a fault job enters the journal with the fault's.
  <2>OutcomeFollows.
      ASSUME TypeInv, pc \in JobPlaces, NEW f, NEW v \in FaultStates, NEW w \in JobStates \ {"absent"}
      PROVE  Follows(st, SetJob(SetFault(st, f, v), job, w))
    <3> USE <2>OutcomeFollows
    <3>1. Follows(st, SetFault(st, f, v))
      BY Jobbing, <1>FaultFollows, Zenon
    <3>2. SetFault(st, f, v).job[job].is # "absent"
      BY <3>1, Jobbing, Zenon DEF Follows, JobsKept
    <3> QED  BY <3>1, <3>2, Jobbing, <1>JobFollows, <1>FollowsTrans,
        ZenonT(30) DEF Follows
  <2> SUFFICES ASSUME TypeInv, FaultStep PROVE Advance
    OBVIOUS
  <2> USE DEF FaultJob
  <2>1. CASE FaultBegin
    <3>1. pc \in FaultJob /\ pc \in JobPlaces
      BY <2>1, Faulting, Zenon DEF FaultBegin
    <3>2. Follows(st, SetJob(SetFault(st, tgt, "cancelled"), job, "cancelled"))
      BY <3>1, <2>OutcomeFollows, Zenon DEF FaultStates, JobStates
    <3>3. Follows(st, SetJob(st, job, "succeeded"))
      BY <3>1, Jobbing, <1>JobFollows, Zenon DEF JobStates
    <3>4. Follows(st, SetFault(st, tgt, "applying")) /\ Follows(st, SetFault(st, tgt, "removing"))
      BY <3>1, Jobbing, <1>FaultFollows, Zenon DEF FaultStates
    <3> QED  BY <2>1, <3>1, <3>2, <3>3, <3>4, <2>FaultCommit, ZenonT(30) DEF FaultBegin
  <2>2. CASE FaultEffect
    <3>1. pc = "effect" /\ UNCHANGED <<journal, frame, ext, open, captures, due, acked>>
      BY <2>2, Zenon DEF FaultEffect
    <3>2. HostOK' /\ left' \in Budget
      BY <2>2, <3>1, Faulting, Jobbing, <1>QdiscType, Zenon DEF FaultEffect
    <3>3. pc' \in FaultJob \cup {"catch", "loop"}
      BY <2>2, Zenon DEF FaultEffect
    <3> QED  BY <3>1, <3>2, <3>3, Faulting, <1>CallStep, Zenon
  <2>3. CASE FaultVerdict
    <3>1. /\ pc = "verdict" /\ UNCHANGED <<journal, frame, world, due, acked, left>>
          /\ pc' \in FaultJob \cup {"catch", "loop"}
      BY <2>3, Zenon DEF FaultVerdict
    <3> QED  BY <3>1, Faulting, Jobbing, <1>SameHost, <1>CallStep, Zenon
  <2>4. CASE FaultUndo
    <3>1. pc = "undo" /\ UNCHANGED <<journal, frame, ext, open, captures, due, acked>>
      BY <2>4, Zenon DEF FaultUndo
    <3>2. HostOK' /\ left' \in Budget
      BY <2>4, <3>1, Faulting, Jobbing, <1>QdiscType, Zenon DEF FaultUndo
    <3>3. pc' \in FaultJob \cup {"catch", "loop"}
      BY <2>4, Zenon DEF FaultUndo
    <3> QED  BY <3>1, <3>2, <3>3, Faulting, <1>CallStep, Zenon
  <2>5. CASE FaultUndone
    BY <2>5, Faulting, <2>OutcomeFollows, <2>FaultCommit, Zenon DEF FaultUndone,
        FaultStates,
        JobStates
  <2>6. CASE FaultSettle
    <3> DEFINE v == IF This.op = "fault.apply" THEN "active" ELSE "removed"
    <3>1. v \in FaultStates
      BY Zenon DEF FaultStates
    <3>2. Committing(SetJob(SetFault(st, tgt, v), job, "succeeded"), "loop", "catch")
      BY <2>6, Zenon DEF FaultSettle
    <3> HIDE DEF v
    <3>3. Follows(st, SetJob(SetFault(st, tgt, v), job, "succeeded"))
      BY <2>6, <3>1, Faulting, <2>OutcomeFollows, Zenon DEF FaultSettle, JobStates
    <3> QED  BY <2>6, <3>2, <3>3, <2>FaultCommit, Zenon DEF FaultSettle
  <2> QED  BY <2>1, <2>2, <2>3, <2>4, <2>5, <2>6, Zenon DEF FaultStep
\* A step that changes the journal and the frame, not the host.
<1>FramedStep.
    ASSUME TypeInv, NEW new, Follows(st, new), NEW next \in Places, NEW h \in Places,
           Save(new, next, h), UNCHANGED <<was, todo, ftodo, world, due, acked>>,
           job' \in JobIds \cup {0}, run' \in Runs \cup {NoRun}, tgt' \in Faults \cup {NoFault},
           slot' \in Slots \cup {0}, ret' \in {"monitor", "before", "after", "boot"},
           pc' \in {next, h} => FrameAt(pc)',
           pc' \in {next, h} => (InJob(pc)' => job' = job /\ InJob(pc))
    PROVE  Advance
  <2> USE <1>FramedStep
  <2>1. /\ Good(st') /\ Good(disk') /\ stopping' \in BOOLEAN /\ left' \in Budget
        /\ JobsKept(disk, disk') /\ JobsKept(disk', st')
        /\ \/ pc' = next /\ st' = new
           \/ pc' = h /\ (st' = new \/ h = "off")
    BY <1>SaveType, Zenon
  <2>2. HostOK'
    BY <1>SameHost, Zenon DEF TypeInv, TypeOK
  <2>3. FrameOK' /\ pc' \in Places
    BY <2>1, Parts, Zenon DEF FrameOK
  <2>4. InJob(pc) => new.job[job].is # "absent"
    BY Zenon DEF TypeInv, Follows, JobsKept, FrameAt
  <2>5. ~InJob("off")'
    BY Zenon DEF InJob, JobPlaces, M5Places
  <2>6. FrameAt(pc)' /\ (InJob(pc)' => st'.job[job'].is # "absent")
    BY <2>1, <2>4, <2>5, Zenon DEF InJob
  <2> QED  BY <2>1, <2>2, <2>3, <2>6, <1>MovedStep, ZenonT(30)
<1>MonitorStepType. TypeInv /\ MonitorStep => Advance
  <2>M5Type. (/\ TypeInv
              /\ \/ M5Expiring \/ M5Sample \/ Expire \/ Expired
                 \/ FaultFailure \/ FailureQuiesce \/ FailureNoted)
             => Advance
    \* Where m5_monitor goes next is within its caller.
    <3>M5Frame.
        ASSUME TypeInv, pc \in M5Places
        PROVE  /\ M5Error \in Places /\ FrameAt(M5Error) /\ (InJob(M5Error) => InJob(pc))
               /\ ret # "boot" => /\ M5Continue \in Places /\ FrameAt(M5Continue)
                                  /\ InJob(M5Continue) => InJob(pc)
               /\ \A p \in M5Places \cup {"flt"} :
                    /\ p \in Places /\ (InJob(p) => InJob(pc))
                    /\ /\ p \in FaultPlaces => tgt \in Faults
                       /\ p \in BootPlaces => ret = "boot"
                       /\ p \in {"m5", "expire", "expired"} => ret # "boot"
                       => FrameAt(p)
      <4> USE <3>M5Frame
      <4>1. ret \in {"monitor", "before", "after", "boot"}
        BY Zenon DEF TypeInv, TypeOK
      <4> QED
        BY <4>1 DEF TypeInv, FrameAt, InJob, M5Error, M5Continue, JobPlaces, M5Places,
            FaultPlaces,
                    BootPlaces, Places
    <3> SUFFICES ASSUME TypeInv,
                        \/ M5Expiring \/ M5Sample \/ Expire \/ Expired
                        \/ FaultFailure \/ FailureQuiesce \/ FailureNoted
                 PROVE  Advance
      OBVIOUS
    <3>0. Good(st) /\ HostOK /\ left \in Budget /\ Owner \in [Faults -> Runs]
      BY EngineAssumption, Zenon DEF TypeInv, TypeOK, Good, Budget
    <3>a. Follows(st, st)
      BY <3>0, SameJobs, Zenon DEF Good
    <3>1. CASE M5Expiring
      <4>1. PICK f \in Faults : tgt' = f /\ Save(SetFault(st, f, "removing"), "expire", M5Error)
        BY <3>1, Zenon DEF M5Expiring
      <4>2. pc = "m5" /\ UNCHANGED <<job, run, slot, ret, was, todo, ftodo, world, due, acked>>
        BY <3>1, Zenon DEF M5Expiring
      <4> DEFINE new == SetFault(st, f, "removing")
                 h == M5Error
      <4>3. Save(new, "expire", h) /\ Follows(st, new)
        BY <3>0, <4>1, <1>FaultFollows, Zenon DEF FaultStates
      <4>4. /\ "expire" \in Places /\ h \in Places /\ FrameAt(h) /\ (InJob(h) => InJob(pc))
            /\ ret # "boot" /\ (InJob("expire") => InJob(pc)) /\ h # "expire"
            /\ h \in {"m5err", "catch"}
        <5>1. ret # "boot" /\ ret \in {"monitor", "before", "after", "boot"}
          BY <4>2, Zenon DEF TypeInv, TypeOK, FrameAt, BootPlaces
        <5>2. h \in {"m5err", "catch"}
          BY <5>1, Zenon DEF M5Error
        <5> QED  BY <4>2, <5>1, <5>2, <3>M5Frame, Zenon DEF M5Places
      <4> HIDE DEF new, h
      <4>5. pc' \in {"expire", h}
        BY <4>3, Zenon DEF Save
      <4>6. FrameAt(pc)' /\ (InJob(pc)' => InJob(pc))
        <5>1. CASE pc' = "expire"
          BY <4>1, <4>2, <4>4, <5>1, ZenonT(30)
             DEF TypeInv, FrameAt, InJob, JobPlaces, M5Places, FaultPlaces, BootPlaces
        <5>2. CASE pc' = h
          BY <4>1, <4>2, <4>4, <5>2, ZenonT(30)
             DEF TypeInv, FrameAt, InJob, JobPlaces, M5Places, FaultPlaces, BootPlaces
        <5> QED  BY <4>5, <5>1, <5>2, Zenon
      <4> QED  BY <4>1, <4>2, <4>3, <4>4, <4>6, <1>FramedStep,
          ZenonT(30) DEF TypeInv, TypeOK
    <3>2. CASE M5Sample
      <4>1. pc = "m5" /\ UNCHANGED <<frame, world, due, acked>>
        BY <3>2, ZenonT(30) DEF M5Sample
      <4>2. ret # "boot"
        BY <4>1, Zenon DEF TypeInv, FrameAt, BootPlaces
      <4>3. CASE pc' = M5Continue /\ UNCHANGED <<journal, left>>
        BY <3>0, <4>1, <4>2, <4>3, <3>M5Frame, <1>SameHost, <1>CallStep,
            Zenon DEF M5Places
      <4>4. CASE Save(st, M5Continue, M5Error)
        BY <3>a, <4>1, <4>2, <4>4, <3>M5Frame, <1>CommitStep, Zenon DEF M5Places,
            Committing
      <4> QED  BY <3>2, <4>3, <4>4, ZenonT(30) DEF M5Sample
    <3>3. CASE Expire
      <4>1. pc = "expire" /\ UNCHANGED <<journal, frame, ext, open, captures, due, acked>>
            /\ pc' \in {"expired", "m5fail"} /\ tgt \in Faults /\ ret # "boot"
        BY <3>3, Zenon DEF Expire, TypeInv, FrameAt, FaultPlaces, BootPlaces
      <4>2. HostOK' /\ left' \in Budget
        BY <3>0, <3>3, <4>1, <1>QdiscType, Zenon DEF Expire
      <4> QED  BY <4>1, <4>2, <3>M5Frame, <1>CallStep, Zenon DEF M5Places, BootPlaces
    <3>4. CASE Expired
      <4>1. pc = "expired" /\ tgt \in Faults /\ ret # "boot" /\ Owner[tgt] \in Runs
        BY <3>0, <3>4, Zenon DEF Expired, TypeInv, FrameAt, FaultPlaces, BootPlaces
      <4>2. Follows(st, SetFault(st, tgt, "removed"))
        BY <3>0, <1>FaultFollows, Zenon DEF FaultStates
      <4>3. Follows(st, Bump(SetFault(st, tgt, "removed"), Owner[tgt]))
        BY <4>1, <4>2, <1>BumpFollows, <1>FollowsTrans, Zenon DEF Follows
      <4> QED  BY <3>4, <4>1, <4>3, <3>M5Frame, <1>CommitStep, Zenon DEF M5Places,
          BootPlaces,
          Expired
    <3>5. CASE FaultFailure
      <4>1. pc = "m5fail" /\ tgt \in Faults /\ Owner[tgt] \in Runs
        BY <3>0, <3>5, Zenon DEF FaultFailure, TypeInv, FrameAt, FaultPlaces
      <4>2. Follows(st, SetFault(st, tgt, "recovery-required"))
        BY <3>0, <1>FaultFollows, Zenon DEF FaultStates
      <4>3. Follows(st, SetState(SetFault(st, tgt, "recovery-required"), Owner[tgt], "reconciling"))
        BY <4>1, <4>2, <1>StateFollows, <1>FollowsTrans, Zenon DEF Follows, RunStates
      <4>4. Follows(st, RecoveryRequired(st, tgt))
        BY <4>1, <4>3, <1>BumpFollows, <1>FollowsTrans, Zenon DEF Follows,
            RecoveryRequired
      <4> QED  BY <3>5, <4>1, <4>4, <3>M5Frame, <1>CommitStep, Zenon DEF M5Places,
          BootPlaces,
          FaultFailure
    <3>6. CASE FailureQuiesce
      <4>1. pc = "m5hold" /\ pc' = "m5note" /\ tgt \in Faults
            /\ UNCHANGED <<journal, frame, ext, captures, qdisc, due, acked>>
        BY <3>6, Zenon DEF FailureQuiesce, TypeInv, FrameAt, FaultPlaces
      <4>2. HostOK' /\ left' \in Budget
        BY <3>0, <3>6, <4>1, <1>QuiesceType, Zenon DEF FailureQuiesce
      <4> QED  BY <4>1, <4>2, <3>M5Frame, <1>CallStep, Zenon DEF M5Places, BootPlaces
    <3>7. CASE FailureNoted
      <4> DEFINE next == IF ret = "boot" THEN "flt" ELSE "m5"
      <4>1. pc = "m5note" /\ Committing(st, next, M5Error)
        BY <3>7, Zenon DEF FailureNoted
      <4>2. next \in Places /\ FrameAt(next) /\ (InJob(next) => InJob(pc))
        BY <4>1, <3>M5Frame, Zenon DEF M5Places, BootPlaces, FaultPlaces
      <4> HIDE DEF next
      <4> QED  BY <3>a, <4>1, <4>2, <3>M5Frame, <1>CommitStep, Zenon DEF M5Places
    <3> QED  BY <3>1, <3>2, <3>3, <3>4, <3>5, <3>6, <3>7, Zenon
  <2> SUFFICES ASSUME TypeInv, MonitorStep PROVE Advance
    OBVIOUS
  <2>0. Good(st) /\ HostOK /\ left \in Budget
    BY Zenon DEF TypeInv, TypeOK, Good, Budget
  <2>a. Follows(st, st)
    BY <2>0, SameJobs, Zenon DEF Good
  <2> DEFINE Spare == {"loop", "m5err", "renew", "mcatch", "mfail", "off"}
  <2>b. ASSUME pc \in Spare, NEW p \in Spare, p \in {"mcatch", "mfail"} => run \in Runs,
               p # "off" => ret # "boot"
        PROVE  p \in Places /\ FrameAt(p) /\ ~InJob(p)
    <3>1. p \in Places
      BY <2>b, KnownPlaces, Zenon
    <3>2. ~InJob(p) /\ p \notin BootPlaces \cup FaultPlaces \cup {"prepare", "prepared", "removed"}
      BY <2>b, Zenon DEF InJob, JobPlaces, M5Places, FaultPlaces, BootPlaces
    <3>3. p \notin {"adopt", "bquiesce", "adopted"}
      BY <2>b, Zenon
    <3> QED  BY <2>b, <3>1, <3>2, <3>3, Zenon DEF FrameAt
  <2>c. pc \in {"loop", "m5err", "renew", "mcatch", "mfail"} => ret # "boot"
    BY Zenon DEF TypeInv, FrameAt, BootPlaces
  <2>d. pc \in {"mcatch", "mfail"} => run \in Runs
    BY Zenon DEF TypeInv, FrameAt
  <2>1. CASE Idle
    <3>1. /\ pc' = "m5" /\ job' = 0 /\ run' = NoRun /\ tgt' = NoFault /\ ret' = "monitor"
          /\ UNCHANGED <<journal, slot, was, todo, ftodo, world, due, acked, left>>
      BY <2>1, Zenon DEF Idle
    <3>2. HostOK'
      BY <2>0, <3>1, <1>SameHost, Zenon
    <3>3. FrameOK' /\ pc' \in Places
      BY <3>1, Parts, KnownPlaces, Zenon DEF FrameOK, M5Places
    <3>4. FrameAt(pc)' /\ ~InJob(pc)'
      BY <3>1, Zenon DEF FrameAt, InJob, JobPlaces, M5Places, FaultPlaces, BootPlaces
    <3> QED  BY <2>0, <3>1, <3>2, <3>3, <3>4, <1>MovedCall, Zenon
  <2>2. CASE M5Caught
    BY <2>2, <2>a, <2>b, <2>c, <1>CommitStep, Zenon DEF M5Caught
  <2>3. CASE Renew
    <3>1. pc = "renew" /\ UNCHANGED <<job, tgt, slot, ret, was, todo, ftodo, world, due, acked>>
      BY <2>3, Zenon DEF Renew
    <3>2. CASE pc' = "loop" /\ UNCHANGED <<journal, run, left>>
      BY <2>0, <2>b, <2>c, <3>1, <3>2, <1>SameHost, <1>CallStep, Zenon DEF frame
    <3>3. CASE \E r \in ReadyRuns :
                /\ run' = r
                /\ \/ Healthy(r) /\ Save(st, "loop", "mcatch")
                   \/ Throws(~Healthy(r)) /\ pc' = "mcatch" /\ UNCHANGED journal
      <4>1. /\ run' \in Runs /\ pc' \in {"loop", "mcatch"}
            /\ Save(st, "loop", "mcatch") \/ (left' \in Budget /\ UNCHANGED journal)
        BY <2>0, <3>3, EngineAssumption, <1>ThrowsType, ZenonT(30) DEF ReadyRuns, Save
      <4>2. FrameAt(pc)' /\ ~InJob(pc)'
        BY <2>c, <3>1, <4>1, Zenon DEF FrameAt, InJob, JobPlaces, M5Places,
            FaultPlaces, BootPlaces
      <4>3. CASE Save(st, "loop", "mcatch")
        <5>1. "loop" \in Places /\ "mcatch" \in Places
          BY Zenon DEF Places
        <5> QED  BY <2>a, <3>1, <4>1, <4>2, <4>3, <5>1, <1>FramedStep,
            ZenonT(30) DEF TypeInv, TypeOK
      <4>4. CASE left' \in Budget /\ UNCHANGED journal
        <5>1. HostOK'
          BY <2>0, <3>1, <1>SameHost, Zenon
        <5>2. FrameOK' /\ pc' \in Places
          <6>1. pc' \in Places
            BY <4>1, KnownPlaces, Zenon
          <6> QED  BY <3>1, <4>1, <6>1, Parts, Zenon DEF FrameOK
        <5> QED  BY <3>1, <4>2, <4>4, <5>1, <5>2, <1>MovedCall, Zenon
      <4> QED  BY <4>1, <4>3, <4>4, Zenon
    <3> QED  BY <2>3, <3>2, <3>3, Zenon DEF Renew
  <2>4. CASE MonitorQuiesce
    <3>1. HostOK' /\ left' \in Budget
      BY <2>0, <2>4, <1>QuiesceType, Zenon DEF MonitorQuiesce
    <3> QED  BY <2>4, <2>b, <2>c, <2>d, <3>1, <1>CallStep, Zenon DEF MonitorQuiesce
  <2>5. CASE MonitorFailure
    <3>1. Follows(st, SetState(st, run, "reconciling"))
      BY <2>0, <1>StateFollows, Zenon DEF RunStates
    <3>2. Follows(st, SetCov(SetState(st, run, "reconciling"), run, "incomplete"))
      BY <3>1, <1>CovFollows, <1>FollowsTrans, Zenon DEF Follows, Coverage
    <3> QED  BY <2>5, <2>b, <2>c, <3>2, <1>CommitStep, Zenon DEF MonitorFailure
  <2> QED  BY <2>1, <2>2, <2>3, <2>4, <2>5, <2>M5Type, Zenon DEF MonitorStep
<1>BootType. TypeInv /\ Boot => Advance
  <2>InterruptedFollows. ASSUME NEW s, Good(s)
                         PROVE  Follows(s, Interrupted(s))
    <3> USE <2>InterruptedFollows
    <3> DEFINE q == [j \in JobIds |-> IF Pending(s, j) THEN [s.job[j] EXCEPT !.is = "failed"] ELSE s.job[j]]
               v == [r \in Runs |-> IF \E j \in JobIds : Pending(s, j) /\ s.job[j].run = r
                                    THEN "reconciling" ELSE s.state[r]]
    <3>1. s.job \in [JobIds -> Jobs] /\ s.state \in [Runs -> RunStates]
      BY Zenon DEF Good, Journal
    <3>2. q \in [JobIds -> Jobs]
      BY <3>1 DEF Jobs, JobStates
    <3>3. v \in [Runs -> RunStates]
      BY <3>1, Zenon DEF RunStates
    <3>4. Interrupted(s) = [s EXCEPT !.job = q, !.state = v]
      BY Zenon DEF Interrupted
    <3>5. \A j \in JobIds : /\ q[j].is # "absent" <=> s.job[j].is # "absent"
                            /\ q[j].op = s.job[j].op /\ q[j].run = s.job[j].run
                            /\ q[j].flt = s.job[j].flt
      BY <3>1, Zenon DEF Jobs, Pending
    <3> HIDE DEF q, v
    <3>6. [s EXCEPT !.job = q, !.state = v] \in Journal
      BY <3>2, <3>3, Zenon DEF Good, Journal
    <3>7. [s EXCEPT !.job = q, !.state = v].job = q /\ [s EXCEPT !.job = q, !.state = v].key = s.key
      BY Zenon DEF Good, Journal
    <3>8. Follows(s, [s EXCEPT !.job = q, !.state = v])
      BY <3>5, <3>6, <3>7, Zenon DEF Follows, Good, JobsOK, JobsKept
    <3> QED  BY <3>4, <3>8, Zenon
  <2> SUFFICES ASSUME TypeInv, Boot PROVE Advance
    OBVIOUS
  <2> DEFINE new == Interrupted(disk)
  <2>1. Good(disk) /\ HostOK /\ left \in Budget
    BY Zenon DEF TypeInv, TypeOK, Good, Budget
  <2>2. Follows(disk, new)
    BY <2>1, <2>InterruptedFollows, Zenon
  <2>3. /\ Save(new, "recover", "off")
        /\ todo' \subseteq Recording
        /\ job' = 0 /\ run' = NoRun /\ tgt' = NoFault /\ slot' = 0
        /\ ret' = "boot" /\ was' = FALSE /\ ftodo' = {}
        /\ UNCHANGED <<world, due, acked>>
    BY Zenon DEF Boot
  <2> HIDE DEF new
  <2>4. left' \in Budget /\ stopping' \in BOOLEAN /\ pc' \in {"recover", "off"}
    BY <2>1, <2>3, <1>SpendType, Zenon DEF Save, TypeInv, TypeOK
  <2>5. /\ Good(st') /\ Good(disk') /\ JobsKept(disk, disk') /\ JobsKept(disk', st')
    BY <2>1, <2>2, <2>3, KeptSame, Zenon DEF Save, Follows
  <2>6. HostOK'
    BY <2>1, <2>3, <1>SameHost, Zenon
  <2>7. FrameOK' /\ pc' \in Places
    <3>1. pc' \in Places
      BY <2>4, KnownPlaces, Zenon DEF BootPlaces
    <3> QED  BY <2>3, <3>1, Zenon DEF FrameOK
  <2>8. FrameAt(pc)' /\ ~InJob(pc)'
    BY <2>3, <2>4, Zenon DEF FrameAt, InJob, JobPlaces, M5Places, FaultPlaces,
        BootPlaces
  <2> QED  BY <2>3, <2>4, <2>5, <2>6, <2>7, <2>8, <1>MovedStep, Zenon
<1>BootStepType. TypeInv /\ BootStep => Advance
  <2>GenerationFollows. ASSUME NEW s, Good(s), NEW r
                        PROVE  Follows(s, NewGeneration(s, r))
    <3> USE <2>GenerationFollows
    <3> DEFINE g == [s.gen EXCEPT ![r] = @ + 1]
               v == [s.state EXCEPT ![r] = "reconciling"]
               c == [s.cov EXCEPT ![r] = IF Closed(s, r) \/ @ = "incomplete" THEN @
                                         ELSE "interrupted-controller"]
    <3>1. g \in [Runs -> Nat]
      BY Increment, Zenon DEF Good, Journal
    <3>2. v \in [Runs -> RunStates]
      BY Zenon DEF Good, Journal, RunStates
    <3>3. c \in [Runs -> Coverage]
      BY Zenon DEF Good, Journal, Coverage
    <3>4. NewGeneration(s, r) = [s EXCEPT !.gen = g, !.state = v, !.cov = c]
      BY Zenon DEF NewGeneration
    <3> HIDE DEF g, v, c
    <3>5. [s EXCEPT !.gen = g, !.state = v, !.cov = c] \in Journal
      BY <3>1, <3>2, <3>3, Zenon DEF Good, Journal
    <3>6. [s EXCEPT !.gen = g, !.state = v, !.cov = c].job = s.job
          /\ [s EXCEPT !.gen = g, !.state = v, !.cov = c].key = s.key
      BY Zenon DEF Good, Journal
    <3> QED  BY <3>4, <3>5, <3>6, SameJobs, Zenon
  \* A step of the constructor between two of its places.
  <2>BootingStep.
      ASSUME TypeInv, ret' = "boot", Good(st'), Good(disk'), JobsKept(disk, disk'), JobsKept(disk', st'),
             stopping' \in BOOLEAN, left' \in Budget, HostOK', UNCHANGED <<job, slot, due, acked>>,
             was' \in BOOLEAN, todo' \subseteq Recording, ftodo' \subseteq Faults,
             run' \in Runs \cup {NoRun}, tgt' \in Faults \cup {NoFault},
             pc' \in BootPlaces \cup {"off", "m5fail"},
             pc' \in {"adopt", "bquiesce", "adopted"} => run' \in Runs,
             pc' = "m5fail" => tgt' \in Faults
      PROVE  Advance
    <3> USE <2>BootingStep
    <3>1. FrameOK' /\ pc' \in Places
      <4>1. pc' \in Places
        BY KnownPlaces, Zenon DEF M5Places
      <4> QED  BY <4>1, Parts, Zenon DEF FrameOK
    <3>2. FrameAt(pc)' /\ ~InJob(pc)'
      BY Zenon DEF FrameAt, InJob, JobPlaces, M5Places, FaultPlaces, BootPlaces
    <3> QED  BY <3>1, <3>2, <1>MovedStep, Zenon
  <2> SUFFICES ASSUME TypeInv, BootStep PROVE Advance
    OBVIOUS
  <2>0. /\ Good(st) /\ Good(disk) /\ HostOK /\ left \in Budget /\ stopping \in BOOLEAN
        /\ JobsKept(disk, st) /\ todo \subseteq Recording /\ ftodo \subseteq Faults
        /\ was \in BOOLEAN /\ run \in Runs \cup {NoRun} /\ tgt \in Faults \cup {NoFault}
    BY Zenon DEF TypeInv, TypeOK, Good, Budget
  <2>a. Follows(st, st) /\ "off" \in Places /\ "loop" \in Places /\ BootPlaces \subseteq Places
    BY <2>0, SameJobs DEF Good, Places, BootPlaces
  <2>b. pc \in BootPlaces => ret = "boot"
    BY Zenon DEF TypeInv, FrameAt
  <2>c. pc \in {"adopt", "bquiesce", "adopted"} => run \in Runs
    BY Zenon DEF TypeInv, FrameAt
  <2>d. ASSUME NEW new, Follows(st, new) PROVE Good(new) /\ JobsKept(disk, new)
    BY <2>d, ZenonT(30) DEF TypeInv, Follows, JobsKept
  <2> USE DEF BootPlaces
  <2>1. CASE Reconcile
    <3>1. PICK r \in todo :
            /\ run' = r /\ todo' = todo \ {r} /\ was' = (st.state[r] = "stopped")
            /\ Save(NewGeneration(st, r), "adopt", "off")
      BY <2>1, ZenonT(30) DEF Reconcile
    <3>2. pc = "recover" /\ UNCHANGED <<job, tgt, slot, ret, ftodo, world, due, acked>>
      BY <2>1, ZenonT(30) DEF Reconcile
    <3> DEFINE new == NewGeneration(st, r)
    <3>3. Save(new, "adopt", "off") /\ Follows(st, new)
      BY <2>0, <3>1, <2>GenerationFollows, Zenon
    <3> HIDE DEF new
    <3>4. /\ Good(st') /\ Good(disk') /\ stopping' \in BOOLEAN /\ left' \in Budget
          /\ JobsKept(disk, disk') /\ JobsKept(disk', st') /\ pc' \in {"adopt", "off"}
      BY <2>a, <3>3, <1>SaveType, Zenon
    <3>5. HostOK' /\ run' \in Runs
      BY <2>0, <3>1, <3>2, <1>SameHost, EngineAssumption, ZenonT(30)
    <3> QED  BY <2>0, <2>b, <3>1, <3>2, <3>4, <3>5, <2>BootingStep, ZenonT(30)
  <2>2. CASE Adopt
    <3>1. /\ pc = "adopt" /\ ret = "boot" /\ run \in Runs
          /\ UNCHANGED <<disk, stopping, frame, ext, open, dirs, conf, running, sealed, qdisc, due, acked>>
      BY <2>2, <2>b, <2>c, ZenonT(30) DEF Adopt
    <3>4. wgen' \in [Runs -> [Edges -> Nat]] /\ left' \in Budget
      BY <2>0, <2>2, <3>1, <1>AdoptType, <1>ThrowsType, ZenonT(30) DEF Adopt, HostOK
    <3>5. (st' = st \/ st' = Incomplete) /\ pc' \in {"bquiesce", "adopted"}
      BY <2>2, Zenon DEF Adopt
    <3>6. Follows(st, Incomplete)
      BY <2>0, <1>CovFollows, Zenon DEF Incomplete, Coverage
    <3>7. Good(st') /\ JobsKept(disk, st')
      BY <2>a, <2>d, <3>5, <3>6, Zenon
    <3>8. HostOK'
      BY <2>0, <3>1, <3>4, Zenon DEF HostOK
    <3> QED  BY <2>0, <3>1, <3>4, <3>5, <3>7, <3>8, KeptSame, <2>BootingStep,
        Zenon DEF frame
  <2>3. CASE BootQuiesce
    <3>1. /\ pc = "bquiesce" /\ ret = "boot" /\ run \in Runs /\ pc' = "adopted"
          /\ UNCHANGED <<disk, stopping, frame, ext, captures, qdisc, due, acked>>
      BY <2>3, <2>b, <2>c, Zenon DEF BootQuiesce
    <3>2. HostOK' /\ left' \in Budget
      BY <2>0, <2>3, <3>1, <1>QuiesceType, Zenon DEF BootQuiesce, QuiesceAttempt
    <3>3. st' \in {st, SetState(st, run, "stopped"), Incomplete}
      BY <2>3, Zenon DEF BootQuiesce
    <3>4. Follows(st, Incomplete) /\ Follows(st, SetState(st, run, "stopped"))
      BY <2>0, <1>CovFollows, <1>StateFollows, Zenon DEF Incomplete, Coverage, RunStates
    <3>5. Good(st') /\ JobsKept(disk, st')
      BY <2>a, <2>d, <3>3, <3>4, Zenon
    <3> QED  BY <2>0, <3>1, <3>2, <3>5, KeptSame, <2>BootingStep, Zenon DEF frame
  <2>4. CASE RunReconciled
    <3>1. FrameAt("recover") /\ FrameAt("off") /\ ~InJob("recover") /\ ~InJob("off")
      BY <2>4, <2>b, ZenonT(30) DEF RunReconciled, FrameAt, InJob, JobPlaces, M5Places,
          FaultPlaces
    <3> QED  BY <2>4, <2>a, <3>1, <1>CommitStep, Zenon DEF RunReconciled
  <2>5. CASE RunsReconciled
    <3>1. /\ pc = "recover" /\ ret = "boot" /\ pc' = "flt" /\ ftodo' \subseteq Faults
          /\ UNCHANGED <<journal, job, run, tgt, slot, ret, was, todo, world, due, acked, left>>
      BY <2>5, <2>b, Zenon DEF RunsReconciled
    <3>2. HostOK'
      BY <2>0, <3>1, <1>SameHost, Zenon
    <3> QED  BY <2>0, <3>1, <3>2, KeptSame, <2>BootingStep, Zenon DEF journal
  <2>6. CASE RecoverFault
    <3>1. PICK f \in ftodo :
            /\ tgt' = f /\ ftodo' = ftodo \ {f}
            /\ \/ DropQdisc(f) /\ st' = SetFault(st, f, "removed") /\ pc' = "flt"
               \/ DropThrows(f) /\ pc' = "m5fail" /\ UNCHANGED st
      BY <2>6, Zenon DEF RecoverFault
    <3>2. /\ pc = "flt" /\ ret = "boot"
          /\ UNCHANGED <<disk, stopping, job, run, slot, ret, was, todo, ext, open, captures, due, acked>>
      BY <2>6, <2>b, Zenon DEF RecoverFault
    <3>3. f \in Faults
      BY <2>0, Zenon
    <3>4. HostOK' /\ left' \in Budget
      BY <2>0, <3>1, <3>2, <3>3, <1>QdiscType, Zenon
    <3>5. Good(st') /\ JobsKept(disk, st')
      BY <2>0, <2>a, <2>d, <3>1, <1>FaultFollows, Zenon DEF FaultStates
    <3> QED  BY <2>0, <3>1, <3>2, <3>3, <3>4, <3>5, KeptSame, <2>BootingStep, Zenon
  <2>7. CASE BootDone
    <3>1. /\ pc = "flt" /\ ret' = "monitor" /\ Save(st, "loop", "off")
          /\ UNCHANGED <<job, run, tgt, slot, was, todo, ftodo, world, due, acked>>
      BY <2>7, Zenon DEF BootDone
    <3>2. pc' \in {"loop", "off"}
      BY <3>1, Zenon DEF Save
    <3>3. FrameAt(pc)' /\ ~InJob(pc)'
      BY <3>1, <3>2, Zenon DEF FrameAt, InJob, JobPlaces, M5Places, FaultPlaces
    <3> QED  BY <2>0, <2>a, <3>1, <3>3, <1>FramedStep, Zenon DEF TypeInv, TypeOK
  <2> QED  BY <2>1, <2>2, <2>3, <2>4, <2>5, <2>6, <2>7, Zenon DEF BootStep
<1>EndType. TypeInv /\ (Crash \/ Exit \/ Shutdown) => Advance
  <2>DiesType. ASSUME TypeInv, Dies, left' \in Budget
               PROVE  Advance
    <3> USE <2>DiesType
    <3>1. /\ pc' = "off" /\ st' = disk /\ stopping' = FALSE
          /\ job' = 0 /\ run' = NoRun /\ tgt' = NoFault /\ slot' = 0
          /\ ret' = "boot" /\ was' = FALSE /\ todo' = {} /\ ftodo' = {}
          /\ UNCHANGED <<disk, world, due, acked>>
      BY Zenon DEF Dies
    <3>2. HostOK'
      BY <3>1, <1>SameHost, Zenon DEF TypeInv, TypeOK
    <3>3. FrameOK' /\ pc' \in Places
      BY <3>1, KnownPlaces, ZenonT(30) DEF FrameOK
    <3>4. FrameAt(pc)' /\ ~InJob(pc)'
      BY <3>1, Zenon DEF FrameAt, InJob, JobPlaces, M5Places, FaultPlaces, BootPlaces
    <3> QED  BY <3>1, <3>2, <3>3, <3>4, Parts, KeptSame, <1>MovedStep, Zenon
  <2> SUFFICES ASSUME TypeInv, Crash \/ Exit \/ Shutdown PROVE Advance
    OBVIOUS
  <2>0. left \in Budget
    BY Zenon DEF TypeInv, TypeOK, Budget
  <2>1. CASE Crash
    BY <2>0, <2>1, <1>SpendType, <2>DiesType, Zenon DEF Crash
  <2>2. CASE Exit
    BY <2>0, <2>2, <2>DiesType, Zenon DEF Exit
  <2>3. CASE Shutdown
    <3>1. left' \in Budget /\ stopping' = TRUE /\ UNCHANGED <<st, disk, pc, frame, world, due, acked>>
      BY <2>0, <2>3, <1>SpendType, Zenon DEF Shutdown
    <3>2. HostOK'
      BY <3>1, <1>SameHost, Zenon DEF TypeInv, TypeOK
    <3> QED  BY <3>1, <3>2, KeptSame, <1>FrameStep, Zenon DEF TypeInv, TypeOK, Good
  <2> QED  BY <2>1, <2>2, <2>3, Zenon
<1>EnvironmentType. ASSUME TypeInv, Environment
                    PROVE  Advance
  <2> USE <1>EnvironmentType
  <2>0. /\ Good(st) /\ Good(disk) /\ HostOK /\ left \in Budget /\ stopping \in BOOLEAN
        /\ due \subseteq Faults
    BY ZenonT(30) DEF TypeInv, TypeOK, Good, Budget
  <2>1. ASSUME NEW r \in Runs, NEW i \in Gated, LeaseExpires(r, i) PROVE Advance
    <3>1. /\ open' \subseteq open
          /\ UNCHANGED <<journal, pc, frame, ext, captures, qdisc, due, acked, left>>
      BY <2>1, Zenon DEF LeaseExpires
    <3>2. HostOK'
      BY <2>0, <3>1, Zenon DEF HostOK, captures
    <3> QED  BY <2>0, <3>1, <3>2, <1>CallStep, Zenon DEF TypeInv, TypeOK
  <2>2. ASSUME NEW w \in running, CaptureDies(w) PROVE Advance
    <3>1. /\ running' \subseteq running
          /\ UNCHANGED <<journal, pc, frame, ext, open, dirs, conf, sealed, wgen, qdisc, due, acked>>
      BY <2>2, Zenon DEF CaptureDies
    <3>2. HostOK'
      BY <2>0, <3>1, Zenon DEF HostOK
    <3>3. left' \in Budget
      BY <2>0, <2>2, <1>SpendType, Zenon DEF CaptureDies
    <3> QED  BY <3>1, <3>2, <3>3, <1>CallStep, Zenon DEF TypeInv, TypeOK
  <2>3. ASSUME NEW f \in Faults, FaultDue(f) PROVE Advance
    <3>1. due' \subseteq Faults /\ UNCHANGED <<journal, pc, frame, world, acked, left>>
      BY <2>0, <2>3, Zenon DEF FaultDue
    <3>2. HostOK'
      BY <2>0, <3>1, <1>SameHost, Zenon
    <3>3. TypeOK'
      BY <3>1, <3>2, ZenonT(30) DEF TypeInv, TypeOK, journal, frame
    <3>4. FrameAt(pc)' /\ (InJob(pc) => st.job[job].is # "absent")'
      BY <3>1, ZenonT(30) DEF TypeInv, FrameAt, InJob, journal, frame
    <3> QED  BY <3>1, <3>3, <3>4, KeptSame, ZenonT(30) DEF Advance, TypeInv, journal
  <2> QED  BY <2>1, <2>2, <2>3, Zenon DEF Environment
<1>DispatchType. TypeInv /\ VisibleIsDurable /\ Dispatch => Advance /\ AcksRecorded
  <2>CancelFollows. ASSUME NEW s, Good(s), NEW j \in JobIds
                    PROVE  Follows(s, [s EXCEPT !.job[j].cancel = TRUE])
    <3> USE <2>CancelFollows
    <3> DEFINE q == [s.job EXCEPT ![j] = [@ EXCEPT !.cancel = TRUE]]
    <3>1. s.job \in [JobIds -> Jobs]
      BY Zenon DEF Good, Journal
    <3>2. q \in [JobIds -> Jobs]
      BY <3>1, Zenon DEF Jobs
    <3>3. \A i \in JobIds : /\ q[i].is = s.job[i].is /\ q[i].op = s.job[i].op
                            /\ q[i].run = s.job[i].run /\ q[i].flt = s.job[i].flt
      BY <3>1, Zenon DEF Jobs
    <3>4. [s EXCEPT !.job[j].cancel = TRUE] = [s EXCEPT !.job = q]
      OBVIOUS
    <3> HIDE DEF q
    <3>5. /\ [s EXCEPT !.job = q] \in Journal /\ [s EXCEPT !.job = q].job = q
          /\ [s EXCEPT !.job = q].key = s.key
      BY <3>2, Zenon DEF Good, Journal
    <3>6. Follows(s, [s EXCEPT !.job = q])
      BY <3>3, <3>5 DEF Follows, Good, JobsOK, JobsKept
    <3> QED  BY <3>4, <3>6, Zenon
  <2>EnterFollows.
      ASSUME NEW s, Good(s), NEW k \in Keys, NEW j \in JobIds, s.job[j].is = "absent",
             s.key[k] = NoEntry, NEW req \in Requests, NEW r \in Runs, NEW f \in Faults \cup {NoFault},
             req.op \in FaultOps => f \in Faults
      PROVE  Entered(s, Enter(k, j, req, s, r, f), k, j, req)
    <3> USE <2>EnterFollows
    <3> DEFINE n == [is |-> "queued", op |-> req.op, run |-> r, rev |-> s.rev[r], flt |-> f, cancel |-> FALSE]
               q == [s.job EXCEPT ![j] = n]
               e == [s.key EXCEPT ![k] = [req |-> req, job |-> j]]
    <3>1. s.job \in [JobIds -> Jobs] /\ s.key \in [Keys -> Entries] /\ s.rev[r] \in Nat
      BY Zenon DEF Good, Journal
    <3>2. n \in Jobs
      BY <3>1, Zenon DEF Jobs, JobStates, Requests
    <3>3. n.is # "absent" /\ n.op = req.op /\ n.run = r /\ n.flt = f
      OBVIOUS
    <3>4. [req |-> req, job |-> j] \in Entries
      BY Zenon DEF Entries
    <3>5. Enter(k, j, req, s, r, f) = [s EXCEPT !.job = q, !.key = e]
      BY Zenon DEF Enter
    <3> HIDE DEF n
    <3>6. q \in [JobIds -> Jobs] /\ q[j] = n /\ \A i \in JobIds \ {j} : q[i] = s.job[i]
      BY <3>1, <3>2, Zenon
    <3>7. /\ e \in [Keys -> Entries] /\ e[k] = [req |-> req, job |-> j]
          /\ \A x \in Keys \ {k} : e[x] = s.key[x]
      BY <3>1, <3>4, Zenon
    <3> HIDE DEF q, e
    <3>8. /\ [s EXCEPT !.job = q, !.key = e] \in Journal
          /\ [s EXCEPT !.job = q, !.key = e].job = q /\ [s EXCEPT !.job = q, !.key = e].key = e
      BY <3>6, <3>7, Zenon DEF Good, Journal
    <3>9. Follows(s, [s EXCEPT !.job = q, !.key = e])
      BY <3>3, <3>6, <3>7, <3>8 DEF Follows, Good, JobsOK, JobsKept
    <3> QED  BY <3>3, <3>5, <3>6, <3>7, <3>8, <3>9, Zenon DEF Entered
  <2>EnteredReply.
      ASSUME NEW k \in Keys, NEW j \in JobIds, NEW req \in Requests, NEW s, NEW t,
             Entered(s, t, k, j, req)
      PROVE  Reply(k, t) = [key |-> k, req |-> req, job |-> j] /\ Reply(k, t) \in Replies
    BY <2>EnteredReply DEF Entered, Reply, Replies
  <2>EnteredRecorded.
      ASSUME NEW k \in Keys, NEW j \in JobIds, NEW req \in Requests, NEW s, NEW t,
             Entered(s, t, k, j, req), CommitAndReply(k, t)
      PROVE  AcksRecorded
    <3> USE <2>EnteredRecorded
    <3> DEFINE a == [key |-> k, req |-> req, job |-> j]
    <3>1. Reply(k, t) = a
      BY <2>EnteredReply, Zenon
    <3>2. a.key = k /\ a.req = req /\ a.job = j
      OBVIOUS
    <3> HIDE DEF a
    <3>3. CASE disk' = t /\ acked' = acked \cup {a}
      BY <3>2, <3>3, Zenon DEF Entered, AcksRecorded, Recorded
    <3>4. CASE acked' = acked
      BY <3>4, Zenon DEF AcksRecorded
    <3> QED  BY <3>1, <3>3, <3>4, Zenon DEF CommitAndReply
  \* What a request for a fault does to the journal before its job enters it.
  <2>QueuedFollows.
      ASSUME NEW s, Good(s), NEW f, NEW r \in Runs
      PROVE  LET q == SetFault(s, f, "queued")
             IN Follows(s, Bump(q, r)) /\ Bump(q, r).job = s.job /\ Bump(q, r).key = s.key
    <3> USE <2>QueuedFollows
    <3> DEFINE q == SetFault(s, f, "queued")
    <3>1. Follows(s, q)
      BY <1>FaultFollows, Zenon DEF FaultStates
    <3>2. q.job = s.job /\ q.key = s.key /\ Good(q)
      BY <3>1, SameJobField DEF Good, Follows
    <3> HIDE DEF q
    <3>3. Follows(q, Bump(q, r)) /\ Bump(q, r).job = q.job /\ Bump(q, r).key = q.key
      BY <3>2, <1>BumpFollows, SameJobField, Zenon DEF Good
    <3>4. Follows(s, Bump(q, r))
      BY <3>1, <3>3, <1>FollowsTrans, Zenon
    <3> QED  BY <3>2, <3>3, <3>4, Zenon DEF q
  \* A mutation enters the journal with its job, at a key nobody has used.
  <2>AdmittedType.
      ASSUME TypeInv, NEW k \in Keys, NEW j \in JobIds, Admissible(k, j),
             NEW s, Follows(st, s), s.job = st.job, s.key = st.key,
             NEW req \in Requests, NEW r \in Runs, NEW f \in Faults \cup {NoFault},
             req.op \in FaultOps => f \in Faults,
             CommitAndReply(k, Enter(k, j, req, s, r, f)), UNCHANGED <<pc, frame, world, due>>
      PROVE  Advance /\ AcksRecorded
    <3> USE <2>AdmittedType
    <3>1. s.job[j].is = "absent" /\ s.key[k] = NoEntry /\ Good(s)
      BY ZenonT(30) DEF Admissible, Fresh, Follows
    <3>a. PICK new : new = Enter(k, j, req, s, r, f)
      OBVIOUS
    <3>2. Entered(s, new, k, j, req)
      BY <3>1, <3>a, <2>EnterFollows, ZenonT(30)
    <3>3. CommitAndReply(k, new) /\ Follows(st, new)
      BY <3>2, <3>a, <1>FollowsTrans, ZenonT(30) DEF Entered
    <3>4. Reply(k, new) \in Replies
      BY <3>2, <2>EnteredReply, ZenonT(30)
    <3>5. Good(disk) /\ Good(new) /\ JobsKept(disk, new) /\ left \in Budget /\ stopping \in BOOLEAN
      <4>1. Good(new) /\ JobsKept(st, new)
        BY <3>3, ZenonT(30) DEF Follows
      <4>2. JobsKept(disk, new)
        BY <4>1, Parts, ZenonT(30) DEF JobsKept
      <4> QED  BY <4>1, <4>2, Parts, ZenonT(30)
    <3>6. /\ st' = new /\ Good(disk') /\ JobsKept(disk, disk') /\ JobsKept(disk', st')
          /\ stopping' \in BOOLEAN
      <4>1. CASE disk' = new /\ UNCHANGED stopping
        BY <3>3, <3>5, <4>1, KeptSame, ZenonT(30) DEF CommitAndReply
      <4>2. CASE disk' = disk /\ stopping' = TRUE
        BY <3>3, <3>5, <4>2, KeptSame, ZenonT(30) DEF CommitAndReply
      <4> QED  BY <3>3, <4>1, <4>2, ZenonT(30) DEF CommitAndReply
    <3>7. left' \in Budget
      BY <3>3, <3>5, <1>SpendType, ZenonT(30) DEF CommitAndReply
    <3>8. acked' \subseteq Replies
      BY <3>3, <3>4, Parts, Zenon DEF CommitAndReply
    <3>9. HostOK'
      BY <1>SameHost, ZenonT(30) DEF TypeInv, TypeOK
    <3>10. TypeOK'
      BY <3>5, <3>6, <3>7, <3>8, <3>9, ZenonT(30) DEF TypeInv, TypeOK, Good, Budget,
          frame, Replies
    <3>11. InJob(pc) => new.job[job].is # "absent"
      BY <3>3, ZenonT(30) DEF TypeInv, Follows, JobsKept, FrameAt
    <3>12. FrameAt(pc)' /\ (InJob(pc) => st.job[job].is # "absent")'
      BY <3>6, <3>11, ZenonT(30) DEF TypeInv, FrameAt, InJob, frame
    <3>13. Advance
      BY <3>5, <3>6, <3>10, <3>12, ZenonT(30) DEF Advance, TypeInv, Good
    <3>14. AcksRecorded
      BY <3>2, <3>3, <2>EnteredRecorded, ZenonT(30)
    <3> QED  BY <3>13, <3>14, ZenonT(30)
  <2>RequestsType.
      /\ StartRequest \in Requests /\ StartRequest.op = "start"
      /\ \A op \in Operations, r \in Runs, f \in Faults \cup {NoFault} : Good(st) =>
           OperateRequest(op, r, f) \in Requests /\ OperateRequest(op, r, f).op = op
    BY DEF StartRequest, OperateRequest, Requests, Operations, Good, Journal
  <2> SUFFICES ASSUME TypeInv, VisibleIsDurable, Dispatch PROVE Advance /\ AcksRecorded
    OBVIOUS
  <2>0. Good(st) /\ HostOK /\ left \in Budget /\ Owner \in [Faults -> Runs] /\ st \in Journal
    BY EngineAssumption, Zenon DEF TypeInv, TypeOK, Good, Budget
  <2>a. ASSUME NEW k \in Keys, NEW j \in JobIds, Admissible(k, j),
               NEW s, Follows(st, s), s.job = st.job, s.key = st.key,
               NEW req \in Requests, NEW r \in Runs, NEW f \in Faults \cup {NoFault},
               req.op \in FaultOps => f \in Faults,
               CommitAndReply(k, Enter(k, j, req, s, r, f)), UNCHANGED <<pc, frame, world, due>>
        PROVE  Advance /\ AcksRecorded
    BY <2>a, <2>AdmittedType, ZenonT(30)
  <2>1. ASSUME NEW k \in Keys, NEW j \in JobIds, NEW r \in Runs, Start(k, j, r)
        PROVE  Advance /\ AcksRecorded
    <3>1. Follows(st, NewRun(st, r)) /\ NewRun(st, r).job = st.job /\ NewRun(st, r).key = st.key
      BY <2>0, NewRunFollows, SameJobField, Zenon
    <3>2. "start" \notin FaultOps
      BY Zenon DEF FaultOps
    <3> QED  BY <2>1, <2>a, <3>1, <3>2, <2>RequestsType, ZenonT(30) DEF Start
  <2>2. ASSUME NEW k \in Keys, NEW j \in JobIds, NEW r \in Runs,
               NEW op \in {"stop", "resume", "destroy", "recover"}, Operate(k, j, r, op)
        PROVE  Advance /\ AcksRecorded
    <3>1. Follows(st, Bump(st, r)) /\ Bump(st, r).job = st.job /\ Bump(st, r).key = st.key
      BY <2>0, <1>BumpFollows, SameJobField, Zenon
    <3>2. op \notin FaultOps /\ op \in Operations
      BY Zenon DEF FaultOps, Operations
    <3>3. OperateRequest(op, r, NoFault) \in Requests /\ OperateRequest(op, r, NoFault).op = op
      BY <2>0, <3>2, <2>RequestsType, Zenon
    <3> QED  BY <2>2, <2>a, <3>1, <3>2, <3>3, ZenonT(30) DEF Operate
  <2>3. ASSUME NEW k \in Keys, NEW j \in JobIds, NEW f \in Faults, FaultApply(k, j, f)
        PROVE  Advance /\ AcksRecorded
    <3> DEFINE s == Bump(SetFault(st, f, "queued"), Owner[f])
               req == OperateRequest("fault.apply", Owner[f], NoFault)
    <3>1. Follows(st, s) /\ s.job = st.job /\ s.key = st.key
      BY <2>0, <2>QueuedFollows, ZenonT(30)
    <3>2. req \in Requests
      BY <2>0, <2>RequestsType, Zenon DEF Operations
    <3>3. Admissible(k, j) /\ CommitAndReply(k, Enter(k, j, req, s, Owner[f], f))
          /\ UNCHANGED <<pc, frame, world, due>>
      BY <2>3, ZenonT(30) DEF FaultApply
    <3> HIDE DEF s, req
    <3> QED  BY <2>0, <2>a, <3>1, <3>2, <3>3, ZenonT(30)
  <2>4. ASSUME NEW k \in Keys, NEW j \in JobIds, NEW f \in Faults, FaultRemove(k, j, f)
        PROVE  Advance /\ AcksRecorded
    <3> DEFINE s == Bump(st, Owner[f])
               req == OperateRequest("fault.remove", Owner[f], f)
    <3>1. Follows(st, s) /\ s.job = st.job /\ s.key = st.key
      BY <2>0, <1>BumpFollows, SameJobField, ZenonT(30)
    <3>2. req \in Requests
      BY <2>0, <2>RequestsType, Zenon DEF Operations
    <3>3. Admissible(k, j) /\ CommitAndReply(k, Enter(k, j, req, s, Owner[f], f))
          /\ UNCHANGED <<pc, frame, world, due>>
      BY <2>4, Zenon DEF FaultRemove
    <3> HIDE DEF s, req
    <3> QED  BY <2>0, <2>a, <3>1, <3>2, <3>3, Zenon
  <2>5. ASSUME NEW k \in Keys, NEW x \in Keys, Retry(k, x)
        PROVE  Advance /\ AcksRecorded
    <3> DEFINE a == [key |-> k, req |-> st.key[k].req, job |-> st.key[k].job]
    <3>1. /\ st.key[k] # NoEntry /\ st = disk
          /\ UNCHANGED <<journal, pc, frame, world, due, left>>
      BY <2>5, Zenon DEF Retry, VisibleIsDurable
    <3>2. acked' = acked \cup {a}
      BY <2>5 DEF Retry, Reply, SamePayload
    <3>3. st.key[k] \in Entries /\ st.key[k].job \in JobIds /\ st.job[st.key[k].job].is # "absent"
      BY <2>0, <3>1, ZenonT(30) DEF Good, JobsOK, Journal
    <3>4. a \in Replies /\ st.key[k] = [req |-> st.key[k].req, job |-> st.key[k].job]
      BY <3>3, ZenonT(30) DEF Entries, Replies
    <3>5. AcksRecorded
      <4>1. a.key = k /\ a.req = st.key[k].req /\ a.job = st.key[k].job
        OBVIOUS
      <4> HIDE DEF a
      <4>2. disk'.key[a.key] = [req |-> a.req, job |-> a.job] /\ disk'.job[a.job].is # "absent"
        BY <3>1, <3>3, <3>4, <4>1, Zenon DEF journal
      <4> QED  BY <3>2, <4>2, ZenonT(30) DEF AcksRecorded, Recorded
    <3> HIDE DEF a
    <3>6. HostOK'
      BY <2>0, <3>1, <1>SameHost, Zenon
    <3>7. TypeOK'
      <4>1. acked' \subseteq Replies
        BY <3>2, <3>4, Parts, ZenonT(30)
      <4> QED  BY <3>1, <3>6, <4>1, ZenonT(30) DEF TypeInv, TypeOK, journal, frame,
          Replies
    <3>8. FrameAt(pc)' /\ (InJob(pc) => st.job[job].is # "absent")'
      BY <3>1, ZenonT(30) DEF TypeInv, FrameAt, InJob, journal, frame
    <3>9. Advance
      BY <3>1, <3>7, <3>8, KeptSame, Zenon DEF Advance, TypeInv, journal
    <3> QED  BY <3>5, <3>9, Zenon
  <2>6. ASSUME NEW j \in JobIds, Cancel(j)
        PROVE  Advance /\ AcksRecorded
    <3> DEFINE new == [st EXCEPT !.job[j].cancel = TRUE]
    <3>1. Save(new, pc, pc) /\ UNCHANGED <<frame, world, due, acked>> /\ Follows(st, new)
      BY <2>0, <2>6, <2>CancelFollows, Zenon DEF Cancel
    <3> HIDE DEF new
    <3>2. Advance
      BY <3>1, <1>CommitStep, Zenon DEF Committing, TypeInv, TypeOK
    <3> QED  BY <3>1, <3>2, Zenon DEF AcksRecorded
  <2> QED  BY <2>1, <2>2, <2>3, <2>4, <2>5, <2>6, Zenon DEF Dispatch
<1>DurableSave. ASSUME NEW new, NEW next, NEW h, Save(new, next, h)
                PROVE  DurableInv'
  BY <1>DurableSave, Zenon DEF Save, DurableInv
<1>DurableCall.
    ASSUME DurableInv, UNCHANGED journal, ret' = ret \/ ret # "boot", pc' = pc \/ pc # "off"
    PROVE  DurableInv'
  BY <1>DurableCall, Zenon DEF DurableInv, journal
\* No step of the worker answers a request.
<1>WorkerDurable. ASSUME TypeInv, DurableInv, WorkerStep
                  PROVE  DurableInv' /\ acked' = acked
  <2> USE <1>WorkerDurable
  <2>1. ASSUME
          \/ RecordFailure \/ Finish \/ Prepared \/ Epoch \/ PlanCaptures \/ Armed \/ Converge
          \/ Stopped \/ Destroy \/ Compensate \/ FaultCleared \/ RecordClosed \/ ResourceRemoved
          \/ Destroyed \/ StartCancelled \/ FaultBegin \/ FaultUndone \/ FaultSettle \/ Expired
          \/ FaultFailure \/ FailureNoted \/ M5Caught \/ MonitorFailure \/ RunReconciled
        PROVE  DurableInv' /\ acked' = acked
    BY <2>1, <1>DurableSave, Zenon
       DEF Committing,
           RecordFailure, Finish, Prepared, Epoch, PlanCaptures, Armed, Converge, Stopped,
           Destroy, Compensate, FaultCleared, RecordClosed, ResourceRemoved, Destroyed,
           StartCancelled, FaultBegin, FaultUndone, FaultSettle, Expired, FaultFailure,
           FailureNoted, M5Caught, MonitorFailure, RunReconciled
  <2>2. ASSUME
          \/ WorkerExits \/ CatchQuiesce \/ Observe \/ Prepare \/ StopOld \/ Arm \/ Activate
          \/ Status \/ Release \/ Recheck \/ StopQuiesce \/ Hold \/ ClearFault \/ CloseCaptures
          \/ RemoveResource \/ FaultEffect \/ FaultVerdict \/ FaultUndo \/ Expire
          \/ FailureQuiesce \/ Idle \/ MonitorQuiesce \/ RunsReconciled
        PROVE  /\ UNCHANGED journal /\ acked' = acked /\ pc # "off"
               /\ ret' = ret \/ pc \in {"activate", "loop"}
    BY <2>2, Zenon
       DEF frame,
           WorkerExits, CatchQuiesce, Observe, Prepare, StopOld, Arm, Activate, Status, Release,
           Recheck, StopQuiesce, Hold, ClearFault, CloseCaptures, RemoveResource, FaultEffect,
           FaultVerdict, FaultUndo, Expire, FailureQuiesce, Idle, MonitorQuiesce, RunsReconciled
  <2>3. pc \in {"activate", "loop", "next", "ready", "renew", "m5"} => ret # "boot"
    BY Zenon DEF TypeInv, FrameAt, BootPlaces
  <2>4. CASE Preflight \/ PlanCall
    BY <2>4, <1>DurableCall, Zenon DEF Preflight, PlanCall, Calling, frame
  <2>5. CASE TakeJob \/ M5Expiring \/ Reconcile \/ BootDone
    BY <2>5, <1>DurableSave, Zenon DEF TakeJob, M5Expiring, Reconcile, BootDone
  <2>6. CASE NextResource \/ Ready \/ M5Sample \/ Renew
    <3>1. /\ acked' = acked /\ ret' = ret /\ pc # "off"
          /\ UNCHANGED journal \/ \E new, next, h : Save(new, next, h)
      BY <2>6, ZenonT(30) DEF NextResource, Ready, M5Sample, Renew, Committing, frame
    <3> QED  BY <3>1, <1>DurableSave, <1>DurableCall, Zenon
  <2>7. CASE Adopt \/ BootQuiesce \/ RecoverFault
    <3>1. acked' = acked /\ ret' = ret /\ pc \in BootPlaces
      BY <2>7, Zenon DEF Adopt, BootQuiesce, RecoverFault, frame, BootPlaces
    <3> QED  BY <3>1, ZenonT(30) DEF DurableInv, TypeInv, FrameAt
  <2> QED
    BY <2>1, <2>2, <2>3, <2>4, <2>5, <2>6, <2>7, <1>DurableCall, Zenon
       DEF WorkerStep, JobStep, FaultStep, MonitorStep, BootStep
<1>OthersDurable. ASSUME DurableInv, Environment \/ Boot \/ Crash \/ Exit \/ Shutdown
                  PROVE  DurableInv' /\ acked' = acked
  <2> USE <1>OthersDurable
  <2>1. CASE Environment
    BY <2>1, <1>DurableCall, ZenonT(30) DEF Environment, LeaseExpires, CaptureDies,
        FaultDue, frame
  <2>2. CASE Boot
    BY <2>2, <1>DurableSave, ZenonT(30) DEF Boot
  <2>3. CASE Crash \/ Exit \/ Shutdown
    BY <2>3, Zenon DEF Crash, Exit, Shutdown, Dies, DurableInv
  <2> QED  BY <2>1, <2>2, <2>3, Zenon
<1>DispatchDurable. ASSUME DurableInv, Dispatch
                    PROVE  DurableInv'
  <2> USE <1>DispatchDurable
  <2>1. CASE \E j \in JobIds : Cancel(j)
    BY <2>1, <1>DurableSave, Zenon DEF Cancel
  <2>2. CASE \E k \in Keys, x \in Keys : Retry(k, x)
    BY <2>2, <1>DurableCall, Zenon DEF Retry, frame
  <2>3. ASSUME NEW k, NEW new, CommitAndReply(k, new)
        PROVE  DurableInv'
    BY <2>3, Zenon DEF CommitAndReply, DurableInv
  <2>4. ASSUME NEW k \in Keys, NEW j \in JobIds,
               \/ \E r \in Runs : Start(k, j, r)
               \/ \E r \in Runs, op \in {"stop", "resume", "destroy", "recover"} : Operate(k, j, r, op)
               \/ \E f \in Faults : FaultApply(k, j, f) \/ FaultRemove(k, j, f)
        PROVE  \E new : CommitAndReply(k, new)
    BY <2>4, Zenon DEF Start, Operate, FaultApply, FaultRemove
  <2> QED  BY <2>1, <2>2, <2>3, <2>4, Zenon DEF Dispatch
<1>RepliesKept. ASSUME TypeInv, RepliesAreDurable, JobsKept(disk, disk'), AcksRecorded
                PROVE  RepliesAreDurable'
  <2> USE <1>RepliesKept
  <2> SUFFICES ASSUME NEW a \in acked' PROVE Recorded(a)'
    BY ZenonT(30) DEF RepliesAreDurable, Recorded
  <2>1. CASE a \in acked
    <3>1. a.key \in Keys /\ a.job \in JobIds
      BY <2>1, ZenonT(30) DEF TypeInv, TypeOK
    <3>2. Recorded(a)
      BY <2>1, ZenonT(30) DEF RepliesAreDurable, Recorded
    <3>3. disk.key[a.key] # NoEntry
      BY <3>1, <3>2, SMTT(30) DEF Recorded, NoEntry, JobIds
    <3> QED  BY <3>1, <3>2, <3>3, ZenonT(30) DEF Recorded, JobsKept
  <2> QED  BY <2>1, Zenon DEF AcksRecorded
<1> SUFFICES ASSUME EngineInv, [Next]_vars PROVE EngineInv' /\ Advance
  OBVIOUS
<1>0. TypeInv /\ DurableInv /\ RepliesAreDurable /\ VisibleIsDurable
  BY InvImplies, Zenon DEF EngineInv
<1>1. CASE UNCHANGED vars
  <2>1. Advance
    <3>1. UNCHANGED <<journal, pc, frame, world, due, acked, left>>
      BY <1>1, Zenon DEF vars
    <3>2. HostOK'
      BY <1>0, <3>1, Parts, <1>SameHost, Zenon
    <3> QED  BY <1>0, <3>1, <3>2, Parts, <1>CallStep, Zenon DEF TypeInv
  <2> QED  BY <1>0, <1>1, <2>1, ZenonT(30)
           DEF Advance, EngineInv, DurableInv, RepliesAreDurable, vars, journal, frame
<1>2. CASE Dispatch
  BY <1>0, <1>2, <1>DispatchType, <1>DispatchDurable, <1>RepliesKept,
      Zenon DEF EngineInv,
      Advance
<1>3. CASE WorkerStep
  <2>1. Advance
    BY <1>0, <1>3, <1>JobStepType, <1>FaultStepType, <1>MonitorStepType,
        <1>BootStepType,
        Zenon DEF WorkerStep
  <2>2. DurableInv' /\ AcksRecorded
    BY <1>0, <1>3, <1>WorkerDurable, Zenon DEF AcksRecorded
  <2> QED  BY <1>0, <2>1, <2>2, <1>RepliesKept, Zenon DEF EngineInv, Advance
<1>4. CASE Environment \/ Boot \/ Crash \/ Exit \/ Shutdown
  <2>1. Advance
    BY <1>0, <1>4, <1>EnvironmentType, <1>BootType, <1>EndType, Zenon
  <2>2. DurableInv' /\ AcksRecorded
    BY <1>0, <1>4, <1>OthersDurable, Zenon DEF AcksRecorded
  <2> QED  BY <1>0, <2>1, <2>2, <1>RepliesKept, Zenon DEF EngineInv, Advance
<1> QED  BY <1>1, <1>2, <1>3, <1>4, Zenon DEF Next

\* Every variable keeps its type, whatever the agent is asked to do, however
\* often it crashes, and whichever of its calls fail.
THEOREM TypeCorrect == Spec => []TypeOK
<1>1. Spec => []EngineInv
  BY InitInv, NextInv, PTL DEF Spec
<1> QED  BY <1>1, InvImplies, PTL

\* While requests are served, what they see in memory is what save() has
\* committed: a failed commit closes admission before anything is answered.
THEOREM ServesCommitted == Spec => []VisibleIsDurable
<1>1. Spec => []EngineInv
  BY InitInv, NextInv, PTL DEF Spec
<1> QED  BY <1>1, InvImplies, PTL

\* A reply to start, operate or a fault request names a job and a payload that
\* stay on disk under its idempotency key, through every crash and restart.
THEOREM RepliesSurvive == Spec => []RepliesAreDurable
<1>1. Spec => []EngineInv
  BY InitInv, NextInv, PTL DEF Spec
<1> QED  BY <1>1, InvImplies, PTL

=============================================================================
