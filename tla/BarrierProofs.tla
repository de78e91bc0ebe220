--------------------------- MODULE BarrierProofs ----------------------------
(***************************************************************************)
(* Traffic.  A recording run lets traffic through only in an epoch whose   *)
(* captures were launched, and a stopped run lets none through.            *)
(***************************************************************************)
EXTENDS LedgerProofs

(***************************************************************************)
(* The gates.  Between the quiesce of a stop, or the creation of a run,    *)
(* and the release, they are held; a run that is stopped has them held     *)
(* until resume has opened them and not yet said so.                       *)
(***************************************************************************)
Shut(r) == \A i \in Gated : <<r, i>> \notin open
StartPlaces == {"preflight", "next", "prepare", "prepared"}
OpenPlaces == {"stopold", "epoch", "plan", "planned", "arm", "armed", "converge", "activate",
               "status", "release"}
Rechecking == pc \in M5Places \cup {"recheck"} /\ ret = "after"
Held ==
  \/ pc \in StartPlaces \cup OpenPlaces \cup {"stopped"}
  \/ pc \in {"close", "closed"} /\ This.op = "stop"
  \/ Rechecking
\* Where the gates may be open although the journal says "stopped".
Loose == {"ready", "catch", "failed"}
Claimed(r) == \E j \in JobIds : Pending(disk, j) /\ disk.job[j].run = r

\* What the job at hand was asked for, as far as its place tells.
OpAt ==
  /\ pc \in StartPlaces => This.op = "start"
  /\ pc = "compensate" => This.op = "start"
  /\ pc \in {"quiesce", "stopped"} => This.op = "stop"
  /\ pc \in {"destroy", "hold", "clear", "cleared"} => This.op # "stop"
  /\ InJob(pc) /\ This.op = "start" => st.state[run] # "stopped"
  /\ pc = "recheck" => ret \in {"before", "after"}
\* What is released has been created.
Late == pc \in {"activate", "status", "release"} \/ Rechecking
Born == Late => st.state[run] # "absent"
StopAt == pc # "off" => \A r \in Runs : st.state[r] = "stopped" => Shut(r) \/ (r = run /\ pc \in Loose)
StopKept == \A r \in Runs : disk.state[r] = "stopped" => Shut(r) \/ Claimed(r)
Unopened == \A r \in Runs : st.state[r] = "absent" \/ disk.state[r] = "absent" => Shut(r)
StartWaits ==
  pc # "off" => \A j \in JobIds : Queued(j) /\ st.job[j].op = "start" =>
    Shut(st.job[j].run) /\ st.state[st.job[j].run] # "stopped"
HoldInv == OpAt /\ Born /\ StopAt /\ StopKept /\ Unopened /\ StartWaits /\ (Held => Shut(run))

(***************************************************************************)
(* The barrier.                                                            *)
(***************************************************************************)
Barrier(s, r) == s.planned[r] /\ Planned(s, r) \subseteq conf
Guarded(r) == Barrier(st, r) /\ Barrier(disk, r)
InEpoch == pc \in {"armed", "converge", "activate", "status", "release"} \/ Rechecking
BarrierInv ==
  /\ \A r \in Recording : Shut(r) \/ Guarded(r)
  /\ InEpoch /\ run \in Recording => Guarded(run)
  /\ pc = "arm" => st.planned[run]

(***************************************************************************)
(* What most commits do to a run: it does not become stopped or absent,    *)
(* its plan stays, and no job is queued.                                   *)
(***************************************************************************)
Calm(s, t) ==
  /\ \A r \in Runs : /\ t.state[r] = "stopped" => s.state[r] = "stopped"
                     /\ t.state[r] = "absent" => s.state[r] = "absent"
  /\ \A j \in JobIds : t.job[j].is = "queued" =>
       s.job[j].is = "queued" /\ SameOrder(s.job[j], t.job[j])
Mild(s, t) == Calm(s, t) /\ t.epoch = s.epoch /\ t.planned = s.planned

LEMMA MildTrans ==
  ASSUME NEW s, NEW t, NEW u, Mild(s, t), Mild(t, u)
  PROVE  Mild(s, u)
BY Zenon DEF Mild, Calm, SameOrder

LEMMA MildSame ==
  ASSUME NEW s, NEW t, t.state = s.state, t.job = s.job, t.epoch = s.epoch, t.planned = s.planned
  PROVE  Mild(s, t)
BY Zenon DEF Mild, Calm, SameOrder

LEMMA StateMild ==
  ASSUME NEW s \in Journal, NEW r, NEW v, v \notin {"stopped", "absent"}
  PROVE  Mild(s, SetState(s, r, v))
<1>1. StateWritten(s, SetState(s, r, v), r, v) /\ s.state \in [Runs -> RunStates]
  BY WriteState, Zenon DEF Journal
<1> QED  BY <1>1, Zenon DEF StateWritten, Mild, Calm, SameCounts, SameOrder

LEMMA CovMild ==
  ASSUME NEW s \in Journal, NEW r, NEW v
  PROVE  Mild(s, SetCov(s, r, v))
<1>1. CovWritten(s, SetCov(s, r, v), r, v)
  BY WriteCov, Zenon
<1> QED  BY <1>1, MildSame, Zenon DEF CovWritten, SameCounts

LEMMA ResMild ==
  ASSUME NEW s \in Journal, NEW r, NEW i, NEW v
  PROVE  Mild(s, SetRes(s, r, i, v))
<1>1. ResWritten(s, SetRes(s, r, i, v), r, i, v)
  BY WriteRes, Zenon
<1> QED  BY <1>1, MildSame, Zenon DEF ResWritten, SameCounts, SameRuns

LEMMA FaultMild ==
  ASSUME NEW s \in Journal, NEW f, NEW v
  PROVE  Mild(s, SetFault(s, f, v))
<1>1. FaultWritten(s, SetFault(s, f, v), f, v)
  BY WriteFault, Zenon
<1> QED  BY <1>1, MildSame, Zenon DEF FaultWritten, SameCounts, SameRuns

LEMMA BumpMild ==
  ASSUME NEW s \in Journal, NEW r
  PROVE  Mild(s, Bump(s, r))
<1>1. SameAll(s, Bump(s, r))
  BY WriteBump, Zenon
<1> QED  BY <1>1, MildSame, Zenon DEF SameAll, SameCounts, SameRuns

LEMMA JobMild ==
  ASSUME NEW s \in Journal, NEW j \in JobIds, NEW v, v # "queued"
  PROVE  Mild(s, SetJob(s, j, v))
<1>1. JobWritten(s, SetJob(s, j, v), j, v)
  BY WriteJob, Zenon
<1> QED  BY <1>1, Zenon DEF JobWritten, Mild, Calm, SameCounts, SameRuns, SameOrder

LEMMA FailedMild ==
  ASSUME NEW s \in Journal, NEW r
  PROVE  Mild(s, Failed(s, r))
<1> DEFINE t == SetState(s, r, "reconciling")
<1>1. t \in Journal /\ Mild(s, t)
  BY SetStateType, StateMild, Zenon DEF RunStates
<1>2. Mild(s, SetCov(t, r, "incomplete"))
  BY <1>1, CovMild, MildTrans, Zenon
<1> QED  BY <1>1, <1>2, Zenon DEF Failed

LEMMA GenerationMild ==
  ASSUME NEW s \in Journal, NEW r \in Runs
  PROVE  Mild(s, NewGeneration(s, r))
<1>1. /\ NewGeneration(s, r).state = [s.state EXCEPT ![r] = "reconciling"]
      /\ NewGeneration(s, r).job = s.job /\ NewGeneration(s, r).epoch = s.epoch
      /\ NewGeneration(s, r).planned = s.planned /\ s.state \in [Runs -> RunStates]
  BY Zenon DEF NewGeneration, Journal
<1> QED  BY <1>1, Zenon DEF Mild, Calm, SameOrder

\* The journal becomes new, or the process ends with what is on disk.
Writes(new) == \/ st' = new /\ disk' \in {new, disk} /\ pc' # "off"
               \/ st' = disk /\ disk' = disk /\ pc' = "off"
LEMMA SaveWrites ==
  ASSUME NEW new, NEW next, NEW h, Save(new, next, h), next # "off"
  PROVE  Writes(new) /\ pc' \in {next, h} /\ (pc' # h => st' = disk')
BY Zenon DEF Save, Writes

\* The commits of a job that are of this kind.
MildCommit ==
  \/ Converge \/ Destroy \/ Compensate \/ Destroyed \/ Armed \/ RecordClosed \/ Prepared
  \/ ResourceRemoved \/ FaultCleared \/ RecordFailure \/ Finish \/ StartCancelled
  \/ FaultBegin \/ FaultUndone \/ FaultSettle
LEMMA JobWritesMild ==
  ASSUME TypeInv, MildCommit
  PROVE  \E new, next, h : Committing(new, next, h) /\ Mild(st, new) /\ next # "off"
<1>0. st \in Journal /\ pc \in JobPlaces
  BY ZenonT(30) DEF TypeInv, TypeOK, MildCommit, Converge, Destroy, Compensate,
      Destroyed, Armed,
     RecordClosed, Prepared, ResourceRemoved, FaultCleared, RecordFailure, Finish, StartCancelled,
     FaultBegin, FaultUndone, FaultSettle, JobPlaces
<1>j. job \in JobIds
  BY <1>0, Jobbing, Zenon
<1>1. CASE Converge \/ Destroy \/ Compensate
  BY <1>0, <1>1, StateMild, Zenon DEF Converge, Destroy, Compensate
<1>2. CASE Destroyed
  BY <1>0, <1>2, StateMild, Zenon DEF Destroyed
<1>3. CASE Armed
  <2> DEFINE t == SetState(st, run, "armed")
  <2>1. t \in Journal /\ Mild(st, t)
    BY <1>0, SetStateType, StateMild, Zenon DEF RunStates
  <2>2. Mild(st, SetCov(t, run, "armed"))
    BY <2>1, CovMild, MildTrans, Zenon
  <2> QED  BY <1>3, <2>2, Zenon DEF Armed
<1>4. CASE RecordClosed
  BY <1>0, <1>4, CovMild, Zenon DEF RecordClosed, AfterClose
<1>5. CASE Prepared \/ ResourceRemoved
  BY <1>0, <1>5, ResMild, Zenon DEF Prepared, ResourceRemoved
<1>6. CASE FaultCleared
  BY <1>0, <1>6, FaultMild, Zenon DEF FaultCleared
<1>7. CASE RecordFailure
  <2> DEFINE t == SetJob(st, job, "failed")
  <2>1. t \in Journal /\ Mild(st, t)
    BY <1>0, <1>j, SetJobType, JobMild, Zenon DEF JobStates
  <2>2. Mild(st, Failed(t, run))
    BY <2>1, FailedMild, MildTrans, Zenon
  <2> QED  BY <1>7, <2>2, Zenon DEF RecordFailure
<1>8. CASE Finish
  <2> DEFINE t == IF run \in Recording THEN SetCov(st, run, FinalCoverage(st, run)) ELSE st
  <2>1. FinalCoverage(st, run) \in Coverage
    BY Zenon DEF FinalCoverage, Coverage
  <2>2. t \in Journal /\ Mild(st, t)
    BY <1>0, <2>1, SetCovType, CovMild, MildSame, Zenon
  <2>3. Committing(SetJob(t, job, "succeeded"), "loop", "catch")
    BY <1>8, Zenon DEF Finish
  <2> HIDE DEF t
  <2>4. Mild(st, SetJob(t, job, "succeeded"))
    BY <1>j, <2>2, JobMild, MildTrans, Zenon
  <2> QED  BY <2>3, <2>4, Zenon
<1>9. CASE StartCancelled
  BY <1>0, <1>j, <1>9, JobMild, Zenon DEF StartCancelled
<1>10. ASSUME NEW v \in FaultStates, NEW w, w # "queued"
       PROVE  Mild(st, SetFault(st, tgt, v)) /\ Mild(st, SetJob(st, job, w))
              /\ Mild(st, SetJob(SetFault(st, tgt, v), job, w))
  <2>1. SetFault(st, tgt, v) \in Journal /\ Mild(st, SetFault(st, tgt, v))
    BY <1>0, SetFaultType, FaultMild, Zenon
  <2> QED  BY <1>0, <1>j, <1>10, <2>1, JobMild, MildTrans, Zenon
<1>11. CASE FaultBegin
  BY <1>10, <1>11, ZenonT(30) DEF FaultBegin, FaultStates
<1>12. CASE FaultUndone
  BY <1>10, <1>12, ZenonT(30) DEF FaultUndone, FaultStates
<1>13. CASE FaultSettle
  BY <1>10, <1>13, ZenonT(30) DEF FaultSettle, FaultStates
<1> QED  BY <1>1, <1>2, <1>3, <1>4, <1>5, <1>6, <1>7, <1>8, <1>9, <1>11, <1>12,
    <1>13, Zenon
         DEF MildCommit

\* The worker's steps that call.
CallStep ==
  \/ JobCallStep \/ Expire \/ FailureQuiesce \/ WorkerExits \/ Idle \/ MonitorQuiesce
  \/ RunsReconciled
LEMMA CallsWriteNothing ==
  ASSUME CallStep
  PROVE  UNCHANGED <<st, disk>> /\ pc' # "off"
<1>1. CASE JobCallStep
  <2>1. pc' # "off"
    BY <1>1, ZenonT(30) DEF JobCallStep, CatchQuiesce, Observe, Preflight, Prepare,
        StopOld, PlanCall,
       Calling, Arm, Activate, Status, Release, Recheck, StopQuiesce, Hold, ClearFault, CloseCaptures,
       AfterClose, RemoveResource, FaultEffect, FaultVerdict, FaultUndo, Checked, AfterActivate
  <2> QED  BY <1>1, <2>1, JobCallKeeps, Zenon
<1>2. CASE \/ Expire \/ FailureQuiesce \/ WorkerExits \/ Idle \/ MonitorQuiesce \/ RunsReconciled
  BY <1>2, Zenon DEF Expire, FailureQuiesce, WorkerExits, Idle, MonitorQuiesce,
      RunsReconciled, journal
<1> QED  BY <1>1, <1>2, Zenon DEF CallStep

OtherCommit ==
  \/ NextResource \/ Ready \/ M5Expiring \/ Expired \/ FaultFailure \/ FailureNoted \/ M5Sample
  \/ M5Caught \/ Renew \/ MonitorFailure \/ Reconcile \/ Adopt \/ RunReconciled \/ RecoverFault
  \/ BootDone
LEMMA OthersWriteMild ==
  ASSUME TypeInv, OtherCommit
  PROVE  \E new : Mild(st, new) /\ Writes(new)
<1>0. st \in Journal /\ Mild(st, st)
  BY MildSame, Zenon DEF TypeInv, TypeOK
<1>u. ASSUME UNCHANGED <<st, disk>>, pc' # "off" PROVE Writes(st)
  BY <1>u, Zenon DEF Writes
<1>1. CASE NextResource
  <2>1. CASE \E i : Save(SetRes(st, run, i, "intent"), "prepare", "catch")
    BY <1>0, <2>1, ResMild, SaveWrites, Zenon
  <2>2. CASE pc' = Checked(AfterResources) /\ UNCHANGED journal
    BY <1>0, <1>u, <2>2, Zenon DEF journal, Checked, AfterResources
  <2> QED  BY <1>1, <2>1, <2>2, Zenon DEF NextResource
<1>2. CASE Ready
  <2>1. CASE Committing(SetState(st, run, "ready"), "observe", "catch")
    BY <1>0, <2>1, CommittingParts, StateMild, SaveWrites, Zenon
  <2>2. CASE pc' = Checked("ready") /\ UNCHANGED journal
    BY <1>0, <1>u, <2>2, Zenon DEF journal, Checked
  <2> QED  BY <1>2, <2>1, <2>2, Zenon DEF Ready
<1>3. CASE M5Expiring
  BY <1>0, <1>3, FaultMild, SaveWrites, Zenon DEF M5Expiring
<1>4. CASE Expired
  <2>1. SetFault(st, tgt, "removed") \in Journal /\ Mild(st, SetFault(st, tgt, "removed"))
    BY <1>0, SetFaultType, FaultMild, Zenon DEF FaultStates
  <2>2. Mild(st, Bump(SetFault(st, tgt, "removed"), Owner[tgt]))
    BY <2>1, BumpMild, MildTrans, Zenon
  <2> QED  BY <1>4, <2>2, CommittingParts, SaveWrites, Zenon DEF Expired
<1>5. CASE FaultFailure
  <2> DEFINE t == SetFault(st, tgt, "recovery-required")
             u == SetState(t, Owner[tgt], "reconciling")
  <2>1. t \in Journal /\ Mild(st, t)
    BY <1>0, SetFaultType, FaultMild, Zenon DEF FaultStates
  <2> HIDE DEF t
  <2>2. u \in Journal /\ Mild(st, u)
    BY <2>1, SetStateType, StateMild, MildTrans, Zenon DEF RunStates
  <2> HIDE DEF u
  <2>3. Mild(st, Bump(u, Owner[tgt]))
    BY <2>2, BumpMild, MildTrans, Zenon
  <2>4. Committing(Bump(u, Owner[tgt]), "m5hold", M5Error)
    BY <1>5, Zenon DEF FaultFailure, RecoveryRequired, t, u
  <2> QED  BY <2>3, <2>4, CommittingParts, SaveWrites, Zenon
<1>6. CASE FailureNoted \/ M5Sample \/ M5Caught \/ Renew \/ RunReconciled \/ BootDone
  <2>1. ASSUME NEW next, NEW h, Save(st, next, h), next # "off" PROVE Writes(st)
    BY <2>1, SaveWrites, Zenon
  <2>2. CASE FailureNoted \/ M5Caught \/ RunReconciled
    BY <1>0, <2>1, <2>2, CommittingParts, Zenon DEF FailureNoted, M5Caught,
        RunReconciled
  <2>3. CASE M5Sample
    BY <1>0, <1>u, <2>1, <2>3, Zenon DEF M5Sample, M5Continue, journal
  <2>4. CASE Renew \/ BootDone
    BY <1>0, <1>u, <2>1, <2>4, Zenon DEF Renew, BootDone, journal
  <2> QED  BY <1>6, <2>2, <2>3, <2>4, Zenon
<1>7. CASE MonitorFailure
  <2> DEFINE t == SetState(st, run, "reconciling")
  <2>1. t \in Journal /\ Mild(st, t)
    BY <1>0, SetStateType, StateMild, Zenon DEF RunStates
  <2>2. Mild(st, SetCov(t, run, "incomplete"))
    BY <2>1, CovMild, MildTrans, Zenon
  <2> QED  BY <1>7, <2>2, CommittingParts, SaveWrites, Zenon DEF MonitorFailure
<1>8. CASE Reconcile
  <2>1. PICK r \in todo : Save(NewGeneration(st, r), "adopt", "off")
    BY <1>8, Zenon DEF Reconcile
  <2>2. r \in Runs
    BY EngineAssumption, Zenon DEF TypeInv, TypeOK
  <2> QED  BY <1>0, <2>1, <2>2, GenerationMild, SaveWrites, Zenon
<1>9. CASE Adopt
  <2>1. st' \in {st, Incomplete} /\ disk' = disk /\ pc' # "off"
    BY <1>9, Zenon DEF Adopt
  <2>2. Mild(st, Incomplete)
    BY <1>0, CovMild, Zenon DEF Incomplete
  <2> QED  BY <1>0, <2>1, <2>2, Zenon DEF Writes
<1>10. CASE RecoverFault
  <2>1. PICK f : st' \in {st, SetFault(st, f, "removed")} /\ disk' = disk /\ pc' # "off"
    BY <1>10, Zenon DEF RecoverFault
  <2> QED  BY <1>0, <2>1, FaultMild, Zenon DEF Writes
<1> QED  BY <1>1, <1>2, <1>3, <1>4, <1>5, <1>6, <1>7, <1>8, <1>9, <1>10,
    Zenon DEF OtherCommit

\* Every step of the worker but four, and taking a job, is mild.
LEMMA MildStep ==
  ASSUME TypeInv, WorkerStep, ~TakeJob, ~Stopped, ~Epoch, ~PlanCaptures, ~BootQuiesce
  PROVE  \E new : Mild(st, new) /\ Writes(new)
<1>1. CASE MildCommit
  BY <1>1, JobWritesMild, CommittingParts, SaveWrites, Zenon
<1>2. CASE CallStep
  BY <1>2, CallsWriteNothing, MildSame, Zenon DEF Writes
<1> QED  BY <1>1, <1>2, OthersWriteMild, Zenon
         DEF WorkerStep, JobStep, FaultStep, MonitorStep, BootStep, MildCommit,
             OtherCommit, CallStep,
             JobCallStep

(***************************************************************************)
(* The gates: only a release opens one.                                    *)
(***************************************************************************)
LEMMA QuiesceShrinks ==
  ASSUME NEW r, QuiesceAttempt(r)
  PROVE  open' \subseteq open
BY Zenon DEF QuiesceAttempt, Quiesced, QuiesceThrows

LEMMA GatesShrink ==
  ASSUME WorkerStep, ~Release
  PROVE  open' \subseteq open
<1>1. CASE MildCommit \/ Stopped \/ Epoch \/ PlanCaptures
  <2>1. UNCHANGED world
    BY <1>1, ZenonT(60) DEF MildCommit, Converge, Destroy, Compensate, Destroyed,
        Armed, RecordClosed,
       Prepared, ResourceRemoved, FaultCleared, RecordFailure, Finish, StartCancelled, FaultBegin,
       FaultUndone, FaultSettle, Stopped, Epoch, PlanCaptures, Committing
  <2> QED  BY <2>1, SameWorld, Zenon
<1>2. CASE CatchQuiesce \/ StopQuiesce \/ Hold \/ FailureQuiesce \/ MonitorQuiesce \/ BootQuiesce
  BY <1>2, QuiesceShrinks, Zenon
     DEF CatchQuiesce, StopQuiesce, Hold, FailureQuiesce, MonitorQuiesce,
         BootQuiesce, QuiesceAttempt
<1>3. CASE \/ Observe \/ Preflight \/ Prepare \/ StopOld \/ PlanCall \/ Arm \/ Activate \/ Status
           \/ Recheck \/ ClearFault \/ CloseCaptures \/ FaultEffect \/ FaultVerdict \/ FaultUndo
  <2>1. UNCHANGED world \/ UNCHANGED open
    BY <1>3, ZenonT(60) DEF Observe, Preflight, Prepare, StopOld, PlanCall, Calling,
        Arm, Activate,
       Status, Recheck, ClearFault, CloseCaptures, FaultEffect, FaultVerdict, FaultUndo
  <2> QED  BY <2>1, SameWorld, Zenon
<1>4. CASE RemoveResource
  BY <1>4, Zenon DEF RemoveResource, Removed, RemoveThrows, Gone
<1>5. CASE \/ TakeJob \/ WorkerExits \/ NextResource \/ Ready \/ Idle \/ M5Expiring \/ M5Sample
           \/ Expire \/ Expired \/ FaultFailure \/ FailureNoted \/ M5Caught \/ Renew \/ MonitorFailure
           \/ Reconcile \/ Adopt \/ RunReconciled \/ RunsReconciled \/ RecoverFault \/ BootDone
  <2>1. UNCHANGED world \/ UNCHANGED open
    BY <1>5, ZenonT(60) DEF TakeJob, WorkerExits, NextResource, Ready, Idle,
        M5Expiring, M5Sample,
       Expire, Expired, FaultFailure, FailureNoted, M5Caught, Renew, MonitorFailure, Reconcile, Adopt,
       RunReconciled, RunsReconciled, RecoverFault, BootDone, Committing
  <2> QED  BY <2>1, SameWorld, Zenon
<1> QED  BY <1>1, <1>2, <1>3, <1>4, <1>5, Zenon
         DEF WorkerStep, JobStep, FaultStep, MonitorStep, BootStep, MildCommit

\* A gate that is held stays held.
LEMMA StayShut ==
  ASSUME open' \subseteq open, NEW r, Shut(r)
  PROVE  Shut(r)'
BY Zenon DEF Shut

LEMMA QuiescedShuts ==
  ASSUME NEW r, Quiesced(r)
  PROVE  \A i \in Gated : <<r, i>> \notin open'
BY Zenon DEF Quiesced

LEMMA CalmStep ==
  ASSUME TypeInv, WorkerStep, ~TakeJob, ~Stopped, ~BootQuiesce
  PROVE  \E new : Calm(st, new) /\ Writes(new)
<1>0. st \in Journal
  BY Zenon DEF TypeInv, TypeOK
<1>1. ASSUME NEW new, new.state = st.state, new.job = st.job PROVE Calm(st, new)
  BY <1>1, Zenon DEF Calm, SameOrder
<1>2. CASE Epoch
  <2>1. EpochWritten(st, NewEpoch(st, run), run)
    BY <1>0, WriteEpoch, Zenon
  <2> QED  BY <1>1, <1>2, <2>1, CommittingParts, SaveWrites, Zenon DEF Epoch,
      EpochWritten, SameRuns
<1>3. CASE PlanCaptures
  <2>1. PlanWritten(st, [st EXCEPT !.planned[run] = TRUE], run)
    BY <1>0, WritePlan, Zenon
  <2> QED  BY <1>1, <1>3, <2>1, CommittingParts, SaveWrites, Zenon DEF PlanCaptures,
      PlanWritten, SameRuns
<1> QED  BY <1>2, <1>3, MildStep, Zenon DEF Mild

(***************************************************************************)
(* Where a job goes from where.                                            *)
(***************************************************************************)
Free == {"catch", "failed", "ready", "remove", "removed", "destroyed", "cancelled", "observe",
         "finish", "fault", "effect", "verdict", "undo", "undone", "settle"}
ClearPlaces == {"hold", "clear", "cleared"}
EarlyFlow ==
  \/ pc = "next" /\ pc' = AfterResources
  \/ pc = "recheck" /\ ret = "before" /\ run \in Recording /\ st.state[run] = "stopped" /\ pc' = "stopold"
  \/ pc = "stopold" /\ pc' = "epoch"
  \/ pc = "epoch" /\ pc' = "plan"
  \/ pc = "plan" /\ pc' = "planned"
  \/ pc = "planned" /\ pc' = "arm"
  \/ pc = "arm" /\ pc' = "armed"
  \/ pc = "armed" /\ pc' = "converge"
LateFlow ==
  \/ pc \in {"armed", "converge"} /\ pc' = "activate" /\ st'.state[run] # "absent"
  \/ /\ pc = "recheck" /\ ret = "before" /\ run \notin Recording /\ st.state[run] = "stopped"
     /\ pc' = "activate"
  \/ pc = "recheck" /\ ret = "after" /\ pc' = "release"
  \/ pc \in {"activate", "status"} /\ pc' \in {"status", "release"}
Flow ==
  \/ pc' \in Free
  \/ pc \in StartPlaces /\ pc' \in StartPlaces \cup {"compensate"}
  \/ EarlyFlow
  \/ LateFlow
  \/ This.op = "start" /\ pc' = "compensate"
  \/ pc \in {"activate", "status"} /\ pc' = "m5"
  \/ pc \in M5Places \cup {"recheck"} /\ pc' \in M5Places \cup {"recheck"} /\ ret' = ret
  \/ pc \in {"destroy", "compensate"} \cup ClearPlaces /\ pc' \in ClearPlaces
  \/ pc = "clear" /\ pc' = "close"
  \/ pc = "close" /\ pc' = "closed"
  \/ pc \in {"close", "closed"} /\ This.op = "stop" /\ pc' = "stopped"
  \/ pc = "quiesce" /\ pc' \in {"close", "stopped"} /\ Shut(run)'
Along == InJob(pc) /\ job' = job /\ run' = run /\ Flow
LEMMA JobFlows ==
  ASSUME TypeInv, OpAt, WorkerStep, ~TakeJob, InJob(pc)'
  PROVE  Along
<1>f. ASSUME UNCHANGED frame PROVE job' = job /\ run' = run /\ ret' = ret
  BY <1>f, Zenon DEF frame
<1>c. ASSUME NEW new, NEW next, NEW h, Committing(new, next, h)
      PROVE  job' = job /\ run' = run /\ ret' = ret /\ pc' \in {next, h}
  BY <1>c, CommittingParts, SaveWrites, Zenon DEF Save
<1>1. CASE \/ Destroy \/ Compensate \/ FaultCleared
  <2>1. /\ pc \in {"destroy", "compensate", "cleared"} /\ pc' \in ClearPlaces \cup {"catch"}
        /\ UNCHANGED frame
    BY <1>1, ZenonT(30) DEF Destroy, Compensate, FaultCleared, ClearPlaces,
        Committing, Save
  <2> QED  BY <1>f, <2>1, Zenon DEF Along, Flow, Free, ClearPlaces, InJob, JobPlaces
<1>2. CASE RecordClosed \/ Stopped
  <2>1. /\ pc \in {"closed", "stopped"} /\ pc' \in {AfterClose, "observe", "catch"}
        /\ pc' = AfterClose => pc = "closed"
        /\ UNCHANGED frame
    BY <1>2, ZenonT(30) DEF RecordClosed, Stopped, AfterClose, Committing, Save
  <2> QED  BY <1>f, <2>1, Zenon DEF Along, Flow, Free, AfterClose, InJob, JobPlaces
<1>3. CASE Epoch \/ PlanCaptures \/ Prepared
  <2>1. /\ \/ pc = "epoch" /\ pc' \in {"plan", "catch"}
           \/ pc = "planned" /\ pc' \in {"arm", "catch"}
           \/ pc = "prepared" /\ pc' \in {"next", "catch"}
        /\ UNCHANGED frame
    BY <1>3, ZenonT(30) DEF Epoch, PlanCaptures, Prepared, Committing, Save
  <2> QED  BY <1>f, <2>1, Zenon DEF Along, Flow, EarlyFlow, Free, StartPlaces, InJob,
      JobPlaces
<1>15. CASE Converge \/ Armed
  <2>1. st \in Journal /\ run \in Runs
    BY <1>15, Jobbing, Zenon DEF Converge, Armed, JobPlaces, Good
  <2>2. ASSUME NEW v, v # "absent" PROVE SetState(st, run, v).state[run] # "absent"
    <3>1. StateWritten(st, SetState(st, run, v), run, v) /\ st.state \in [Runs -> RunStates]
      BY <2>1, WriteState, Zenon DEF Journal
    <3> QED  BY <2>1, <2>2, <3>1, Zenon DEF StateWritten
  <2>3. ASSUME NEW v PROVE SetCov(SetState(st, run, "armed"), run, v).state = SetState(st, run, "armed").state
    <3>1. SetState(st, run, "armed") \in Journal
      BY <2>1, SetStateType, Zenon DEF RunStates
    <3>2. CovWritten(SetState(st, run, "armed"), SetCov(SetState(st, run, "armed"), run, v), run, v)
      BY <3>1, WriteCov, Zenon
    <3> QED  BY <3>2, Zenon DEF CovWritten
  <2>4. \/ pc = "armed" /\ pc' \in {"converge", "activate"} /\ st'.state[run] # "absent"
        \/ pc = "converge" /\ pc' = "activate" /\ st'.state[run] # "absent"
        \/ pc \in {"armed", "converge"} /\ pc' = "catch"
    BY <1>15, <2>2, <2>3, ZenonT(30) DEF Converge, Armed, Committing, Save
  <2>5. UNCHANGED frame
    BY <1>15, Zenon DEF Converge, Armed, Committing
  <2> QED  BY <1>f, <2>4, <2>5, Zenon DEF Along, Flow, EarlyFlow, LateFlow, Free,
      InJob, JobPlaces
<1>14. CASE \/ Destroyed \/ ResourceRemoved \/ RecordFailure \/ Finish \/ StartCancelled
            \/ FaultBegin \/ FaultUndone \/ FaultSettle
  <2>1. pc \in JobPlaces /\ pc' \in Free \cup {"loop", "off"} /\ UNCHANGED frame
    BY <1>14, ZenonT(30) DEF Destroyed, ResourceRemoved, RecordFailure, Finish,
        StartCancelled,
       FaultBegin, FaultUndone, FaultSettle, Free, JobPlaces, Committing, Save
  <2> QED  BY <1>f, <2>1, Zenon DEF Along, Flow, InJob, JobPlaces, M5Places
<1>4. CASE CatchQuiesce \/ Observe \/ FaultEffect \/ FaultVerdict \/ FaultUndo \/ RemoveResource
  BY <1>f, <1>4, ZenonT(30) DEF Along, Flow, Free, InJob, JobPlaces, CatchQuiesce,
      Observe, FaultEffect,
     FaultVerdict, FaultUndo, RemoveResource
<1>5. CASE Preflight \/ Prepare \/ StopOld \/ PlanCall \/ Arm \/ Release
  BY <1>f, <1>5, ZenonT(30) DEF Along, Flow, EarlyFlow, Free, StartPlaces, InJob,
      JobPlaces, Preflight,
     Prepare, StopOld, PlanCall, Calling, Arm, Release
<1>6. CASE NextResource
  BY <1>f, <1>6, ZenonT(30) DEF Along, Flow, EarlyFlow, Free, StartPlaces, InJob,
      JobPlaces,
     NextResource, Save, Checked, AfterResources
<1>7. CASE Activate \/ Status
  BY <1>f, <1>7, ZenonT(30) DEF Along, Flow, LateFlow, Free, InJob, JobPlaces,
      Activate, Status,
     Checked, AfterActivate
<1>8. CASE Ready
  <2>1. /\ pc = "ready" /\ UNCHANGED frame
        /\ pc' \in {"catch", "observe"} \/ (pc' = "compensate" /\ This.op = "start")
    BY <1>8, ZenonT(30) DEF Ready, Checked, Committing, Save
  <2> QED  BY <1>f, <2>1, Zenon DEF Along, Flow, Free, InJob, JobPlaces
<1>9. CASE Recheck
  BY <1>f, <1>9, ZenonT(30) DEF Along, Flow, EarlyFlow, LateFlow, Free, InJob,
      JobPlaces, Recheck, OpAt
<1>10. CASE StopQuiesce
  BY <1>f, <1>10, QuiescedShuts, ZenonT(30) DEF Along, Flow, Free, InJob, JobPlaces,
      StopQuiesce, Shut
<1>11. CASE Hold \/ ClearFault \/ CloseCaptures
  BY <1>f, <1>11, ZenonT(30) DEF Along, Flow, Free, ClearPlaces, InJob, JobPlaces,
      Hold, ClearFault,
     CloseCaptures, AfterClose
<1>12. CASE \/ M5Expiring \/ M5Sample \/ Expire \/ Expired \/ FaultFailure \/ FailureQuiesce
            \/ FailureNoted
  <2>0. pc \in M5Places /\ (pc = "m5" => ret # "boot") /\ ret \in {"monitor", "before", "after", "boot"}
    BY <1>12, ZenonT(30) DEF M5Expiring, M5Sample, Expire, Expired, FaultFailure,
        FailureQuiesce,
       FailureNoted, M5Places, TypeInv, TypeOK, FrameAt, BootPlaces
  <2>1. ret' = ret /\ job' = job /\ run' = run
    BY <1>12, <1>c, <1>f, ZenonT(30) DEF M5Expiring, M5Sample, Expire, Expired,
        FaultFailure,
       FailureQuiesce, FailureNoted
  <2>2. \/ pc' \in M5Places
        \/ pc' \in {"off", "flt"}
        \/ pc' \in {M5Continue, M5Error} /\ pc = "m5"
        \/ pc' = M5Error
    BY <1>12, <1>c, <1>f, ZenonT(30) DEF M5Expiring, M5Sample, Expire, Expired,
        FaultFailure,
       FailureQuiesce, FailureNoted, M5Places, Save
  <2>3. CASE pc' \in M5Places
    BY <2>0, <2>1, <2>3, Zenon DEF Along, Flow, InJob, M5Places, JobPlaces
  <2>4. CASE pc' \in {"off", "flt"}
    BY <2>4, Zenon DEF InJob, M5Places, JobPlaces
  <2>5. CASE pc' \in {M5Continue, M5Error} /\ (pc = "m5" \/ pc' = M5Error)
    <3>1. CASE ret = "monitor"
      BY <2>5, <3>1, Zenon DEF M5Continue, M5Error, InJob, M5Places, JobPlaces
    <3>2. CASE ret = "boot"
      BY <2>0, <2>5, <3>2, Zenon DEF M5Continue, M5Error, InJob, M5Places, JobPlaces
    <3>3. CASE ret \in {"before", "after"}
      BY <2>0, <2>1, <2>5, <3>3, Zenon DEF M5Continue, M5Error, Along, Flow, Free, InJob
    <3> QED  BY <2>0, <3>1, <3>2, <3>3, Zenon
  <2> QED  BY <2>2, <2>3, <2>4, <2>5, Zenon
<1>13. CASE \/ WorkerExits \/ Idle \/ M5Caught \/ Renew \/ MonitorQuiesce \/ MonitorFailure \/ Reconcile
            \/ Adopt \/ BootQuiesce \/ RunReconciled \/ RunsReconciled \/ RecoverFault \/ BootDone
  <2>1. ~InJob(pc)'
    <3>1. CASE WorkerExits \/ Idle \/ Renew \/ MonitorQuiesce
      BY <3>1, ZenonT(30) DEF WorkerExits, Idle, Renew, MonitorQuiesce, InJob,
          JobPlaces, M5Places, Save
    <3>2. CASE M5Caught \/ MonitorFailure \/ RunReconciled
      BY <3>2, ZenonT(30) DEF M5Caught, MonitorFailure, RunReconciled, InJob,
          JobPlaces, M5Places,
         Committing, Save
    <3>3. CASE Reconcile \/ Adopt \/ BootQuiesce \/ RunsReconciled \/ BootDone
      BY <3>3, ZenonT(30) DEF Reconcile, Adopt, BootQuiesce, RunsReconciled,
          BootDone, InJob, JobPlaces,
         M5Places, Save
    <3>4. CASE RecoverFault
      BY <3>4, ZenonT(30) DEF RecoverFault, InJob, JobPlaces, M5Places, TypeInv,
          FrameAt, BootPlaces
    <3> QED  BY <1>13, <3>1, <3>2, <3>3, <3>4, Zenon
  <2> QED  BY <2>1, Zenon
<1> QED  BY <1>1, <1>2, <1>3, <1>14, <1>15, <1>4, <1>5, <1>6, <1>7, <1>8, <1>9,
    <1>10, <1>11, <1>12, <1>13,
            Zenon
         DEF WorkerStep, JobStep, FaultStep, MonitorStep, BootStep

\* Which step the worker takes at some of its places.
LEMMA StepAt ==
  ASSUME WorkerStep
  PROVE  /\ pc # "off"
         /\ pc = "planned" => PlanCaptures
         /\ pc = "arm" => Arm
         /\ pc \in Loose => CatchQuiesce \/ RecordFailure \/ Ready
<1>1. CASE JobStep
  BY <1>1, ZenonT(60) DEF Loose, JobStep, TakeJob, WorkerExits, CatchQuiesce,
      RecordFailure, Observe, Finish,
     Preflight, NextResource, Prepare, Prepared, StopOld, Epoch, PlanCall, PlanCaptures, Arm, Armed,
     Converge, Activate, Status, Release, Ready, Recheck, StopQuiesce, Stopped, Destroy, Compensate,
     Hold, ClearFault, FaultCleared, CloseCaptures, RecordClosed, RemoveResource, ResourceRemoved,
     Destroyed, StartCancelled
<1>2. CASE FaultStep
  BY <1>2, ZenonT(60) DEF Loose, FaultStep, FaultBegin, FaultEffect, FaultVerdict,
      FaultUndo, FaultUndone,
     FaultSettle
<1>3. CASE MonitorStep
  BY <1>3, ZenonT(60) DEF Loose, MonitorStep, Idle, M5Expiring, M5Sample, Expire,
      Expired, FaultFailure,
     FailureQuiesce, FailureNoted, M5Caught, Renew, MonitorQuiesce, MonitorFailure
<1>4. CASE BootStep
  BY <1>4, ZenonT(60) DEF Loose, BootStep, Reconcile, Adopt, BootQuiesce,
      RunReconciled, RunsReconciled,
     RecoverFault, BootDone
<1> QED  BY <1>1, <1>2, <1>3, <1>4, Zenon DEF WorkerStep

\* While the gates may be open although the journal says "stopped", the disk
\* stays as it is, unless the run is called something else.
LEMMA LooseStep ==
  ASSUME TypeInv, OpAt, WorkerStep, pc \in Loose
  PROVE  /\ run' = run
         /\ \/ pc' \in Loose \cup {"off"} /\ disk' = disk
            \/ st'.state[run] # "stopped"
<1>0. st \in Journal /\ job \in JobIds /\ run \in Runs /\ InJob(pc) /\ st.state \in [Runs -> RunStates]
  <2>1. pc \in JobPlaces
    BY Zenon DEF Loose, JobPlaces
  <2> QED  BY <2>1, Jobbing, Zenon DEF Good, Journal
<1>1. CASE CatchQuiesce
  BY <1>1, Zenon DEF CatchQuiesce, Loose, frame, journal
<1>2. CASE RecordFailure
  <2> DEFINE t == SetJob(st, job, "failed")
             u == SetState(t, run, "reconciling")
  <2>1. t \in Journal
    BY <1>0, SetJobType, Zenon DEF JobStates
  <2>2. u \in Journal /\ u.state[run] = "reconciling"
    <3>1. StateWritten(t, u, run, "reconciling") /\ t.state \in [Runs -> RunStates]
      BY <2>1, WriteState, Zenon DEF Journal
    <3> QED  BY <1>0, <2>1, <3>1, SetStateType, Zenon DEF StateWritten, RunStates
  <2>3. SetCov(u, run, "incomplete").state = u.state
    <3>1. CovWritten(u, SetCov(u, run, "incomplete"), run, "incomplete")
      BY <2>2, WriteCov, Zenon
    <3> QED  BY <3>1, Zenon DEF CovWritten
  <2>4. Failed(t, run).state[run] = "reconciling"
    BY <2>2, <2>3, Zenon DEF Failed
  <2>5. Committing(Failed(t, run), "loop", "off")
    BY <1>2, Zenon DEF RecordFailure
  <2> QED  BY <2>4, <2>5, CommittingParts, Zenon DEF Save
<1>3. CASE Ready
  <2>1. CASE Committing(SetState(st, run, "ready"), "observe", "catch")
    <3>1. SetState(st, run, "ready").state[run] = "ready"
      <4>1. StateWritten(st, SetState(st, run, "ready"), run, "ready")
        BY <1>0, WriteState, Zenon
      <4> QED  BY <1>0, <4>1, Zenon DEF StateWritten
    <3> QED  BY <2>1, <3>1, CommittingParts, Zenon DEF Save
  <2>2. CASE This.op = "start" /\ UNCHANGED <<journal, frame>>
    BY <1>0, <2>2, Zenon DEF OpAt, journal, frame
  <2> QED  BY <1>3, <2>1, <2>2, Zenon DEF Ready
<1>4. CatchQuiesce \/ RecordFailure \/ Ready
  BY StepAt, Zenon
<1> QED  BY <1>1, <1>2, <1>3, <1>4, Zenon

\* A step that opens no gate and changes little of the journal.
LEMMA StopHeld ==
  ASSUME TypeInv, OpAt, StopAt, StopKept, WorkerStep, pc # "off", open' \subseteq open, NEW new,
         Calm(st, new), Writes(new)
  PROVE  StopAt' /\ StopKept'
<1>1. ASSUME NEW r \in Runs, st'.state[r] = "stopped", pc' # "off"
      PROVE  Shut(r)' \/ (r = run' /\ pc' \in Loose)
  <2>1. st.state[r] = "stopped"
    BY <1>1, Zenon DEF Writes, Calm
  <2> QED  BY <1>1, <2>1, LooseStep, StayShut, Zenon DEF StopAt
<1>2. ASSUME NEW r \in Runs, disk'.state[r] = "stopped"
      PROVE  Shut(r)' \/ Claimed(r)'
  <2>1. CASE disk' = disk
    BY <1>2, <2>1, StayShut, Zenon DEF StopKept, Claimed, Pending
  <2>2. CASE disk' # disk
    <3>1. st' = new /\ disk' = new
      BY <2>2, Zenon DEF Writes
    <3>2. st.state[r] = "stopped"
      BY <1>2, <3>1, Zenon DEF Calm
    <3>3. ~(r = run /\ pc \in Loose)
      BY <1>2, <2>2, <3>1, LooseStep, Zenon
    <3> QED  BY <3>2, <3>3, StayShut, Zenon DEF StopAt
  <2> QED  BY <2>1, <2>2, Zenon
<1> QED  BY <1>1, <1>2, Zenon DEF StopAt, StopKept

LEMMA UnopenedKept ==
  ASSUME TypeInv, Unopened, StartWaits, pc # "off", open' \subseteq open, NEW new,
         Calm(st, new), Writes(new)
  PROVE  Unopened' /\ StartWaits'
<1>1. ASSUME NEW r \in Runs, st'.state[r] = "absent" \/ disk'.state[r] = "absent"
      PROVE  Shut(r)'
  <2>1. st.state[r] = "absent" \/ disk.state[r] = "absent"
    BY <1>1, Zenon DEF Writes, Calm
  <2> QED  BY <2>1, StayShut, Zenon DEF Unopened
<1>2. ASSUME NEW j \in JobIds, Queued(j)', st'.job[j].op = "start", pc' # "off"
      PROVE  Shut(st.job[j].run)' /\ st'.job[j].run = st.job[j].run
             /\ st'.state[st.job[j].run] # "stopped"
  <2>1. Queued(j) /\ SameOrder(st.job[j], st'.job[j]) /\ st' = new
    BY <1>2, Zenon DEF Writes, Calm, Queued
  <2>2. st.job[j].run \in Runs
    BY <2>1, Zenon DEF TypeInv, JobsOK, Queued
  <2>3. Shut(st.job[j].run) /\ st.state[st.job[j].run] # "stopped"
    BY <1>2, <2>1, Zenon DEF StartWaits, SameOrder
  <2> QED  BY <2>1, <2>2, <2>3, StayShut, Zenon DEF Calm, SameOrder
<1> QED  BY <1>1, <1>2, Zenon DEF Unopened, StartWaits, Shut

LEMMA OutOfJob ==
  ASSUME ~InJob(pc)
  PROVE  OpAt /\ ~Held
BY Zenon DEF InJob, JobPlaces, M5Places, OpAt, Held, Rechecking, StartPlaces, OpenPlaces

LEMMA AlongHolds ==
  ASSUME TypeInv, OpAt, StopAt, Held => Shut(run), Along, SameOrder(This, This'), open' \subseteq open,
         st'.state[run] = "stopped" => st.state[run] = "stopped"
  PROVE  OpAt' /\ (Held' => Shut(run)')
<1>0. /\ job' = job /\ run' = run /\ InJob(pc) /\ run \in Runs /\ pc # "off" /\ Flow
      /\ This'.op = This.op
  BY Zenon DEF Along, TypeInv, FrameAt, InJob, JobPlaces, M5Places, SameOrder
<1>1. ASSUME Held PROVE Shut(run)'
  BY <1>0, <1>1, StayShut, Zenon DEF Shut
<1>2. ASSUME st.state[run] = "stopped", pc \notin Loose PROVE Shut(run)'
  BY <1>0, <1>2, StayShut, Zenon DEF StopAt, Shut
<1>3. InJob(pc)' /\ This'.op = "start" => st'.state[run'] # "stopped"
  BY <1>0, Zenon DEF OpAt
<1> DEFINE Rest ==
      /\ pc \in StartPlaces => This.op = "start"
      /\ pc = "compensate" => This.op = "start"
      /\ pc \in {"quiesce", "stopped"} => This.op = "stop"
      /\ pc \in {"destroy", "hold", "clear", "cleared"} => This.op # "stop"
      /\ pc = "recheck" => ret \in {"before", "after"}
<1>4. Rest
  BY Zenon DEF OpAt
<1>5. SUFFICES Rest' /\ (Held' => Shut(run)')
  BY <1>3, Zenon DEF OpAt
<1>6. CASE pc' \in Free
  BY <1>6, Zenon DEF Free, Held, Rechecking, StartPlaces, OpenPlaces, M5Places
<1>7. CASE pc \in StartPlaces /\ pc' \in StartPlaces \cup {"compensate"}
  BY <1>0, <1>1, <1>4, <1>7, Zenon DEF Held, StartPlaces
<1>8. CASE EarlyFlow
  BY <1>0, <1>1, <1>2, <1>8, Zenon DEF EarlyFlow, AfterResources, Held, Loose,
      StartPlaces, OpenPlaces
<1>9. CASE This.op = "start" /\ pc' = "compensate"
  BY <1>0, <1>9, Zenon DEF Held, Rechecking, StartPlaces, OpenPlaces, M5Places
<1>10. CASE pc \in {"activate", "status"} /\ pc' = "m5"
  BY <1>1, <1>10, Zenon DEF Held, StartPlaces, OpenPlaces
<1>11. CASE pc \in M5Places \cup {"recheck"} /\ pc' \in M5Places \cup {"recheck"} /\ ret' = ret
  <2>1. Held' => Rechecking
    BY <1>11, Zenon DEF Held, Rechecking, StartPlaces, OpenPlaces, M5Places
  <2>2. ret \in {"before", "after"}
    BY <1>0, <1>4, <1>11, Zenon DEF M5Places, InJob, JobPlaces
  <2>3. pc' \notin StartPlaces \cup {"compensate", "quiesce", "stopped", "destroy", "hold", "clear", "cleared"}
    BY <1>11, Zenon DEF StartPlaces, M5Places
  <2> QED  BY <1>1, <1>11, <2>1, <2>2, <2>3, Zenon DEF Held
<1>12. CASE LateFlow
  BY <1>1, <1>2, <1>12, Zenon DEF LateFlow, Held, Rechecking, Loose, StartPlaces,
      OpenPlaces
<1>13. CASE pc \in {"destroy", "compensate"} \cup ClearPlaces /\ pc' \in ClearPlaces
  BY <1>0, <1>4, <1>13, Zenon DEF Held, Rechecking, ClearPlaces, StartPlaces,
      OpenPlaces, M5Places
<1>14. CASE pc = "clear" /\ pc' = "close"
  BY <1>0, <1>4, <1>14, Zenon DEF Held, Rechecking, StartPlaces, OpenPlaces, M5Places
<1>15. CASE pc = "close" /\ pc' = "closed"
  BY <1>0, <1>1, <1>15, Zenon DEF Held, Rechecking, StartPlaces, OpenPlaces, M5Places
<1>16. CASE pc \in {"close", "closed"} /\ This.op = "stop" /\ pc' = "stopped"
  BY <1>0, <1>1, <1>16, Zenon DEF Held, StartPlaces
<1>17. CASE pc = "quiesce" /\ pc' \in {"close", "stopped"} /\ Shut(run)'
  BY <1>0, <1>4, <1>17, Zenon DEF StartPlaces
<1> QED  BY <1>0, <1>6, <1>7, <1>8, <1>9, <1>10, <1>11, <1>12, <1>13, <1>14, <1>15,
    <1>16, <1>17,
            Zenon DEF Flow

LEMMA AlongBorn ==
  ASSUME Along, Born, st'.state[run] = "absent" => st.state[run] = "absent"
  PROVE  Born'
<1>1. SUFFICES ASSUME Late' PROVE st'.state[run] # "absent"
  BY Zenon DEF Born, Along
<1>2. ASSUME Late PROVE st'.state[run] # "absent"
  BY <1>2, Zenon DEF Born
<1>3. CASE LateFlow
  BY <1>2, <1>3, Zenon DEF LateFlow, Late, Rechecking
<1>4. CASE pc \in {"activate", "status"}
  BY <1>2, <1>4, Zenon DEF Late
<1>5. CASE pc' \in M5Places \cup {"recheck"} /\ pc \in M5Places \cup {"recheck"} /\ ret' = ret
  BY <1>1, <1>2, <1>5, Zenon DEF Late, Rechecking, M5Places
<1>6. pc' \in {"activate", "status", "release", "recheck"} \cup M5Places
  BY <1>1, Zenon DEF Late, Rechecking
<1>7. LateFlow \/ pc \in {"activate", "status"}
      \/ (pc' \in M5Places \cup {"recheck"} /\ pc \in M5Places \cup {"recheck"} /\ ret' = ret)
  BY <1>6, Zenon DEF Along, Flow, EarlyFlow, AfterResources, Free, StartPlaces,
      ClearPlaces, M5Places
<1> QED  BY <1>3, <1>4, <1>5, <1>7, Zenon

LEMMA HoldOut ==
  ASSUME ~InJob(pc)
  PROVE  OpAt /\ Born /\ (Held => Shut(run))
BY OutOfJob, Zenon DEF Born, Late, Rechecking, InJob, JobPlaces, M5Places

LEMMA HoldByWorker ==
  ASSUME TypeInv, JobInv, HoldInv, Advance, WorkerStep, ~TakeJob, ~Stopped, ~BootQuiesce, ~Release
  PROVE  HoldInv'
<1>1. pc # "off" /\ open' \subseteq open
  BY StepAt, GatesShrink, Zenon
<1>2. PICK new : Calm(st, new) /\ Writes(new)
  BY CalmStep, Zenon
<1>3. StopAt' /\ StopKept' /\ Unopened' /\ StartWaits'
  BY <1>1, <1>2, StopHeld, UnopenedKept, Zenon DEF HoldInv
<1>4. CASE ~InJob(pc)'
  <2>1. OpAt' /\ Born' /\ (Held' => Shut(run)')
    BY <1>4, HoldOut, PTL
  <2> QED  BY <1>3, <2>1, Zenon DEF HoldInv
<1>5. CASE InJob(pc)'
  <2>1. Along
    BY <1>5, JobFlows, Zenon DEF HoldInv
  <2>2. InJob(pc) /\ job' = job /\ run \in Runs /\ pc' # "off"
    BY <1>5, <2>1, Zenon DEF Along, TypeInv, FrameAt, InJob, JobPlaces, M5Places
  <2>3. SameOrder(This, This')
    BY <2>2, OrderKept, Zenon
  <2>4. /\ st'.state[run] = "stopped" => st.state[run] = "stopped"
        /\ st'.state[run] = "absent" => st.state[run] = "absent"
    BY <1>2, <2>2, Zenon DEF Writes, Calm
  <2>5. OpAt' /\ (Held' => Shut(run)')
    BY <1>1, <2>1, <2>3, <2>4, AlongHolds, Zenon DEF HoldInv
  <2>6. Born'
    BY <2>1, <2>4, AlongBorn, Zenon DEF HoldInv
  <2> QED  BY <1>3, <2>5, <2>6, Zenon DEF HoldInv
<1> QED  BY <1>4, <1>5, Zenon

\* The release opens the gates of a run whose job is on disk.
LEMMA HoldByRelease ==
  ASSUME TypeInv, JobInv, HoldInv, Advance, Release
  PROVE  HoldInv'
<1>0. /\ pc = "release" /\ pc' \in {"ready", "catch"} /\ UNCHANGED <<st, disk, job, run>>
      /\ \A x \in open' : x \in open \/ x[1] = run
  BY Zenon DEF Release, Released, ReleaseThrows, journal, frame
<1>1. InJob(pc) /\ run \in Runs /\ job \in JobIds
  BY <1>0, Jobbing, Zenon DEF JobPlaces
<1>2. disk.job[job].is = "running" /\ st.job[job].run = run /\ Agree(st, disk)
  BY <1>0, <1>1, Zenon DEF JobInv, JobAt, Handlers
<1>3. Claimed(run)'
  <2>1. disk.job[job].run = run
    BY <1>1, <1>2, Zenon DEF TypeInv, JobsKept
  <2> QED  BY <1>0, <1>1, <1>2, <2>1, Zenon DEF Claimed, Pending
<1>4. ASSUME NEW r, r # run, Shut(r) PROVE Shut(r)'
  BY <1>0, <1>4, Zenon DEF Shut
<1>5. st.state[run] # "absent" /\ disk.state[run] # "absent"
  BY <1>0, <1>2, Zenon DEF HoldInv, Born, Late, Agree, SameRuns
<1>6. StopAt'
  BY <1>0, <1>4, Zenon DEF HoldInv, StopAt, Loose
<1>7. StopKept'
  BY <1>0, <1>3, <1>4, Zenon DEF HoldInv, StopKept, Claimed, Pending
<1>8. Unopened'
  BY <1>0, <1>4, <1>5, Zenon DEF HoldInv, Unopened
<1>9. StartWaits'
  BY <1>0, <1>1, Zenon DEF JobInv, JobAt, StartWaits, Queued
<1>10. OpAt' /\ Born' /\ ~Held'
  <2>1. InJob(pc)' /\ This'.op = "start" => st'.state[run'] # "stopped"
    BY <1>0, <1>1, Zenon DEF HoldInv, OpAt, This
  <2>2. ~Late' /\ ~Held' /\ pc' \notin StartPlaces
    BY <1>0, Zenon DEF Late, Held, Rechecking, StartPlaces, OpenPlaces, M5Places
  <2>3. pc' \notin {"compensate", "quiesce", "stopped", "destroy", "hold", "clear", "cleared", "recheck"}
    BY <1>0, Zenon
  <2> QED  BY <2>1, <2>2, <2>3, Zenon DEF OpAt, Born
<1> QED  BY <1>6, <1>7, <1>8, <1>9, <1>10, Zenon DEF HoldInv

\* Stop says so only with the gates held, and so does the constructor.
LEMMA HoldByStopped ==
  ASSUME TypeInv, JobInv, HoldInv, Advance, Stopped
  PROVE  HoldInv'
<1>0. /\ pc = "stopped" /\ Committing(SetState(st, run, "stopped"), "observe", "catch")
      /\ st \in Journal /\ InJob(pc) /\ run \in Runs
  <2>1. pc = "stopped" /\ pc \in JobPlaces
    BY Zenon DEF Stopped, JobPlaces
  <2> QED  BY <2>1, Jobbing, Zenon DEF Stopped, Good
<1>1. /\ st' = SetState(st, run, "stopped") /\ disk' \in {st', disk} /\ pc' \in {"observe", "catch"}
      /\ UNCHANGED <<job, run, open>>
  <2>1. Save(SetState(st, run, "stopped"), "observe", "catch") /\ UNCHANGED <<world, job, run>>
    BY <1>0, CommittingParts, Zenon
  <2> QED  BY <2>1, SameWorld, Zenon DEF Save
<1>2. StateWritten(st, st', run, "stopped") /\ st.state \in [Runs -> RunStates]
  BY <1>0, <1>1, WriteState, Zenon DEF Journal
<1>3. /\ \A r \in Runs : r # run => st'.state[r] = st.state[r]
      /\ st'.state[run] = "stopped" /\ st'.job = st.job
  BY <1>0, <1>2, Zenon DEF StateWritten
<1>4. Shut(run) /\ This.op = "stop" /\ pc \notin Loose
  BY <1>0, Zenon DEF HoldInv, Held, OpAt, Loose
<1>5. ASSUME NEW r PROVE Shut(r)' <=> Shut(r)
  BY <1>1, Zenon DEF Shut
<1>6. ASSUME NEW r \in Runs, st'.state[r] = "stopped" PROVE Shut(r)'
  BY <1>0, <1>3, <1>4, <1>5, <1>6, Zenon DEF HoldInv, StopAt
<1>7. StopAt' /\ StopKept'
  <2>1. ASSUME NEW r \in Runs, disk'.state[r] = "stopped" PROVE Shut(r)' \/ Claimed(r)'
    BY <1>1, <1>5, <1>6, <2>1, Zenon DEF HoldInv, StopKept, Claimed, Pending
  <2> QED  BY <1>6, <2>1, Zenon DEF StopAt, StopKept
<1>8. Unopened'
  BY <1>1, <1>3, <1>5, Zenon DEF HoldInv, Unopened
<1>9. StartWaits'
  BY <1>0, <1>3, Zenon DEF JobInv, JobAt, StartWaits, Queued
<1>10. OpAt' /\ Born' /\ ~Held'
  <2>1. This'.op = "stop"
    BY <1>1, <1>3, <1>4, Zenon DEF This
  <2>2. ~Late' /\ ~Held' /\ pc' \notin StartPlaces
    BY <1>1, Zenon DEF Late, Held, Rechecking, StartPlaces, OpenPlaces, M5Places
  <2>3. pc' \notin {"compensate", "quiesce", "stopped", "destroy", "hold", "clear", "cleared", "recheck"}
    BY <1>1, Zenon
  <2> QED  BY <2>1, <2>2, <2>3, Zenon DEF OpAt, Born
<1> QED  BY <1>7, <1>8, <1>9, <1>10, Zenon DEF HoldInv

LEMMA HoldByBootQuiesce ==
  ASSUME TypeInv, HoldInv, LanesInv, BootQuiesce
  PROVE  HoldInv'
<1>0. /\ st \in Journal /\ run \in Runs /\ ret = "boot" /\ pc = "bquiesce" /\ pc' = "adopted"
      /\ UNCHANGED <<disk, run, ret>> /\ open' \subseteq open
      /\ \/ Quiesced(run) /\ st' \in {st, SetState(st, run, "stopped")}
         \/ st' = Incomplete
  BY QuiesceShrinks, Zenon
     DEF BootQuiesce, QuiesceAttempt, TypeInv, TypeOK, FrameAt, BootPlaces, frame
<1>1. StateWritten(st, SetState(st, run, "stopped"), run, "stopped") /\ st.state \in [Runs -> RunStates]
  BY <1>0, WriteState, Zenon DEF Journal
<1>2. CovWritten(st, Incomplete, run, "incomplete")
  BY <1>0, WriteCov, Zenon DEF Incomplete
<1>3. ASSUME NEW r \in Runs
      PROVE  /\ st'.state[r] = "stopped" => st.state[r] = "stopped" \/ Shut(r)'
             /\ st'.state[r] = "absent" => st.state[r] = "absent"
  <2>1. CASE Quiesced(run) /\ st' = SetState(st, run, "stopped")
    BY <1>0, <1>1, <2>1, QuiescedShuts, Zenon DEF StateWritten, Shut
  <2>2. CASE st' \in {st, Incomplete}
    BY <1>2, <2>2, Zenon DEF CovWritten
  <2> QED  BY <1>0, <2>1, <2>2, Zenon
<1>4. st'.job = st.job
  BY <1>0, <1>1, <1>2, Zenon DEF StateWritten, CovWritten
<1>5. ~InJob(pc)' /\ pc \notin Loose /\ pc # "off"
  BY <1>0, Zenon DEF InJob, JobPlaces, M5Places, Loose
<1>6. StopAt' /\ Unopened'
  BY <1>0, <1>3, <1>5, StayShut, Zenon DEF HoldInv, StopAt, Unopened
<1>7. StopKept'
  BY <1>0, StayShut, Zenon DEF HoldInv, StopKept, Claimed, Pending
<1>8. StartWaits'
  BY <1>0, <1>4, <1>5, Zenon DEF LanesInv, QueueInv, StartWaits, Queued
<1>9. OpAt' /\ Born' /\ (Held' => Shut(run)')
  BY <1>5, HoldOut, PTL
<1> QED  BY <1>6, <1>7, <1>8, <1>9, Zenon DEF HoldInv

\* A job is taken.
LEMMA HoldByTake ==
  ASSUME TypeInv, HoldInv, TakeJob
  PROVE  HoldInv'
<1>0. /\ st \in Journal /\ pc = "loop" /\ WorkerStep /\ UNCHANGED world
  BY Zenon DEF TypeInv, TypeOK, TakeJob, WorkerStep, JobStep
<1>1. PICK j \in JobIds :
        /\ st.job[j].is = "queued" /\ job' = j /\ run' = st.job[j].run /\ ret' = "before"
        /\ Save(SetJob(st, j, "running"), Entry(st.job[j].op), "off")
  BY Zenon DEF TakeJob
<1>2. st.job[j].op \in Operations /\ st.job[j].run \in Runs
  BY <1>0, <1>1, Zenon DEF Journal, Jobs, TypeInv, JobsOK
<1> DEFINE p == Entry(st.job[j].op)
<1>3. /\ p = "preflight" => st.job[j].op = "start"
      /\ p = "quiesce" => st.job[j].op = "stop"
      /\ p = "destroy" => st.job[j].op \in {"destroy", "recover"}
      /\ p \in {"preflight", "quiesce", "m5", "destroy", "fault"}
  <2>1. CASE st.job[j].op = "start"
    BY <2>1, Zenon DEF Entry
  <2>2. CASE st.job[j].op = "stop"
    BY <2>2, Zenon DEF Entry
  <2>3. CASE st.job[j].op = "resume"
    BY <2>3, Zenon DEF Entry
  <2>4. CASE st.job[j].op \in {"destroy", "recover"}
    BY <2>4, Zenon DEF Entry
  <2>5. CASE st.job[j].op \in {"fault.apply", "fault.remove"}
    BY <2>5, Zenon DEF Entry
  <2> QED  BY <1>2, <2>1, <2>2, <2>3, <2>4, <2>5, Zenon DEF Operations
<1> DEFINE new == SetJob(st, j, "running")
<1>4. JobWritten(st, new, j, "running") /\ Calm(st, new)
  BY <1>0, WriteJob, JobMild, Zenon DEF Mild
<1>5. Writes(new) /\ pc' \in {p, "off"} /\ (pc' # "off" => st' = new)
  BY <1>1, <1>3, SaveWrites, Zenon DEF Writes
<1> HIDE DEF p
<1>6. open' \subseteq open /\ pc # "off"
  BY <1>0, SameWorld, Zenon
<1>7. StopAt' /\ StopKept' /\ Unopened' /\ StartWaits'
  BY <1>0, <1>4, <1>5, <1>6, StopHeld, UnopenedKept, Zenon DEF HoldInv
<1>8. CASE pc' = "off"
  <2>1. ~InJob(pc)'
    BY <1>8, Zenon DEF InJob, JobPlaces, M5Places
  <2>2. OpAt' /\ Born' /\ (Held' => Shut(run)')
    BY <2>1, HoldOut, PTL
  <2> QED  BY <1>7, <2>2, Zenon DEF HoldInv
<1>9. CASE pc' = p
  <2>1. p # "off"
    BY <1>3, Zenon
  <2>2. This'.op = st.job[j].op /\ st'.state = st.state
    BY <1>1, <1>4, <1>5, <1>9, <2>1, Zenon DEF This, JobWritten, SameOrder, SameRuns
  <2>3. st.job[j].op = "start" => Shut(run') /\ st'.state[run'] # "stopped"
    BY <1>0, <1>1, <2>2, Zenon DEF HoldInv, StartWaits, Queued
  <2>4. ~Late' /\ (Held' => p = "preflight")
    BY <1>1, <1>3, <1>9, Zenon DEF Late, Held, Rechecking, StartPlaces, OpenPlaces,
        M5Places
  <2>5. OpAt'
    BY <1>3, <1>9, <2>2, <2>3, Zenon DEF OpAt, StartPlaces
  <2>6. Held' => Shut(run)'
    BY <1>3, <1>6, <2>3, <2>4, Zenon DEF Shut
  <2> QED  BY <1>7, <2>4, <2>5, <2>6, Zenon DEF HoldInv, Born
<1> QED  BY <1>5, <1>8, <1>9, Zenon

\* A request that is admitted finds memory and disk the same, and no job.
LEMMA AcceptFinds ==
  ASSUME TypeInv, DurableInv, JobInv, NEW new, NEW j, NEW op, NEW r, NEW f, Accepts(new, j, op, r, f)
  PROVE  /\ st = disk /\ pc' = pc /\ pc # "off" /\ ~InJob(pc) /\ ~InJob(pc)' /\ UNCHANGED <<run, open>>
         /\ \A i \in JobIds : ~Queued(i)
<1>1. /\ Serving /\ ~Busy /\ UNCHANGED <<pc, run, ret, open>> /\ pc # "off"
  BY SameWorld, Zenon DEF Accepts, frame, Serving
<1>2. st = disk
  BY <1>1, Zenon DEF Serving, DurableInv
<1>3. \A i \in JobIds : ~Pending(disk, i) /\ ~Queued(i)
  BY <1>1, <1>2, Zenon DEF Busy, Pending, Queued
<1>4. ~InJob(pc)
  BY <1>3, Zenon DEF JobInv, JobAt, TypeInv, FrameAt, Pending
<1> QED  BY <1>1, <1>2, <1>3, <1>4, Zenon DEF InJob

LEMMA HoldByAccept ==
  ASSUME TypeInv, DurableInv, JobInv, HoldInv,
         NEW new, NEW j, NEW op, NEW r \in Runs, NEW f, Accepts(new, j, op, r, f),
         \A x \in Runs : /\ new.state[x] = "stopped" => st.state[x] = "stopped"
                         /\ new.state[x] = "absent" => st.state[x] = "absent",
         op = "start" => st.state[r] = "absent" /\ new.state[r] # "stopped"
  PROVE  HoldInv'
<1>0. /\ st = disk /\ pc' = pc /\ pc # "off" /\ ~InJob(pc) /\ ~InJob(pc)' /\ UNCHANGED <<run, open>>
      /\ \A i \in JobIds : ~Queued(i)
  BY AcceptFinds, Zenon
<1>1. /\ st' = new /\ disk' \in {new, disk} /\ Ordered(st, new, j, op, r, f) /\ j \in JobIds
  BY Zenon DEF Accepts
<1>2. \A x : Shut(x)' <=> Shut(x)
  BY <1>0, Zenon DEF Shut
<1>3. \A x \in Runs : st.state[x] = "stopped" => Shut(x)
  BY <1>0, Zenon DEF HoldInv, StopAt, InJob, JobPlaces, Loose
<1>4. StopAt' /\ StopKept' /\ Unopened'
  <2>1. \A x \in Runs : disk.state[x] = "stopped" => Shut(x)
    BY <1>0, <1>3, Zenon
  <2> QED  BY <1>0, <1>1, <1>2, <1>3, <2>1, Zenon DEF HoldInv, StopAt, StopKept,
      Unopened
<1>5. StartWaits'
  <2>1. ASSUME NEW i \in JobIds, Queued(i)', st'.job[i].op = "start"
        PROVE  Shut(st.job[i].run)' /\ st'.state[st'.job[i].run] # "stopped"
    <3>1. i = j
      BY <1>0, <1>1, <2>1, Zenon DEF Queued, Ordered
    <3>2. st'.job[i].run = r /\ op = "start"
      BY <1>1, <2>1, <3>1, Zenon DEF Ordered
    <3>3. Shut(r)'
      BY <1>2, <3>2, Zenon DEF HoldInv, Unopened
    <3> QED  BY <1>1, <3>2, <3>3, Zenon DEF Shut
  <2> QED  BY <2>1, Zenon DEF StartWaits
<1>6. OpAt' /\ Born' /\ (Held' => Shut(run)')
  <2>1. ~InJob(pc)'
    BY <1>0, Zenon
  <2> QED  BY <2>1, HoldOut, PTL
<1> QED  BY <1>4, <1>5, <1>6, Zenon DEF HoldInv

LEMMA HoldByDispatch ==
  ASSUME TypeInv, DurableInv, JobInv, HoldInv, Dispatch
  PROVE  HoldInv'
<1>0. st.state \in [Runs -> RunStates] /\ Owner \in [Faults -> Runs]
  BY EngineAssumption, Zenon DEF TypeInv, TypeOK, Journal
<1>1. ASSUME NEW k \in Keys, NEW j \in JobIds, NEW r \in Runs, Start(k, j, r)
      PROVE  HoldInv'
  <2>1. PICK new : Accepts(new, j, "start", r, NoFault) /\ RunCreated(st, new, r)
    BY <1>1, StartAccepted, Zenon
  <2>2. st.state[r] = "absent" /\ new.state = [st.state EXCEPT ![r] = "preparing"]
    BY <1>1, <2>1, Zenon DEF Start, RunCreated
  <2>3. \A x \in Runs : /\ new.state[x] = "stopped" => st.state[x] = "stopped"
                        /\ new.state[x] = "absent" => st.state[x] = "absent"
    BY <1>0, <2>2, Zenon
  <2>4. new.state[r] # "stopped"
    BY <1>0, <2>2, Zenon
  <2> QED  BY <2>1, <2>2, <2>3, <2>4, HoldByAccept, Zenon
<1>2. ASSUME NEW j \in JobIds, NEW new, NEW op, NEW r \in Runs, NEW f, Accepts(new, j, op, r, f),
             new.state = st.state, op # "start"
      PROVE  HoldInv'
  BY <1>2, HoldByAccept, Zenon
<1>3. ASSUME NEW k \in Keys, NEW j \in JobIds, NEW r \in Runs,
             NEW op \in {"stop", "resume", "destroy", "recover"}, Operate(k, j, r, op)
      PROVE  HoldInv'
  <2>1. PICK new : Accepts(new, j, op, r, NoFault) /\ Agree(st, new)
    BY <1>3, OperateAccepted, Zenon
  <2>2. new.state = st.state /\ op # "start"
    BY <2>1, Zenon DEF Agree, SameRuns
  <2> QED  BY <1>2, <2>1, <2>2, Zenon
<1>4. ASSUME NEW k \in Keys, NEW j \in JobIds, NEW f \in Faults, FaultApply(k, j, f) \/ FaultRemove(k, j, f)
      PROVE  HoldInv'
  <2>1. CASE FaultApply(k, j, f)
    <3>1. PICK new : Accepts(new, j, "fault.apply", Owner[f], f) /\ SameRuns(st, new)
      BY <2>1, ApplyAccepted, Zenon
    <3>2. Owner[f] \in Runs /\ new.state = st.state /\ "fault.apply" # "start"
      BY <1>0, <3>1, Zenon DEF SameRuns
    <3> QED  BY <1>2, <3>1, <3>2, Zenon
  <2>2. CASE FaultRemove(k, j, f)
    <3>1. PICK new : Accepts(new, j, "fault.remove", Owner[f], f) /\ Agree(st, new)
      BY <2>2, RemoveAccepted, Zenon
    <3>2. Owner[f] \in Runs /\ new.state = st.state /\ "fault.remove" # "start"
      BY <1>0, <3>1, Zenon DEF Agree, SameRuns
    <3> QED  BY <1>2, <3>1, <3>2, Zenon
  <2> QED  BY <1>4, <2>1, <2>2, Zenon
<1>5. ASSUME NEW j \in JobIds, Cancel(j)
      PROVE  HoldInv'
  <2>1. /\ pc' = pc /\ pc # "off" /\ UNCHANGED <<job, run, ret, open>>
        /\ Agree(st, st') /\ (disk' = st' \/ disk' = disk) /\ st = disk
        /\ \A i \in JobIds : st'.job[i].is = st.job[i].is /\ SameOrder(st.job[i], st'.job[i])
    BY <1>5, CancelMarks, SameWorld, Zenon DEF frame, Cancel, Serving, DurableInv
  <2>2. st'.state = st.state /\ disk'.state = disk.state
    BY <2>1, Zenon DEF Agree, SameRuns
  <2>3. \A x : (Shut(x)' <=> Shut(x)) /\ (Claimed(x) => Claimed(x)')
    <3>1. \A x : Shut(x)' <=> Shut(x)
      BY <2>1, Zenon DEF Shut
    <3>2. ASSUME NEW x, Claimed(x) PROVE Claimed(x)'
      BY <2>1, <3>2, Zenon DEF Claimed, Pending, SameOrder
    <3> QED  BY <3>1, <3>2, Zenon
  <2>4. StopAt' /\ StopKept' /\ Unopened'
    BY <2>1, <2>2, <2>3, Zenon DEF HoldInv, StopAt, StopKept, Unopened
  <2>5. StartWaits'
    <3>1. ASSUME NEW i \in JobIds, Queued(i)', st'.job[i].op = "start"
          PROVE  Shut(st.job[i].run)' /\ st'.state[st'.job[i].run] # "stopped"
      <4>1. Queued(i) /\ st.job[i].op = "start" /\ st'.job[i].run = st.job[i].run
        BY <2>1, <3>1, Zenon DEF Queued, SameOrder
      <4>2. Shut(st.job[i].run) /\ st.state[st.job[i].run] # "stopped"
        BY <2>1, <4>1, Zenon DEF HoldInv, StartWaits
      <4> QED  BY <2>1, <2>2, <4>1, <4>2, Zenon DEF Shut
    <3> QED  BY <3>1, Zenon DEF StartWaits
  <2>6. OpAt' /\ Born' /\ (Held' => Shut(run)')
    <3>1. CASE ~InJob(pc)
      <4>1. ~InJob(pc)'
        BY <2>1, <3>1, Zenon DEF InJob
      <4> QED  BY <4>1, HoldOut, PTL
    <3>2. CASE InJob(pc)
      <4>1. This'.op = This.op /\ run \in Runs
        BY <2>1, <3>2, Zenon DEF This, SameOrder, TypeInv, FrameAt
      <4>2. (InJob(pc)' <=> InJob(pc)) /\ (Held' <=> Held) /\ (Late' <=> Late)
        BY <2>1, <4>1, Zenon DEF InJob, Held, Late, Rechecking
      <4>3. OpAt'
        BY <2>1, <2>2, <4>1, <4>2, Zenon DEF HoldInv, OpAt
      <4> QED  BY <2>1, <2>2, <2>3, <4>1, <4>2, <4>3, Zenon DEF HoldInv, Born, Shut
    <3> QED  BY <3>1, <3>2, Zenon
  <2> QED  BY <2>4, <2>5, <2>6, Zenon DEF HoldInv
<1>6. ASSUME NEW k \in Keys, NEW x \in Keys, Retry(k, x)
      PROVE  HoldInv'
  <2>1. UNCHANGED <<st, disk, pc, job, run, ret, open>>
    BY <1>6, SameWorld, Zenon DEF Retry, journal, frame
  <2> QED  BY <2>1, Zenon DEF HoldInv, OpAt, Born, StopAt, StopKept, Unopened,
      StartWaits, Held, Late,
              Rechecking, Shut, Claimed, Pending, Queued, This, InJob
<1> QED  BY <1>1, <1>3, <1>4, <1>5, <1>6, Zenon DEF Dispatch

\* The process ends and starts again, and the environment acts: no gate opens.
LEMMA HoldByOther ==
  ASSUME TypeInv, HoldInv, Environment \/ Boot \/ Crash \/ Exit \/ Shutdown \/ UNCHANGED vars
  PROVE  HoldInv'
<1>1. ASSUME UNCHANGED <<st, disk, pc, job, run, ret>>, open' \subseteq open PROVE HoldInv'
  <2>1. \A x : Shut(x) => Shut(x)'
    BY <1>1, Zenon DEF Shut
  <2>2. /\ OpAt' /\ Born' /\ (Held' <=> Held)
    BY <1>1, Zenon DEF HoldInv, OpAt, Born, Late, Held, Rechecking, This, InJob
  <2>3. StopAt' /\ StopKept' /\ Unopened'
    BY <1>1, <2>1, Zenon DEF HoldInv, StopAt, StopKept, Unopened, Claimed, Pending
  <2>4. StartWaits' /\ (Held' => Shut(run)')
    BY <1>1, <2>1, <2>2, Zenon DEF HoldInv, StartWaits, Queued, Shut
  <2> QED  BY <2>2, <2>3, <2>4, Zenon DEF HoldInv
<1>2. CASE Environment
  <2>1. UNCHANGED <<st, disk, pc, job, run, ret>> /\ open' \subseteq open
    BY <1>2, SameWorld, Zenon DEF Environment, LeaseExpires, CaptureDies, FaultDue,
        journal, frame
  <2> QED  BY <1>1, <2>1, Zenon
<1>3. CASE Shutdown \/ UNCHANGED vars
  <2>1. UNCHANGED <<st, disk, pc, job, run, ret>> /\ open' \subseteq open
    BY <1>3, SameWorld, Zenon DEF Shutdown, vars, journal, frame
  <2> QED  BY <1>1, <2>1, Zenon
<1>4. CASE Crash \/ Exit
  <2>1. pc' = "off" /\ st' = disk /\ disk' = disk /\ UNCHANGED open
    BY <1>4, SameWorld, Zenon DEF Crash, Exit, Dies
  <2>2. ~InJob(pc)'
    BY <2>1, Zenon DEF InJob, JobPlaces, M5Places
  <2>3. OpAt' /\ Born' /\ (Held' => Shut(run)')
    BY <2>2, HoldOut, PTL
  <2>4. StopAt' /\ StartWaits' /\ Unopened' /\ StopKept'
    BY <2>1, Zenon DEF HoldInv, StopAt, StartWaits, Unopened, StopKept, Shut,
        Claimed, Pending
  <2> QED  BY <2>3, <2>4, Zenon DEF HoldInv
<1>5. CASE Boot
  <2> DEFINE new == Interrupted(disk)
  <2>1. /\ \A j \in JobIds : ~Pending(new, j)
        /\ \A r \in Runs : /\ new.state[r] = disk.state[r] \/ new.state[r] = "reconciling"
                           /\ Claimed(r) => new.state[r] = "reconciling"
    <3>1. disk \in Journal
      BY Zenon DEF TypeInv, TypeOK
    <3>2. \A r \in Runs : Claimed(r) => new.state[r] = "reconciling"
      <4>1. new.state = [r \in Runs |-> IF \E j \in JobIds : Pending(disk, j) /\ disk.job[j].run = r
                                        THEN "reconciling" ELSE disk.state[r]]
        BY <3>1, Zenon DEF Interrupted, Journal
      <4> QED  BY <4>1, Zenon DEF Claimed
    <3> QED  BY <3>1, <3>2, InterruptedClears, Zenon
  <2> HIDE DEF new
  <2>2. /\ st' \in {new, disk} /\ disk' \in {new, disk} /\ pc' \in {"recover", "off"}
        /\ pc' # "off" => st' = new
        /\ open' = open
    BY <1>5, SameWorld, Zenon DEF Boot, Save, new
  <2>3. ~InJob(pc)'
    BY <2>2, Zenon DEF InJob, JobPlaces, M5Places
  <2>4. OpAt' /\ Born' /\ (Held' => Shut(run)')
    BY <2>3, HoldOut, PTL
  <2>5. \A x : Shut(x)' <=> Shut(x)
    BY <2>2, Zenon DEF Shut
  <2>6. \A r \in Runs : new.state[r] = "stopped" => Shut(r)
    BY <2>1, Zenon DEF HoldInv, StopKept
  <2>7. StopAt' /\ StopKept'
    BY <2>2, <2>5, <2>6, Zenon DEF HoldInv, StopAt, StopKept, Claimed, Pending
  <2>8. Unopened'
    BY <2>1, <2>2, <2>5, Zenon DEF HoldInv, Unopened
  <2>9. StartWaits'
    BY <2>1, <2>2, Zenon DEF StartWaits, Queued, Pending
  <2> QED  BY <2>4, <2>7, <2>8, <2>9, Zenon DEF HoldInv
<1> QED  BY <1>2, <1>3, <1>4, <1>5, Zenon

LEMMA NextHold ==
  ASSUME TypeInv, DurableInv, LedgerInv, HoldInv, Advance, [Next]_vars
  PROVE  HoldInv'
BY HoldByWorker, HoldByRelease, HoldByStopped, HoldByBootQuiesce, HoldByTake,
    HoldByDispatch,
   HoldByOther, Zenon DEF Next, LedgerInv

LEMMA InitHold ==
  ASSUME Init
  PROVE  HoldInv
<1>1. /\ st = EmptyJournal /\ disk = EmptyJournal /\ pc = "loop" /\ open = {}
  BY Zenon DEF Init
<1>2. ~InJob(pc) /\ \A r : Shut(r)
  BY <1>1, Zenon DEF InJob, JobPlaces, M5Places, Shut
<1>3. \A j \in JobIds : ~Queued(j)
  BY <1>1, Zenon DEF Queued, EmptyJournal, NoJob
<1> QED  BY <1>2, <1>3, HoldOut, Zenon DEF HoldInv, StopAt, StopKept, Unopened,
    StartWaits

(***************************************************************************)
(* The barrier, step by step.  The plan and the epoch change only between  *)
(* the closing of the old captures and the arming of the new, where the    *)
(* gates are held.                                                         *)
(***************************************************************************)
SamePlan(s, t) == t.epoch = s.epoch /\ t.planned = s.planned
PlanFrom == \A t \in {st', disk'} : SamePlan(st, t) \/ SamePlan(disk, t)
LEMMA GuardKept ==
  ASSUME PlanFrom, conf \subseteq conf', NEW r, Guarded(r)
  PROVE  Guarded(r)'
<1>1. ASSUME NEW s, NEW t, SamePlan(s, t), Barrier(s, r) PROVE t.planned[r] /\ Planned(t, r) \subseteq conf'
  BY <1>1, Zenon DEF SamePlan, Barrier, Planned
<1>2. st'.planned[r] /\ Planned(st', r) \subseteq conf'
  BY <1>1, Zenon DEF PlanFrom, Guarded
<1>3. disk'.planned[r] /\ Planned(disk', r) \subseteq conf'
  BY <1>1, Zenon DEF PlanFrom, Guarded
<1> QED  BY <1>2, <1>3, Zenon DEF Guarded, Barrier, Planned

LEMMA BarrierKept ==
  ASSUME \A r \in Recording : Shut(r) \/ Guarded(r), PlanFrom, conf \subseteq conf', open' \subseteq open
  PROVE  \A r \in Recording : Shut(r)' \/ Guarded(r)'
BY GuardKept, StayShut, Zenon

LEMMA WritesPlan ==
  ASSUME NEW new, SamePlan(st, new), Writes(new)
  PROVE  PlanFrom
BY Zenon DEF Writes, PlanFrom, SamePlan

LEMMA WorkerPlan ==
  ASSUME TypeInv, WorkerStep, ~Epoch, ~PlanCaptures
  PROVE  PlanFrom
<1>0. st \in Journal
  BY Zenon DEF TypeInv, TypeOK
<1>1. CASE TakeJob
  <2>1. PICK j \in JobIds : Save(SetJob(st, j, "running"), Entry(st.job[j].op), "off")
    BY <1>1, Zenon DEF TakeJob
  <2>2. JobWritten(st, SetJob(st, j, "running"), j, "running")
    BY <1>0, WriteJob, Zenon
  <2>3. SamePlan(st, SetJob(st, j, "running"))
    BY <2>2, Zenon DEF JobWritten, SameCounts, SamePlan
  <2> QED  BY <2>1, <2>3, Zenon DEF Save, PlanFrom, SamePlan
<1>2. ASSUME NEW v PROVE SamePlan(st, SetState(st, run, v))
  <2>1. StateWritten(st, SetState(st, run, v), run, v)
    BY <1>0, WriteState, Zenon
  <2> QED  BY <2>1, Zenon DEF StateWritten, SameCounts, SamePlan
<1>3. CASE Stopped
  <2>1. Save(SetState(st, run, "stopped"), "observe", "catch")
    BY <1>3, CommittingParts, Zenon DEF Stopped
  <2> QED  BY <1>2, <2>1, SaveWrites, WritesPlan, Zenon
<1>4. CASE BootQuiesce
  <2>1. st' \in {st, SetState(st, run, "stopped"), Incomplete} /\ disk' = disk
    BY <1>4, Zenon DEF BootQuiesce
  <2>2. CovWritten(st, Incomplete, run, "incomplete")
    BY <1>0, WriteCov, Zenon DEF Incomplete
  <2>3. SamePlan(st, Incomplete) /\ SamePlan(st, st) /\ SamePlan(disk, disk)
    BY <2>2, Zenon DEF CovWritten, SameCounts, SamePlan
  <2> QED  BY <1>2, <2>1, <2>3, Zenon DEF PlanFrom
<1>5. CASE ~TakeJob /\ ~Stopped /\ ~BootQuiesce
  BY <1>5, MildStep, WritesPlan, Zenon DEF Mild, SamePlan
<1> QED  BY <1>1, <1>3, <1>4, <1>5, Zenon

LEMMA WorkerConf ==
  ASSUME WorkerStep
  PROVE  conf \subseteq conf'
<1>1. CASE MildCommit \/ Stopped \/ Epoch \/ PlanCaptures
  <2>1. UNCHANGED world
    BY <1>1, ZenonT(60) DEF MildCommit, Converge, Destroy, Compensate, Destroyed,
        Armed, RecordClosed,
       Prepared, ResourceRemoved, FaultCleared, RecordFailure, Finish, StartCancelled, FaultBegin,
       FaultUndone, FaultSettle, Stopped, Epoch, PlanCaptures, Committing
  <2> QED  BY <2>1, SameWorld, Zenon
<1>2. CASE \/ CatchQuiesce \/ StopQuiesce \/ Hold \/ FailureQuiesce \/ MonitorQuiesce \/ BootQuiesce
           \/ Observe \/ Preflight \/ Prepare \/ PlanCall \/ Activate \/ Status \/ Release \/ Recheck
           \/ ClearFault \/ FaultEffect \/ FaultVerdict \/ FaultUndo \/ RemoveResource
  <2>1. UNCHANGED world \/ UNCHANGED captures
    BY <1>2, ZenonT(60) DEF CatchQuiesce, StopQuiesce, Hold, FailureQuiesce,
        MonitorQuiesce,
       BootQuiesce, Observe, Preflight, Prepare, PlanCall, Calling, Activate, Status, Release, Recheck,
       ClearFault, FaultEffect, FaultVerdict, FaultUndo, RemoveResource
  <2> QED  BY <2>1, SameWorld, Zenon DEF captures
<1>3. CASE StopOld \/ CloseCaptures
  BY <1>3, Zenon DEF StopOld, CloseCaptures, StopCaptures, StopThrows, captures
<1>4. CASE Arm
  BY <1>4, Zenon DEF Arm, ArmCaptures, ArmThrows
<1>5. CASE \/ TakeJob \/ WorkerExits \/ NextResource \/ Ready \/ Idle \/ M5Expiring \/ M5Sample
           \/ Expire \/ Expired \/ FaultFailure \/ FailureNoted \/ M5Caught \/ Renew \/ MonitorFailure
           \/ Reconcile \/ Adopt \/ RunReconciled \/ RunsReconciled \/ RecoverFault \/ BootDone
  <2>1. UNCHANGED world \/ UNCHANGED captures \/ UNCHANGED conf
    BY <1>5, ZenonT(60) DEF TakeJob, WorkerExits, NextResource, Ready, Idle,
        M5Expiring, M5Sample,
       Expire, Expired, FaultFailure, FailureNoted, M5Caught, Renew, MonitorFailure, Reconcile, Adopt,
       RunReconciled, RunsReconciled, RecoverFault, BootDone, Committing
  <2> QED  BY <2>1, SameWorld, Zenon DEF captures
<1> QED  BY <1>1, <1>2, <1>3, <1>4, <1>5, Zenon
         DEF WorkerStep, JobStep, FaultStep, MonitorStep, BootStep, MildCommit

LEMMA OutOfEpoch ==
  ASSUME ~InJob(pc)'
  PROVE  ~InEpoch' /\ pc' # "arm"
BY Zenon DEF InEpoch, Rechecking, InJob, JobPlaces, M5Places

\* An epoch begins when its captures are launched.
LEMMA EpochFlows ==
  ASSUME Along, InEpoch', run \in Recording
  PROVE  InEpoch \/ (pc = "arm" /\ pc' = "armed")
<1>1. pc' \in {"armed", "converge", "activate", "status", "release", "recheck"} \cup M5Places
  BY Zenon DEF InEpoch, Rechecking
<1>2. \/ EarlyFlow \/ LateFlow \/ pc \in {"activate", "status"}
      \/ pc' \in M5Places \cup {"recheck"} /\ pc \in M5Places \cup {"recheck"} /\ ret' = ret
  BY <1>1, Zenon DEF Along, Flow, Free, StartPlaces, ClearPlaces, M5Places
<1>3. CASE EarlyFlow
  BY <1>1, <1>3, Zenon DEF EarlyFlow, AfterResources, InEpoch, M5Places
<1>4. CASE LateFlow
  BY <1>4, Zenon DEF LateFlow, InEpoch, Rechecking
<1>5. CASE pc \in {"activate", "status"}
  BY <1>5, Zenon DEF InEpoch
<1>6. CASE pc' \in M5Places \cup {"recheck"} /\ pc \in M5Places \cup {"recheck"} /\ ret' = ret
  BY <1>6, Zenon DEF InEpoch, Rechecking, M5Places
<1> QED  BY <1>2, <1>3, <1>4, <1>5, <1>6, Zenon

LEMMA ArmFlows ==
  ASSUME Along, pc' = "arm"
  PROVE  pc = "planned"
BY Zenon DEF Along, Flow, EarlyFlow, LateFlow, AfterResources, Free, StartPlaces,
    ClearPlaces, M5Places

LEMMA BarrierByArm ==
  ASSUME TypeInv, JobInv, BarrierInv, Arm, pc' = "armed", run \in Recording
  PROVE  Guarded(run)'
<1>1. pc = "arm" /\ UNCHANGED <<st, disk, run>> /\ ArmCaptures(run)
  BY Zenon DEF Arm, journal, frame
<1>2. InJob(pc) /\ run \in Runs
  BY <1>1, Jobbing, Zenon DEF JobPlaces
<1>3. Agree(st, disk)
  BY <1>1, <1>2, Zenon DEF JobInv, JobAt, Handlers
<1>4. st.planned[run] /\ Planned(st, run) \subseteq conf'
  BY <1>1, Zenon DEF BarrierInv, ArmCaptures
<1>5. disk.planned[run] /\ Planned(disk, run) = Planned(st, run)
  BY <1>3, <1>4, Zenon DEF Agree, SameCounts, Planned
<1> QED  BY <1>1, <1>4, <1>5, Zenon DEF Guarded, Barrier, Planned

\* The commits that open an epoch and plan its captures.
LEMMA BarrierByPlan ==
  ASSUME TypeInv, HoldInv, BarrierInv, Epoch \/ PlanCaptures
  PROVE  BarrierInv'
<1>0. /\ pc \in {"epoch", "planned"} /\ st \in Journal /\ run \in Runs
      /\ st.planned \in [Runs -> BOOLEAN] /\ st.epoch \in [Runs -> Nat]
  <2>1. pc \in {"epoch", "planned"} /\ pc \in JobPlaces
    BY Zenon DEF Epoch, PlanCaptures, JobPlaces
  <2> QED  BY <2>1, Jobbing, Zenon DEF Good, Journal
<1> DEFINE new == IF pc = "epoch" THEN NewEpoch(st, run) ELSE [st EXCEPT !.planned[run] = TRUE]
<1>1. /\ Writes(new) /\ pc' \in {"plan", "arm", "catch"} /\ UNCHANGED <<run, world>>
      /\ pc' = "arm" => pc = "planned"
  <2>1. CASE Epoch
    <3>1. /\ pc = "epoch" /\ Save(NewEpoch(st, run), "plan", "catch") /\ UNCHANGED <<run, world>>
      BY <2>1, CommittingParts, Zenon DEF Epoch
    <3>2. Writes(NewEpoch(st, run)) /\ pc' \in {"plan", "catch"}
      BY <3>1, SaveWrites, Zenon
    <3> QED  BY <3>1, <3>2, Zenon
  <2>2. CASE PlanCaptures
    BY <2>2, CommittingParts, SaveWrites, Zenon DEF PlanCaptures
  <2> QED  BY <2>1, <2>2, Zenon
<1>2. /\ \A r \in Runs : r # run => new.planned[r] = st.planned[r] /\ new.epoch[r] = st.epoch[r]
      /\ pc = "planned" => new.planned[run] = TRUE
  <2>1. EpochWritten(st, NewEpoch(st, run), run) /\ PlanWritten(st, [st EXCEPT !.planned[run] = TRUE], run)
    BY <1>0, WriteEpoch, WritePlan, Zenon
  <2>2. CASE pc = "epoch"
    BY <1>0, <2>1, <2>2, Zenon DEF EpochWritten
  <2>3. CASE pc # "epoch"
    BY <1>0, <2>1, <2>3, Zenon DEF PlanWritten
  <2> QED  BY <2>2, <2>3, Zenon
<1> HIDE DEF new
<1>3. open' = open /\ conf' = conf /\ Shut(run)
  BY <1>0, <1>1, SameWorld, Zenon DEF HoldInv, Held, OpenPlaces
<1>4. ASSUME NEW r \in Recording PROVE Shut(r)' \/ Guarded(r)'
  <2>1. CASE Shut(r)
    BY <1>3, <2>1, Zenon DEF Shut
  <2>2. CASE ~Shut(r)
    <3>1. r # run /\ Guarded(r) /\ r \in Runs
      BY <1>3, <2>2, EngineAssumption, Zenon DEF BarrierInv
    <3>2. Planned(new, r) = Planned(st, r) /\ new.planned[r] = st.planned[r]
      BY <1>2, <3>1, Zenon DEF Planned
    <3>3. st' \in {new, disk} /\ disk' \in {new, disk}
      BY <1>1, Zenon DEF Writes
    <3>4. \A s \in {new, disk} : s.planned[r] /\ Planned(s, r) \subseteq conf'
      BY <1>3, <3>1, <3>2, Zenon DEF Guarded, Barrier
    <3>5. /\ st'.planned[r] /\ Planned(st', r) \subseteq conf'
          /\ disk'.planned[r] /\ Planned(disk', r) \subseteq conf'
      BY <3>3, <3>4, Zenon
    <3> QED  BY <3>5, Zenon DEF Guarded, Barrier, Planned
  <2> QED  BY <2>1, <2>2, Zenon
<1>5. ~InEpoch'
  BY <1>1, Zenon DEF InEpoch, Rechecking, M5Places
<1>6. pc' = "arm" => st'.planned[run']
  BY <1>1, <1>2, Zenon DEF Writes
<1> QED  BY <1>4, <1>5, <1>6, Zenon DEF BarrierInv

LEMMA BarrierByWorker ==
  ASSUME TypeInv, JobInv, HoldInv, BarrierInv, WorkerStep
  PROVE  BarrierInv'
<1>1. CASE Epoch \/ PlanCaptures
  BY <1>1, BarrierByPlan, Zenon
<1>2. CASE ~Epoch /\ ~PlanCaptures
  <2>1. PlanFrom /\ conf \subseteq conf'
    BY <1>2, WorkerPlan, WorkerConf, Zenon
  <2>2. \A r \in Recording : Shut(r)' \/ Guarded(r)'
    <3>1. CASE ~Release
      BY <2>1, <3>1, GatesShrink, BarrierKept, Zenon DEF BarrierInv
    <3>2. CASE Release
      <4>1. pc = "release" /\ \A x \in open' : x \in open \/ x[1] = run
        BY <3>2, Zenon DEF Release, Released, ReleaseThrows
      <4>2. ASSUME NEW r \in Recording, ~(Shut(r)') PROVE Guarded(r)
        BY <4>1, <4>2, Zenon DEF BarrierInv, InEpoch, Shut
      <4> QED  BY <2>1, <4>2, GuardKept, Zenon
    <3> QED  BY <3>1, <3>2, Zenon
  <2>3. CASE ~InJob(pc)'
    <3>1. ~InEpoch' /\ pc' # "arm"
      BY <2>3, OutOfEpoch, Zenon
    <3> QED  BY <2>2, <3>1, Zenon DEF BarrierInv
  <2>4. CASE TakeJob
    <3>1. ret' = "before" /\ \E op \in Operations : pc' \in {Entry(op), "off"}
      BY <2>4, Zenon DEF TakeJob, Save, TypeInv, TypeOK, Journal, Jobs
    <3>2. ~InEpoch' /\ pc' # "arm"
      BY <3>1, ZenonT(30) DEF Entry, Operations, InEpoch, Rechecking
    <3> QED  BY <2>2, <3>2, Zenon DEF BarrierInv
  <2>5. CASE InJob(pc)' /\ ~TakeJob
    <3>1. Along /\ run' = run
      BY <2>5, JobFlows, Zenon DEF HoldInv, Along
    <3>2. pc' # "arm"
      BY <1>2, <3>1, ArmFlows, StepAt, Zenon
    <3>3. InEpoch' /\ run' \in Recording => Guarded(run)'
      <4>1. ASSUME Guarded(run) PROVE Guarded(run)'
        BY <2>1, <3>1, <4>1, GuardKept, Zenon DEF Guarded, Barrier, Planned
      <4>2. ASSUME pc = "arm", pc' = "armed", run \in Recording PROVE Guarded(run)'
        BY <4>2, StepAt, BarrierByArm, Zenon
      <4> QED  BY <3>1, <4>1, <4>2, EpochFlows, Zenon DEF BarrierInv
    <3> QED  BY <2>2, <3>2, <3>3, Zenon DEF BarrierInv
  <2> QED  BY <2>3, <2>4, <2>5, Zenon
<1> QED  BY <1>1, <1>2, Zenon

\* A request that is admitted, and a cancel, leave plans and epochs alone.
LEMMA DispatchPlan ==
  ASSUME TypeInv, Dispatch
  PROVE  PlanFrom /\ UNCHANGED <<pc, run, ret, open, conf>> /\ SamePlan(st, st')
<1>1. ASSUME NEW new, NEW j, NEW op, NEW r, NEW f, Accepts(new, j, op, r, f), SamePlan(st, new)
      PROVE  PlanFrom /\ UNCHANGED <<pc, run, ret, open, conf>> /\ SamePlan(st, st')
  <2>1. UNCHANGED <<pc, run, ret, open, conf>> /\ st' = new /\ disk' \in {new, disk}
    BY <1>1, SameWorld, Zenon DEF Accepts, frame
  <2> QED  BY <1>1, <2>1, Zenon DEF PlanFrom, SamePlan
<1>2. ASSUME NEW k \in Keys, NEW j \in JobIds, NEW r \in Runs, Start(k, j, r)
      PROVE  \E new : Accepts(new, j, "start", r, NoFault) /\ SamePlan(st, new)
  <2>1. PICK new : Accepts(new, j, "start", r, NoFault) /\ RunCreated(st, new, r)
    BY <1>2, StartAccepted, Zenon
  <2> QED  BY <2>1, Zenon DEF RunCreated, SamePlan
<1>3. ASSUME NEW k \in Keys, NEW j \in JobIds, NEW r \in Runs, NEW op, Operate(k, j, r, op)
      PROVE  \E new : Accepts(new, j, op, r, NoFault) /\ SamePlan(st, new)
  <2>1. PICK new : Accepts(new, j, op, r, NoFault) /\ Agree(st, new)
    BY <1>3, OperateAccepted, Zenon
  <2> QED  BY <2>1, Zenon DEF Agree, SameCounts, SamePlan
<1>4. ASSUME NEW k \in Keys, NEW j \in JobIds, NEW f \in Faults, FaultApply(k, j, f)
      PROVE  \E new : Accepts(new, j, "fault.apply", Owner[f], f) /\ SamePlan(st, new)
  <2>1. PICK new : Accepts(new, j, "fault.apply", Owner[f], f) /\ SameCounts(st, new)
    BY <1>4, ApplyAccepted, Zenon
  <2> QED  BY <2>1, Zenon DEF SameCounts, SamePlan
<1>5. ASSUME NEW k \in Keys, NEW j \in JobIds, NEW f \in Faults, FaultRemove(k, j, f)
      PROVE  \E new : Accepts(new, j, "fault.remove", Owner[f], f) /\ SamePlan(st, new)
  <2>1. PICK new : Accepts(new, j, "fault.remove", Owner[f], f) /\ Agree(st, new)
    BY <1>5, RemoveAccepted, Zenon
  <2> QED  BY <2>1, Zenon DEF Agree, SameCounts, SamePlan
<1>6. ASSUME NEW j \in JobIds, Cancel(j)
      PROVE  PlanFrom /\ UNCHANGED <<pc, run, ret, open, conf>> /\ SamePlan(st, st')
  <2>1. UNCHANGED <<pc, run, ret, open, conf>> /\ Agree(st, st') /\ disk' \in {st', disk}
    BY <1>6, CancelMarks, SameWorld, Zenon DEF frame
  <2> QED  BY <2>1, Zenon DEF PlanFrom, Agree, SameCounts, SamePlan
<1>7. ASSUME NEW k \in Keys, NEW x \in Keys, Retry(k, x)
      PROVE  PlanFrom /\ UNCHANGED <<pc, run, ret, open, conf>> /\ SamePlan(st, st')
  <2>1. UNCHANGED <<pc, run, ret, open, conf, st, disk>>
    BY <1>7, SameWorld, Zenon DEF Retry, frame, journal
  <2> QED  BY <2>1, Zenon DEF PlanFrom, SamePlan
<1> QED  BY <1>1, <1>2, <1>3, <1>4, <1>5, <1>6, <1>7, Zenon DEF Dispatch

LEMMA BarrierByRest ==
  ASSUME TypeInv, BarrierInv,
         Dispatch \/ Environment \/ Boot \/ Crash \/ Exit \/ Shutdown \/ UNCHANGED vars
  PROVE  BarrierInv'
<1>1. ASSUME PlanFrom, SamePlan(st, st'), UNCHANGED <<pc, run, ret, conf>>, open' \subseteq open
      PROVE  BarrierInv'
  <2>1. \A r \in Recording : Shut(r)' \/ Guarded(r)'
    BY <1>1, BarrierKept, Zenon DEF BarrierInv
  <2>2. InEpoch' /\ run' \in Recording => Guarded(run)'
    <3>1. ASSUME Guarded(run) PROVE Guarded(run)'
      BY <1>1, <3>1, GuardKept, Zenon DEF Guarded, Barrier, Planned
    <3> QED  BY <1>1, <3>1, Zenon DEF BarrierInv, InEpoch, Rechecking
  <2>3. pc' = "arm" => st'.planned[run']
    BY <1>1, Zenon DEF BarrierInv, SamePlan
  <2> QED  BY <2>1, <2>2, <2>3, Zenon DEF BarrierInv
<1>2. CASE Dispatch
  BY <1>1, <1>2, DispatchPlan, Zenon
<1>3. CASE Environment \/ Shutdown \/ UNCHANGED vars
  <2>1. UNCHANGED <<st, disk, pc, run, ret, conf>> /\ open' \subseteq open
    BY <1>3, SameWorld, Zenon DEF Environment, LeaseExpires, CaptureDies, FaultDue,
        Shutdown, vars,
       journal, frame, captures
  <2> QED  BY <1>1, <2>1, Zenon DEF PlanFrom, SamePlan
<1>4. CASE Boot \/ Crash \/ Exit
  <2>1. PlanFrom /\ pc' \in {"recover", "off"} /\ UNCHANGED <<open, conf>>
    <3>1. CASE Crash \/ Exit
      BY <3>1, SameWorld, Zenon DEF Crash, Exit, Dies, PlanFrom, SamePlan
    <3>2. CASE Boot
      <4>1. SamePlan(disk, Interrupted(disk)) /\ SamePlan(disk, disk)
        BY InterruptedClears, Zenon DEF TypeInv, TypeOK, SameCounts, SamePlan
      <4>2. st' \in {Interrupted(disk), disk} /\ disk' \in {Interrupted(disk), disk}
            /\ pc' \in {"recover", "off"} /\ UNCHANGED world
        BY <3>2, Zenon DEF Boot, Save
      <4> QED  BY <4>1, <4>2, SameWorld, Zenon DEF PlanFrom
    <3> QED  BY <1>4, <3>1, <3>2, Zenon
  <2>2. ~InEpoch' /\ pc' # "arm"
    BY <2>1, Zenon DEF InEpoch, Rechecking, M5Places
  <2> QED  BY <2>1, <2>2, BarrierKept, Zenon DEF BarrierInv
<1> QED  BY <1>2, <1>3, <1>4, Zenon

(***************************************************************************)
(* The theorems.                                                           *)
(***************************************************************************)
TrafficInv == EngineInv /\ LedgerInv /\ HoldInv /\ BarrierInv
LEMMA InitTraffic ==
  ASSUME Init
  PROVE  TrafficInv
<1>1. BarrierInv
  BY Zenon DEF Init, BarrierInv, Shut, InEpoch, Rechecking, M5Places
<1> QED  BY <1>1, InitInv, InitLedger, InitHold, Zenon DEF TrafficInv

LEMMA NextTraffic ==
  ASSUME TrafficInv, [Next]_vars
  PROVE  TrafficInv'
<1>1. EngineInv' /\ Advance /\ LedgerInv' /\ TypeInv /\ DurableInv /\ JobInv
  BY NextInv, NextLedger, Zenon DEF TrafficInv, EngineInv, LedgerInv
<1>2. HoldInv'
  BY <1>1, NextHold, Zenon DEF TrafficInv
<1>3. BarrierInv'
  BY <1>1, BarrierByWorker, BarrierByRest, Zenon DEF TrafficInv, Next
<1> QED  BY <1>1, <1>2, <1>3, Zenon DEF TrafficInv

LEMMA TrafficHeld == Spec => []TrafficInv
<1>1. Init => TrafficInv
  BY InitTraffic, Zenon
<1>2. TrafficInv /\ [Next]_vars => TrafficInv'
  BY NextTraffic, Zenon
<1> QED  BY <1>1, <1>2, PTL DEF Spec

\* A recording run lets traffic through only in an epoch whose capture workers
\* were all launched, the plan being on disk: execute() arms before it releases,
\* and opens the next epoch only with the gates held.
THEOREM TrafficIsCaptured == Spec => []CaptureBarrier
<1>1. TrafficInv => CaptureBarrier
  BY Zenon DEF TrafficInv, BarrierInv, CaptureBarrier, Shut, Guarded, Barrier
<1> QED  BY <1>1, TrafficHeld, PTL

\* A run that the disk calls stopped, with no job pending, has its gates held,
\* through every failed commit, crash and restart.
THEOREM StoppedRunsQuiet == Spec => []StoppedIsQuiet
<1>1. TrafficInv => StoppedIsQuiet
  BY Zenon DEF TrafficInv, HoldInv, StopKept, Claimed, StoppedIsQuiet, Settled, Shut
<1> QED  BY <1>1, TrafficHeld, PTL
=============================================================================
