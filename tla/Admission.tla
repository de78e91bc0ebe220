----------------------------- MODULE Admission -----------------------------
(***************************************************************************)
(* Engine::dispatch and m5_dispatch: the mutating requests.  A request is  *)
(* decided and committed under the mutex, so it is one step, whatever the  *)
(* worker is doing outside the mutex.                                      *)
(***************************************************************************)
EXTENDS Backend

\* Requests are served once the constructor is done and until a commit fails.
Serving == pc # "off" /\ ret # "boot" /\ ~stopping

Busy == \E j \in JobIds : Pending(st, j)
\* Job ids are drawn at random in the code; here they are used in order.
Fresh(j) == st.job[j].is = "absent" /\ \A i \in JobIds : i < j => st.job[i].is # "absent"

\* A key nobody has used, no pending mutation, and room in the journal for j.
Admissible(k, j) == Serving /\ st.key[k] = NoEntry /\ ~Busy /\ Fresh(j)

Reply(k, s) == [key |-> k, req |-> s.key[k].req, job |-> s.key[k].job]

\* The job and the key enter the journal in the commit that changes the run.
Enter(k, j, req, s, r, f) ==
  [s EXCEPT !.job[j] = [is |-> "queued", op |-> req.op, run |-> r, rev |-> s.rev[r],
                               flt |-> f, cancel |-> FALSE],
            !.key[k] = [req |-> req, job |-> j]]

\* save() under the mutex, then the reply; a failed commit is answered 503.
CommitAndReplyAnyway(k, new) ==
  /\ acked' = acked \cup {Reply(k, new)}
  /\ st' = new
  /\ \/ disk' = new /\ UNCHANGED <<stopping, left>>
     \/ Spend("save") /\ stopping' = TRUE /\ UNCHANGED disk
CommitAndReply(k, new) ==
  \/ /\ st' = new /\ disk' = new
     /\ acked' = acked \cup {Reply(k, new)}
     /\ UNCHANGED <<stopping, left>>
  \/ /\ Spend("save")
     /\ st' = new /\ stopping' = TRUE
     /\ UNCHANGED <<disk, acked>>

NewRun(s, r) ==
  [s EXCEPT !.state[r] = "preparing", !.rev[r] = 1, !.gen[r] = 1,
            !.cov[r] = IF r \in Recording THEN "pending" ELSE "unavailable"]

StartBeside(k, j, r) ==
  /\ Admissible(k, j)
  /\ st.state[r] = "absent"
  /\ CommitAndReply(k, Enter(k, j, StartRequest, NewRun(st, r), r, NoFault))
  /\ UNCHANGED <<pc, frame, world, due>>
Start(k, j, r) ==
  /\ Admissible(k, j)
  /\ st.state[r] = "absent"
  /\ \A o \in Runs : st.state[o] \in {"absent", "destroyed"}
  /\ CommitAndReply(k, Enter(k, j, StartRequest, NewRun(st, r), r, NoFault))
  /\ UNCHANGED <<pc, frame, world, due>>

\* expectedRevision has to be the run's revision when the request is decided.
OperateRequest(op, r, f) == [op |-> op, run |-> r, rev |-> st.rev[r], flt |-> f]

Operate(k, j, r, op) ==
  /\ Admissible(k, j)
  /\ st.state[r] # "absent"
  /\ op = "stop" => st.state[r] \in {"ready", "stopped"}
  /\ op = "resume" => st.state[r] = "stopped"
  /\ CommitAndReply(k, Enter(k, j, OperateRequest(op, r, NoFault), Bump(st, r), r, NoFault))
  /\ UNCHANGED <<pc, frame, world, due>>

LaneFreeOfActive(f) ==
  \A g \in Faults : Owner[g] = Owner[f] /\ Lane[g] = Lane[f] => st.flt[g] # "active"
LaneFree(f) ==
  \A g \in Faults : Owner[g] = Owner[f] /\ Lane[g] = Lane[f] => ~Live(st.flt[g])

FaultApply(k, j, f) ==
  /\ Admissible(k, j)
  /\ st.flt[f] = "none"
  /\ st.state[Owner[f]] \in {"ready", "stopped"}
  /\ LaneFree(f) /\ LaneClear(f)
  /\ CommitAndReply(k, Enter(k, j, OperateRequest("fault.apply", Owner[f], NoFault),
                             Bump(SetFault(st, f, "queued"), Owner[f]), Owner[f], f))
  /\ UNCHANGED <<pc, frame, world, due>>

FaultRemove(k, j, f) ==
  /\ Admissible(k, j)
  /\ st.flt[f] # "none"
  /\ CommitAndReply(k, Enter(k, j, OperateRequest("fault.remove", Owner[f], f),
                             Bump(st, Owner[f]), Owner[f], f))
  /\ UNCHANGED <<pc, frame, world, due>>

\* A request that names a key already in the journal is answered from it; the
\* payload, here that of any request x sent before, has to be the same one.
SamePayload(k, x) == st.key[k].req = st.key[x].req
Retry(k, x) ==
  /\ Serving
  /\ st.key[k] # NoEntry /\ st.key[x] # NoEntry
  /\ SamePayload(k, x)
  /\ acked' = acked \cup {[Reply(k, st) EXCEPT !.req = st.key[x].req]}
  /\ UNCHANGED <<journal, pc, frame, world, due, left>>

\* cancel: only start and fault.apply look at the flag.
Cancel(j) ==
  /\ Serving
  /\ Pending(st, j)
  /\ st.job[j].op \in {"start", "fault.apply"}
  /\ LET new == [st EXCEPT !.job[j].cancel = TRUE]
     IN Save(new, pc, pc)
  /\ UNCHANGED <<frame, world, due, acked>>

Dispatch ==
  \/ \E k \in Keys, j \in JobIds :
       \/ \E r \in Runs : Start(k, j, r)
       \/ \E r \in Runs, op \in {"stop", "resume", "destroy", "recover"} : Operate(k, j, r, op)
       \/ \E f \in Faults : FaultApply(k, j, f) \/ FaultRemove(k, j, f)
  \/ \E k \in Keys, x \in Keys : Retry(k, x)
  \/ \E j \in JobIds : Cancel(j)
=============================================================================
