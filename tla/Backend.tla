------------------------------ MODULE Backend ------------------------------
(***************************************************************************)
(* What the calls of LinuxBackend and of the capture manager do to the     *)
(* host.  Each call either does all of its work, or throws having done a   *)
(* part of it.  A call that throws spends a failure, unless the state of   *)
(* the host makes it throw every time.                                     *)
(***************************************************************************)
EXTENDS EngineState

Throws(inevitable) == \/ inevitable /\ UNCHANGED left
                      \/ Spend("fail")

\* preflight refuses a host that holds containers, networks or bridges tagged
\* as Graphlab's, whichever run they belong to.
HostFree == \A x \in ext : x[2] \in Edges

(***************************************************************************)
(* prepare(run, resource) creates a resource from nothing; remove(run,     *)
(* resource) is content with one that is not there, and takes a            *)
(* container's gate away with it.                                          *)
(***************************************************************************)
Created(r, i) == ext' = ext \cup {<<r, i>>} /\ UNCHANGED left
CreateThrows(r, i) == Spend("fail") /\ ext' \in {ext, ext \cup {<<r, i>>}}
Gone(r, i) == ext' = ext \ {<<r, i>>} /\ open' = open \ {<<r, i>>}
Removed(r, i) == Gone(r, i) /\ UNCHANGED left
RemoveThrows(r, i) == Spend("fail") /\ (Gone(r, i) \/ UNCHANGED <<ext, open>>)

(***************************************************************************)
(* gate(run, "quiesce"): each journaled container in list order.  A        *)
(* container that was intended but never created cannot be reached.        *)
(***************************************************************************)
Containers(r) == {i \in Gated : Journaled(st.res[r][i])}
Reachable(r) == \A i \in Containers(r) : <<r, i>> \in ext
Quiesced(r) ==
  /\ Reachable(r)
  /\ open' = open \ ({r} \X Gated)
  /\ UNCHANGED left
QuiesceThrows(r) ==
  /\ Throws(~Reachable(r))
  /\ \E n \in Gated : open' = open \ ({r} \X {i \in Gated : i < n})
QuiesceAttempt(r) == Quiesced(r) \/ QuiesceThrows(r)

(***************************************************************************)
(* gate(run, "release") opens the gates in list order; a node opens its    *)
(* gate before it binds its listener, so the one that fails may be open.   *)
(***************************************************************************)
Released(r) ==
  /\ Reachable(r)
  /\ open' = open \cup ({r} \X Containers(r))
  /\ UNCHANGED left
ReleaseThrows(r) ==
  /\ Throws(~Reachable(r))
  /\ \E n \in Gated \cup {0} : open' = open \cup ({r} \X {i \in Containers(r) : i <= n})

\* gate(run, "renew"): an expired lease cannot be renewed.
Renewable(r) == {r} \X Containers(r) \subseteq open

(***************************************************************************)
(* capture_control(run, operation) over the run's journaled captures.      *)
(* Arming refuses a directory that exists already.                         *)
(***************************************************************************)
Unlaunched(r) == Planned(st, r) \cap dirs = {}
ArmCapturesBare(r) ==
  /\ Unlaunched(r)
  /\ dirs' = dirs \cup Planned(st, r)
  /\ running' = running \cup Planned(st, r)
  /\ wgen' = [wgen EXCEPT ![r] = [e \in Edges |-> st.gen[r]]]
  /\ UNCHANGED <<conf, sealed, left>>
ArmCaptures(r) ==
  /\ Unlaunched(r)
  /\ dirs' = dirs \cup Planned(st, r)
  /\ conf' = conf \cup Planned(st, r)
  /\ running' = running \cup Planned(st, r)
  /\ wgen' = [wgen EXCEPT ![r] = [e \in Edges |-> st.gen[r]]]
  /\ UNCHANGED <<sealed, left>>

\* The arming of edge e throws: before its directory, before its config.json,
\* before its unit, or when the unit does not become active in time.
ArmThrows(r) ==
  /\ Throws(~Unlaunched(r))
  /\ \E e \in Edges, stage \in 0..3 :
       LET before == {w \in Planned(st, r) : w[2] < e}
           upto(n) == before \cup {w \in Planned(st, r) : w[2] = e /\ stage >= n}
       IN /\ dirs' = dirs \cup upto(1)
          /\ conf' = conf \cup upto(2)
          /\ running' = running \cup upto(3)
          /\ wgen' = [wgen EXCEPT ![r] = [x \in Edges |-> IF x <= e THEN st.gen[r] ELSE @[x]]]
  /\ UNCHANGED sealed

\* A worker that is told of a newer controller generation obeys it.
Adopted(r, E) ==
  wgen' = [wgen EXCEPT ![r] = [e \in Edges |-> IF e \in E /\ st.gen[r] > @[e]
                                               THEN st.gen[r] ELSE @[e]]]

\* stop skips a capture that has no directory, and reads the config.json of
\* every other; it adopts a worker of an older generation, and cannot stop one
\* of a newer.
Launched(r) == Planned(st, r) \cap dirs
Stoppable(r) ==
  /\ Launched(r) \subseteq conf
  /\ \A w \in Launched(r) \cap running : wgen[r][w[2]] <= st.gen[r]
StopCaptures(r) ==
  /\ Stoppable(r)
  /\ running' = running \ Launched(r)
  /\ sealed' = sealed \cup (Launched(r) \cap running)
  /\ UNCHANGED <<dirs, conf, wgen, left>>
StopThrows(r) ==
  /\ Launched(r) # {}
  /\ Throws(~Stoppable(r))
  /\ \E D \in SUBSET (Launched(r) \cap running) : \E S \in SUBSET D :
       running' = running \ D /\ sealed' = sealed \cup S
  /\ \E A \in SUBSET (Launched(r) \cap running) : Adopted(r, {w[2] : w \in A})
  /\ UNCHANGED <<dirs, conf>>

\* status answers only the current generation, adopt only a newer one.
CapturesActive(r) ==
  /\ Planned(st, r) \subseteq running
  /\ \A w \in Planned(st, r) : wgen[r][w[2]] = st.gen[r]
Adoptable(r) ==
  /\ Planned(st, r) \subseteq running
  /\ \A w \in Planned(st, r) : wgen[r][w[2]] < st.gen[r]

\* What close_captures learns from the manifests it collects.
GapInAll(r) == Launched(r) # {} /\ \A w \in Launched(r) : w \notin sealed
Gap(r) == \E w \in Launched(r) : w \notin sealed

(***************************************************************************)
(* fault(run, fault, action), read back after the tc command.  Plan, apply *)
(* and remove all refuse to touch a lane that holds another discipline.    *)
(***************************************************************************)
LaneClear(f) == \A g \in qdisc : Owner[g] = Owner[f] /\ Lane[g] = Lane[f] => g = f
PutQdisc(f) == LaneClear(f) /\ qdisc' = qdisc \cup {f} /\ UNCHANGED left
DropQdisc(f) == LaneClear(f) /\ qdisc' = qdisc \ {f} /\ UNCHANGED left
PutThrows(f) ==
  /\ Throws(~LaneClear(f))
  /\ \/ UNCHANGED qdisc
     \/ LaneClear(f) /\ qdisc' = qdisc \cup {f}
DropThrows(f) ==
  /\ Throws(~LaneClear(f))
  /\ \/ UNCHANGED qdisc
     \/ LaneClear(f) /\ qdisc' = qdisc \ {f}
=============================================================================
