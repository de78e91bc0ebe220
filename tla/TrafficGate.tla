----------------------------- MODULE TrafficGate -----------------------------
(***************************************************************************)
(* What the agent relies on when it releases a node: experiment traffic    *)
(* leaves the node only under a permit, a permit is granted by a release,  *)
(* extended only while it lasts, and may be withdrawn at any time.  This   *)
(* is the specification that NodeGate implements.                          *)
(***************************************************************************)
EXTENDS Naturals

CONSTANTS Lease, Forever  \* length of a lease; end of a permit without lease

VARIABLES
  op,      \* the control command in hand
  now,     \* the node's monotonic clock
  permit,  \* traffic may be sent before this time
  tx       \* the last transmission: its time, and a bit that each one flips

\* Types of all variables.
TypeOK ==
  /\ now \in Nat /\ permit \in Nat
  /\ tx \in [at : Nat, odd : BOOLEAN]

Init == op = "none" /\ now = 0 /\ permit = 0 /\ tx = [at |-> 0, odd |-> FALSE]

Grant ==
  /\ op \in {"release", "release-lease"}
  /\ permit' \in {now' + Lease, Forever} /\ tx' = tx
Extend ==
  /\ op = "renew-lease" /\ now' < permit
  /\ permit' = now' + Lease /\ tx' = tx
Withdraw == permit' = 0 /\ tx' = tx
Send ==
  /\ now' < permit /\ permit' = permit
  /\ tx' = [at |-> now', odd |-> ~tx.odd]
Other == permit' = permit /\ tx' = tx

Next == now' >= now /\ (Grant \/ Extend \/ Withdraw \/ Send \/ Other)

Spec == Init /\ [][Next]_<<op, now, permit, tx>>
=============================================================================
