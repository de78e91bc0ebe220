------------------------------ MODULE MCEngine ------------------------------
(* Instances of Engine for TLC. *)
EXTENDS EngineClaims, TLC

CONSTANT r1
KeySymmetry == Permutations(Keys)
\* Every fault of an instance is on the same edge direction of run r1.
SameOwner == [f \in Faults |-> r1]
SameLane == [f \in Faults |-> 1]
=============================================================================
