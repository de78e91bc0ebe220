------------------------------- MODULE MCGate -------------------------------
(* Instances of NodeGate for TLC. *)
EXTENDS NodeGate
=============================================================================
