----------------------------- MODULE MCPackets -----------------------------
(***************************************************************************)
(* An instance of PacketIndex for TLC.                                     *)
(***************************************************************************)
EXTENDS PacketIndex

\* The segments of two runs alternate.
Alternating == [s \in Segments |-> IF s % 2 = 0 THEN "even" ELSE "odd"]

\* Each segment is of a capture of its own: the first run has two.
CaptureEach == [s \in Segments |-> s]
=============================================================================
