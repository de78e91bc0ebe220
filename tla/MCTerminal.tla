------------------------------ MODULE MCTerminal ------------------------------
(***************************************************************************)
(* Instances of TerminalWorker for TLC: the serial console of a machine,   *)
(* and shells with two browsers.                                           *)
(***************************************************************************)
EXTENDS TerminalWorker, TLC

BrowserSymmetry == Permutations(Owners)
=============================================================================
