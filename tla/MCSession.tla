------------------------------ MODULE MCSession ------------------------------
(***************************************************************************)
(* Instance of DockerSession for TLC.                                      *)
(***************************************************************************)
EXTENDS DockerSession
=============================================================================
