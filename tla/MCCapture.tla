------------------------------ MODULE MCCapture ------------------------------
(* Instance of CaptureWorker for TLC. *)
EXTENDS CaptureWorker
=============================================================================
