------------------------------ MODULE MCShutdown ------------------------------
(* Shutdown as it is; the .cfg files choose the options. *)
EXTENDS Shutdown

CONSTANT h1
=============================================================================
