------------------------------ MODULE MCShutdown ------------------------------
(***************************************************************************)
(* A small instance of the shutdown for TLC.                               *)
(***************************************************************************)
EXTENDS Shutdown
=============================================================================
