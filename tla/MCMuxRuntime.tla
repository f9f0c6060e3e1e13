---------------------------- MODULE MCMuxRuntime ----------------------------
(* MuxRuntime for TLC. *)
EXTENDS MuxRuntime
=============================================================================
