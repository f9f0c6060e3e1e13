--------------------------- MODULE MCEventStream ---------------------------
(* EventStream for TLC: every bound is a small number given in the cfg. *)
EXTENDS EventStream
=============================================================================
