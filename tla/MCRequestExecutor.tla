--------------------------- MODULE MCRequestExecutor ---------------------------
(* Small instances of RequestExecutor. *)
EXTENDS RequestExecutor
==============================================================================
