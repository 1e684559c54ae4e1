---------------------------- MODULE MCReadReceipts ----------------------------
(* Small instances of ReadReceipts. *)
EXTENDS ReadReceipts, TLC

Symmetry == Permutations(Handlers) \cup Permutations(ClientIDs)
==============================================================================
