---------------------------- MODULE MCThreadIngest ----------------------------
(* Small instances of ThreadIngest: the cfgs differ in which faults they let *)
(* happen.  Pollers and client ids are interchangeable.                      *)
EXTENDS ThreadIngest, TLC
Interchangeable == Permutations(Pollers) \cup Permutations(ClientIDs)
==============================================================================
