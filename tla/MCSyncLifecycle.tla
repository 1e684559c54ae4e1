---------------------------- MODULE MCSyncLifecycle ----------------------------
(* Two controllers and three loops: a stop, a start and a late goroutine.     *)
EXTENDS SyncLifecycle
==============================================================================
