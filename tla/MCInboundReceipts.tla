--------------------------- MODULE MCInboundReceipts ---------------------------
(* Two polls of one thread, two read positions, a restart.                      *)
EXTENDS InboundReceipts
==============================================================================
