--------------------------- MODULE MCAttachmentSend ---------------------------
(* Four files: an empty one, a small one, one of two chunks, or of three when *)
(* the service keeps half of one, and one too large; a clock that may stand   *)
(* still or run backwards.                                                    *)
EXTENDS AttachmentSend
MCSizes == {0, 1, 4, 5}
MCClockValues == 1..2
==============================================================================
