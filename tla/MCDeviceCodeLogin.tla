-------------------------- MODULE MCDeviceCodeLogin --------------------------
(* One login, then two callers; three refresh tokens, enough for a rotation  *)
(* in the login to be followed by another in use, or by one in a race.       *)
EXTENDS DeviceCodeLogin
==============================================================================
