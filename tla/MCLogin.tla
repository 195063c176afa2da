------------------------------- MODULE MCLogin -------------------------------
(* Login for TLC.                                                          *)
EXTENDS Login

MCMethods == {"Email", "Text message", "Verify with Google"}
=============================================================================
