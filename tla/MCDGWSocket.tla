---------------------------- MODULE MCDGWSocket -----------------------------
(* DGWSocket for TLC.                                                      *)
EXTENDS DGWSocket
=============================================================================
