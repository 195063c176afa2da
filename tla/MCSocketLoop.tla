---------------------------- MODULE MCSocketLoop ----------------------------
(* SocketLoop for TLC: one code of every class Client.Connect tells apart. *)
EXTENDS SocketLoop

OneCodePerClass == {"unauthorized", "badPassword", "other"}
=============================================================================
