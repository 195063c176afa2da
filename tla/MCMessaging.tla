----------------------------- MODULE MCMessaging -----------------------------
(* Messaging for TLC: handler invocations are interchangeable.             *)
EXTENDS Messaging
=============================================================================
