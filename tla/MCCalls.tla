------------------------------ MODULE MCCalls -------------------------------
(***************************************************************************)
(* Pure functions of the bridge, each applied once to every input of a     *)
(* small set: a behaviour is the choice of a function and of an input, and *)
(* the call.                                                               *)
(***************************************************************************)
EXTENDS Integers, Sequences, FiniteSets

VARIABLES fn,       \* the function
          in,       \* what it is given
          done,     \* whether it was called
          out       \* what it returned
vars == <<fn, in, done, out>>

Call(f) == fn = f /\ ~done /\ done' = TRUE /\ UNCHANGED <<fn, in>>
After(f) == done /\ fn = f

Upto(S, n) == UNION {[1..k -> S] : k \in 0..n}
=============================================================================
