------------------------- MODULE MCResponseHandler -------------------------
(* ResponseHandler for TLC: calls are interchangeable.                     *)
EXTENDS ResponseHandler, TLC

Symmetry == Permutations(Calls)
=============================================================================
