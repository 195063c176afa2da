---------------------------- MODULE MCMetaClient ----------------------------
(* Two goroutines that call the client's methods, one that connects the    *)
(* encrypted side, and two clients and refresh loops for them to create.   *)
EXTENDS MetaClient, TLC

Symmetry == Permutations(Procs) \cup Permutations(EProcs)
=============================================================================
