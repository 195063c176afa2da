--------------------------- MODULE MCBridgeStates ---------------------------
(* One goroutine of each client, tryConnectE2EE, and one that connects or  *)
(* disconnects, over and over again.                                       *)
EXTENDS BridgeStates, TLC

Symmetry == Permutations(WALoops)
=============================================================================
