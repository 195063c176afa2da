-------------------------- MODULE ConnectionStates --------------------------
(***************************************************************************)
(* The two states a login keeps (m.metaState and m.waState of              *)
(* pkg/connector/client.go) and how they are merged into the one that is   *)
(* shown.  Module MetaClient stores them; module BridgeStates follows a    *)
(* stored state up to the user.  Codes and texts are left out.             *)
(***************************************************************************)
EXTENDS Naturals, FiniteSets, FiniteSetsExt

CONSTANT Messenger    \* the login is on Messenger, so it has E2EE

ASSUME PlatformAssumption == Messenger \in BOOLEAN

VARIABLES metaState, waState \* events of the two bridge states

Unset == "unset"
(* Worst first, the order in which pickWorstCaseBridgeState tries them.    *)
Severity == <<"bad", "unknown", "transient", "connecting">>
Events == {Severity[i] : i \in 1..4} \cup {"connected", Unset}

MutFillBridgeState(s, meta, wa) ==
  LET worst == {i \in 1..4 : Severity[i] \in {s, meta}}
  IN IF worst = {} THEN s ELSE Severity[Min(worst)]

(* FillBridgeState: the worst of the state being sent and the two stored.  *)
(* (The Mut* operators are faulty variants of the definition after them,   *)
(* used only to show that the properties notice the fault.)                *)
FillBridgeState(s, meta, wa) ==
  LET worst == {i \in 1..4 : Severity[i] \in {s, meta, wa}}
  IN IF worst = {} THEN s ELSE Severity[Min(worst)]

Rank(s) == IF \E i \in 1..4 : Severity[i] = s
           THEN CHOOSE i \in 1..4 : Severity[i] = s ELSE 5
=============================================================================
