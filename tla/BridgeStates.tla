---------------------------- MODULE BridgeStates ----------------------------
(***************************************************************************)
(* How the state of a login reaches the user.  The connection loop of the  *)
(* messagix client, the WhatsApp client's event handler, tryConnectE2EE,   *)
(* Connect and Disconnect run on goroutines of their own and share         *)
(* m.metaState and m.waState without a lock.  A handler stores its state   *)
(* and then calls BridgeState.Send, which has FillBridgeState merge it     *)
(* with the two stored states and then queues the result.  Storing,        *)
(* merging and queueing are steps of their own.  (Which states are stored  *)
(* when is the subject of module MetaClient; here a handler may store any  *)
(* of its states at any time.)                                             *)
(***************************************************************************)
EXTENDS ConnectionStates

CONSTANTS MetaLoops,  \* goroutines in handleMetaEvent
          WALoops,    \* goroutines in e2eeEventHandler or tryConnectE2EE
          Callers     \* goroutines in Connect, Disconnect, LogoutRemote or
                      \* HandleMatrixMessage

ASSUME SendersAssumption ==
  /\ MetaLoops \cap WALoops = {}
  /\ (MetaLoops \cup WALoops) \cap Callers = {}

Senders == MetaLoops \cup WALoops \cup Callers

VARIABLES
  at,      \* step of each goroutine
  arg,     \* what it is sending
  shown,   \* the state last queued for the user
  owes,    \* history: the states it stored and has not sent yet
  raced,   \* history: those whose merged state others have stored past
  stale    \* history: the state last queued was such a one

sendVars == <<metaState, waState, at, arg, shown, owes, raced, stale>>

SendSteps == {"idle", "check", "first", "second", "reset", "merge", "push"}

SendTypeOK ==
  /\ metaState \in Events /\ waState \in Events
  /\ at \in [Senders -> SendSteps]
  /\ arg \in [Senders -> Events]
  /\ shown \in Events
  /\ owes \in [Senders -> SUBSET {"meta", "wa"}]
  /\ raced \in SUBSET Senders
  /\ stale \in BOOLEAN

SendInit ==
  /\ metaState = Unset /\ waState = Unset
  /\ at = [g \in Senders |-> "idle"]
  /\ arg = [g \in Senders |-> Unset]
  /\ shown = Unset
  /\ owes = [g \in Senders |-> {}]
  /\ raced = {}
  /\ stale = FALSE

-----------------------------------------------------------------------------
GoTo(g, from, to) == at[g] = from /\ at' = [at EXCEPT ![g] = to]

(* A store: whoever has merged and not queued yet holds an old result.     *)
Stores(g, x) ==
  /\ owes' = [owes EXCEPT ![g] = @ \cup {x}]
  /\ raced' = raced \cup {h \in Senders : at[h] = "push"}
  /\ UNCHANGED <<shown, stale>>

StoreMeta(g, s) == metaState' = s /\ UNCHANGED waState /\ Stores(g, "meta")
StoreWA(g, s) == waState' = s /\ UNCHANGED metaState /\ Stores(g, "wa")

Keep == UNCHANGED <<metaState, waState, shown, owes, raced, stale>>

(* handleMetaEvent: ready and reconnected, socket error, permanent error.  *)
HandleMetaEvent(g, s) ==
  /\ s \in {"connected", "transient", "unknown", "bad"}
  /\ GoTo(g, "idle", "merge")
  /\ StoreMeta(g, s)
  /\ arg' = [arg EXCEPT ![g] = s]

(* An unavailable server that may not be retried yet is taken for bad      *)
(* credentials, after the first state was stored.                          *)
HandleUnavailable(g) ==
  /\ arg[g] = "unknown"
  /\ GoTo(g, "merge", "merge")
  /\ StoreMeta(g, "bad")
  /\ arg' = [arg EXCEPT ![g] = "bad"]

(* e2eeEventHandler: connected, disconnected, the permanent errors.        *)
HandleWAEvent(g, s) ==
  /\ s \in {"connected", "transient", "unknown"}
  /\ GoTo(g, "idle", "merge")
  /\ StoreWA(g, s)
  /\ arg' = [arg EXCEPT ![g] = s]

(* tryConnectE2EE failed: the state is looked at, and then overwritten.    *)
E2EEChecks(g) ==
  /\ waState \notin {"bad", "unknown"}
  /\ GoTo(g, "idle", "check")
  /\ Keep /\ UNCHANGED arg

E2EEStores(g) ==
  /\ GoTo(g, "check", "merge")
  /\ StoreWA(g, "unknown")
  /\ arg' = [arg EXCEPT ![g] = "unknown"]

(* Connect of a login that has no state yet stores "connecting" for both   *)
(* connections and sends it.                                               *)
ConnectChecks(g) ==
  /\ metaState = Unset /\ waState = Unset
  /\ GoTo(g, "idle", "first")
  /\ Keep /\ UNCHANGED arg

ConnectStores(g) ==
  /\ GoTo(g, "first", IF Messenger THEN "second" ELSE "merge")
  /\ StoreMeta(g, "connecting")
  /\ arg' = [arg EXCEPT ![g] = "connecting"]

ConnectStoresWA(g) ==
  /\ GoTo(g, "second", "merge")
  /\ StoreWA(g, "connecting")
  /\ UNCHANGED arg

(* Connect and its retries, the login process and HandleMatrixMessage send *)
(* states they do not store.                                               *)
SendOnly(g, s) ==
  /\ s \in {"bad", "unknown", "transient", "connecting"}
  /\ GoTo(g, "idle", "merge")
  /\ arg' = [arg EXCEPT ![g] = s]
  /\ Keep

(* The end of Disconnect and of LogoutRemote: nothing is sent.             *)
ResetMeta(g) ==
  /\ GoTo(g, "idle", "reset")
  /\ metaState' = Unset
  /\ UNCHANGED <<waState, arg, shown, owes, raced, stale>>

ResetWA(g) ==
  /\ GoTo(g, "reset", "idle")
  /\ waState' = Unset
  /\ UNCHANGED <<metaState, arg, shown, owes, raced, stale>>

(* BridgeState.Send: the handlers pass what m.metaState or m.waState holds *)
(* by then; FillBridgeState merges it.                                     *)
Passed(g) == IF g \in MetaLoops THEN metaState
             ELSE IF g \in WALoops THEN waState ELSE arg[g]

Merge(g) ==
  /\ GoTo(g, "merge", "push")
  /\ arg' = [arg EXCEPT ![g] =
               FillBridgeState(Passed(g), metaState, waState)]
  /\ Keep

(* External: the queue takes it and shows the states in this order.        *)
Push(g) ==
  /\ GoTo(g, "push", "idle")
  /\ shown' = arg[g]
  /\ stale' = (g \in raced)
  /\ raced' = raced \ {g}
  /\ owes' = [owes EXCEPT ![g] = {}]
  /\ arg' = [arg EXCEPT ![g] = Unset]
  /\ UNCHANGED <<metaState, waState>>

-----------------------------------------------------------------------------
MetaSends(g) ==
  \/ \E s \in Events : HandleMetaEvent(g, s)
  \/ HandleUnavailable(g)

WASends(g) ==
  \/ \E s \in Events : HandleWAEvent(g, s)
  \/ E2EEChecks(g) \/ E2EEStores(g)

CallerSends(g) ==
  \/ ConnectChecks(g) \/ ConnectStores(g) \/ ConnectStoresWA(g)
  \/ \E s \in Events : SendOnly(g, s)
  \/ ResetMeta(g) \/ ResetWA(g)

SendNext ==
  \/ \E g \in MetaLoops : MetaSends(g)
  \/ \E g \in WALoops : WASends(g)
  \/ \E g \in Callers : CallerSends(g)
  \/ \E g \in Senders : Merge(g) \/ Push(g)

SendSpec == SendInit /\ [][SendNext]_sendVars

-----------------------------------------------------------------------------
(* Properties.                                                             *)

Stored(x) == IF x = "meta" THEN metaState ELSE waState

(* The user is shown nothing better than either stored state, except as    *)
(* long as a goroutine that stored that very state has not got its Send    *)
(* through, or after two Sends crossed: one merged, others stored on, and  *)
(* it was queued after them.  (handlemeta.go:91, 106, 118 and              *)
(* handlewhatsapp.go:81, 86, 134 against client.go:640.)                   *)
NotBetterThanWorst ==
  \A x \in {"meta", "wa"} :
    Rank(shown) > Rank(Stored(x)) => stale \/ \E g \in Senders : x \in owes[g]
=============================================================================
