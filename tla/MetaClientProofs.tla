-------------------------- MODULE MetaClientProofs --------------------------
(***************************************************************************)
(* Proofs about MetaClient and BridgeStates, for any number of goroutines, *)
(* clients, refresh loops, calls and retries, on either platform.          *)
(***************************************************************************)
EXTENDS MetaClient, BridgeStates, TLAPS

LoopStates == {"off", "starting", "wait", "firing", "firingStopped", "spent"}
ConnStates == Running \cup {"off", "dead"}

(* The parts of TypeOK: the calls, the clients, the refresh loops, the     *)
(* E2EE goroutines, the bridge states, and the flags.                      *)
CallsTyped ==
  /\ pc \in [Procs -> Steps] /\ via \in [Procs -> Jobs]
  /\ held \in [Procs -> Clients \cup {0}]
  /\ tries \in [Procs -> 0..MaxRetries]
  /\ lock \in Procs \cup {None} /\ attempt \in Procs \cup {None}
  /\ loopOf \in [Procs -> Loops \cup {0}]
  /\ calls \in 0..MaxCalls
ClientTyped ==
  /\ client \in Clients \cup {0}
  /\ conn \in [Clients -> ConnStates]
LoopsTyped ==
  /\ refresh \in [Loops -> LoopStates]
  /\ refreshPtr \in Loops \cup {0}
E2EETyped ==
  /\ epc \in [EProcs -> ESteps] /\ elock \in EProcs \cup {None}
  /\ eheld \in [EProcs -> Clients \cup {0}]
  /\ edev \in [EProcs -> {"nil", "new", "registered"}]
  /\ device \in {"nil", "new", "registered"}
  /\ e2ee \in {"nil", "new", "up", "down", "dead"}
StatesTyped == metaState \in Events /\ waState \in Events
FlagsTyped ==
  /\ cancelled \in [Procs -> BOOLEAN] /\ warm \in [Clients -> BOOLEAN]
  /\ cookies \in BOOLEAN /\ saved \in BOOLEAN /\ recent \in BOOLEAN
  /\ deviceID \in BOOLEAN /\ firstDone \in BOOLEAN
EndTyped ==
  /\ panic \in Panics
  /\ overlap \in BOOLEAN /\ regFailed \in BOOLEAN /\ dropped \in BOOLEAN

Typed ==
  /\ CallsTyped /\ ClientTyped /\ LoopsTyped /\ E2EETyped /\ StatesTyped
  /\ FlagsTyped /\ EndTyped

(* The parts make up TypeOK.                                               *)
LEMMA TypeParts == TypeOK <=> Typed
  BY DEF TypeOK, Typed, CallsTyped, ClientTyped, LoopsTyped, E2EETyped,
         StatesTyped, FlagsTyped, EndTyped, LoopStates, ConnStates

(* Next without its guard and the history variables.                       *)
Act ==
  \/ CallConnect \/ CallStop("disconnect") \/ CallStop("logout")
  \/ \E p \in Procs : ProcStep(p)
  \/ \E e \in EProcs : E2EEStep(e)
  \/ \E c \in Clients : MetaEvent(c)
  \/ \E l \in Loops : RefreshBegins(l) \/ RefreshFires(l)
  \/ WAEvent
  \/ TimePasses

(* A step is one of Act, taken before any panic.                           *)
LEMMA NextParts == Next => panic = "none" /\ Act /\ History
  BY DEF Next, Act

-----------------------------------------------------------------------------
(* The bridge state.                                                       *)

(* The smallest of a few ranks.                                            *)
LEMMA MinOfSome ==
  ASSUME NEW S \in SUBSET (1..4), S # {}
  PROVE  Min(S) \in S /\ \A y \in S : Min(S) <= y
<1>1. \E x \in S : \A y \in S : x <= y
  <2>1. CASE 1 \in S
    BY <2>1
  <2>2. CASE 1 \notin S /\ 2 \in S
    BY <2>2
  <2>3. CASE 1 \notin S /\ 2 \notin S /\ 3 \in S
    BY <2>3
  <2>4. CASE 1 \notin S /\ 2 \notin S /\ 3 \notin S
    <3>1. \A y \in S : y = 4
      BY <2>4
    <3>2. PICK x \in S : TRUE
      OBVIOUS
    <3>3. \A y \in S : x <= y
      BY <3>1, <3>2
    <3> QED
      BY <3>2, <3>3
  <2> QED
    BY <2>1, <2>2, <2>3, <2>4
<1> QED
  BY <1>1 DEF Min

(* The ranks of the states.                                                *)
LEMMA Ranks ==
  /\ Rank("bad") = 1 /\ Rank("unknown") = 2 /\ Rank("transient") = 3
  /\ Rank("connecting") = 4 /\ Rank("connected") = 5 /\ Rank(Unset) = 5
<1>0. /\ Severity[1] = "bad" /\ Severity[2] = "unknown"
      /\ Severity[3] = "transient" /\ Severity[4] = "connecting"
      /\ 1..4 = {1, 2, 3, 4}
  BY DEF Severity
<1>1. Rank("bad") = 1
  BY <1>0 DEF Rank
<1>2. Rank("unknown") = 2
  BY <1>0 DEF Rank
<1>3. Rank("transient") = 3
  BY <1>0 DEF Rank
<1>4. Rank("connecting") = 4
  BY <1>0 DEF Rank
<1>5. Rank("connected") = 5
  BY <1>0 DEF Rank
<1>6. Rank(Unset) = 5
  BY <1>0 DEF Rank, Unset
<1> QED
  BY <1>1, <1>2, <1>3, <1>4, <1>5, <1>6

(* FillBridgeState returns nothing better than the stored states.          *)
LEMMA FillWorst ==
  ASSUME NEW s \in Events, NEW meta \in Events, NEW wa \in Events
  PROVE  LET f == FillBridgeState(s, meta, wa)
         IN f \in Events /\ Rank(f) <= Rank(meta) /\ Rank(f) <= Rank(wa)
<1> DEFINE W == {i \in 1..4 : Severity[i] \in {s, meta, wa}}
           f == FillBridgeState(s, meta, wa)
<1>0. /\ Severity[1] = "bad" /\ Severity[2] = "unknown"
      /\ Severity[3] = "transient" /\ Severity[4] = "connecting"
      /\ 1..4 = {1, 2, 3, 4}
  BY DEF Severity
<1>1. \A i \in 1..4 : Rank(Severity[i]) = i /\ Severity[i] \in Events
  BY <1>0, Ranks DEF Events
<1>2. \A x \in Events : Rank(x) \in 1..5 /\ (Rank(x) # 5 =>
                            Severity[Rank(x)] = x /\ Rank(x) \in 1..4)
  BY <1>0, Ranks DEF Events
<1>3. CASE W = {}
  <2>1. f = s
    BY <1>3 DEF FillBridgeState
  <2>2. Rank(meta) = 5 /\ Rank(wa) = 5
    BY <1>2, <1>3
  <2> QED
    BY <2>1, <2>2, <1>2
<1>4. CASE W # {}
  <2>1. f = Severity[Min(W)]
    BY <1>4 DEF FillBridgeState
  <2>2. Min(W) \in W /\ \A y \in W : Min(W) <= y
    BY <1>4, MinOfSome
  <2>3. f \in Events /\ Rank(f) = Min(W) /\ Min(W) \in 1..4
    BY <2>1, <2>2, <1>1
  <2>4. \A x \in {meta, wa} : Rank(x) # 5 => Rank(x) \in W
    BY <1>2
  <2> QED
    BY <2>2, <2>3, <2>4, <1>2
<1> QED
  BY <1>3, <1>4

(* What a goroutine has merged and nobody stored past is not better than   *)
(* the two states; what is shown is not either, up to the two excuses.     *)
Excused(x) == stale = TRUE \/ \E g \in Senders : x \in owes[g]
ShownInv ==
  /\ metaState \in Events /\ waState \in Events /\ shown \in Events
  /\ at \in [Senders -> SendSteps] /\ arg \in [Senders -> Events]
  /\ owes \in [Senders -> SUBSET {"meta", "wa"}]
  /\ \A g \in Senders : at[g] = "push" /\ g \notin raced =>
       Rank(arg[g]) <= Rank(metaState) /\ Rank(arg[g]) <= Rank(waState)
  /\ Rank(shown) <= Rank(metaState) \/ Excused("meta")
  /\ Rank(shown) <= Rank(waState) \/ Excused("wa")

(* The ranks of events are numbers, 5 the best.                            *)
LEMMA RankRange ==
  /\ \A x \in Events : Rank(x) \in 1..5
  /\ Unset \in Events /\ Rank(Unset) = 5
BY Ranks DEF Events, Severity

(* A store is excused by what it owes and overtakes whoever has merged.    *)
LEMMA StoreKeepsShown ==
  ASSUME ShownInv, NEW g \in Senders, NEW s \in Events, NEW t \in SendSteps,
         at[g] # "push", t # "push", at' = [at EXCEPT ![g] = t],
         arg' \in [Senders -> Events],
         StoreMeta(g, s) \/ StoreWA(g, s)
  PROVE  ShownInv'
<1>1. \A h \in Senders : at'[h] = "push" => at[h] = "push" /\ h \in raced'
  BY DEF ShownInv, StoreMeta, StoreWA, Stores
<1>2. at' \in [Senders -> SendSteps] /\ UNCHANGED <<shown, stale>>
  BY DEF ShownInv, StoreMeta, StoreWA, Stores
<1>3. /\ owes' \in [Senders -> SUBSET {"meta", "wa"}]
      /\ \A h \in Senders : owes[h] \subseteq owes'[h]
      /\ StoreMeta(g, s) => "meta" \in owes'[g]
      /\ StoreWA(g, s) => "wa" \in owes'[g]
  BY DEF ShownInv, StoreMeta, StoreWA, Stores
<1>4. /\ Excused("meta") => Excused("meta")'
      /\ Excused("wa") => Excused("wa")'
  BY <1>2, <1>3 DEF Excused
<1>5. CASE StoreMeta(g, s)
  <2>1. metaState' = s /\ waState' = waState /\ Excused("meta")'
    BY <1>3, <1>5 DEF StoreMeta, Excused
  <2> QED
    BY <1>1, <1>2, <1>3, <1>4, <2>1 DEF ShownInv
<1>6. CASE StoreWA(g, s)
  <2>1. waState' = s /\ metaState' = metaState /\ Excused("wa")'
    BY <1>3, <1>6 DEF StoreWA, Excused
  <2> QED
    BY <1>1, <1>2, <1>3, <1>4, <2>1 DEF ShownInv
<1> QED
  BY <1>5, <1>6

(* Nothing happens by a step that stores and sends nothing, or resets.     *)
LEMMA OtherKeepsShown ==
  ASSUME ShownInv, NEW g \in Senders, NEW t \in SendSteps,
         at[g] # "push", t # "push", at' = [at EXCEPT ![g] = t],
         arg' \in [Senders -> Events],
         \A h \in Senders \ {g} : arg'[h] = arg[h],
         metaState' \in {metaState, Unset}, waState' \in {waState, Unset},
         UNCHANGED <<shown, owes, raced, stale>>
  PROVE  ShownInv'
<1>1. \A h \in Senders : at'[h] = "push" =>
        h # g /\ at[h] = "push" /\ arg'[h] = arg[h]
  BY DEF ShownInv
<1>2. at' \in [Senders -> SendSteps]
  BY DEF ShownInv
<1>3. /\ metaState' \in Events /\ waState' \in Events
      /\ Rank(metaState) <= Rank(metaState')
      /\ Rank(waState) <= Rank(waState')
  BY RankRange DEF ShownInv
<1>4. \A x \in Events : Rank(x) \in 1..5
  BY RankRange
<1>5. /\ Excused("meta") => Excused("meta")'
      /\ Excused("wa") => Excused("wa")'
  BY DEF Excused
<1>6. \A h \in Senders : at'[h] = "push" /\ h \notin raced' =>
        Rank(arg'[h]) <= Rank(metaState') /\ Rank(arg'[h]) <= Rank(waState')
  BY <1>1, <1>3, <1>4 DEF ShownInv
<1>7. /\ Rank(shown') <= Rank(metaState') \/ Excused("meta")'
      /\ Rank(shown') <= Rank(waState') \/ Excused("wa")'
  BY <1>3, <1>4, <1>5 DEF ShownInv
<1> QED
  BY <1>2, <1>3, <1>6, <1>7 DEF ShownInv

(* The three steps of a Send.                                              *)
LEMMA SendKeepsShown ==
  ASSUME ShownInv, NEW g \in Senders, Merge(g) \/ Push(g)
  PROVE  ShownInv'
<1>1. CASE Merge(g)
  <2> DEFINE f == FillBridgeState(Passed(g), metaState, waState)
  <2>1. Passed(g) \in Events
    BY DEF Passed, ShownInv
  <2>2. f \in Events /\ Rank(f) <= Rank(metaState) /\ Rank(f) <= Rank(waState)
    BY <2>1, FillWorst DEF ShownInv
  <2> HIDE DEF f
  <2>3. /\ at' = [at EXCEPT ![g] = "push"] /\ arg' = [arg EXCEPT ![g] = f]
        /\ UNCHANGED <<metaState, waState, shown, owes, raced, stale>>
    BY <1>1 DEF Merge, GoTo, Keep, f
  <2>4. /\ at' \in [Senders -> SendSteps] /\ arg' \in [Senders -> Events]
        /\ arg'[g] = f
        /\ \A h \in Senders \ {g} : at'[h] = at[h] /\ arg'[h] = arg[h]
    BY <2>2, <2>3 DEF ShownInv, SendSteps
  <2>5. /\ Excused("meta")' = Excused("meta")
        /\ Excused("wa")' = Excused("wa")
    BY <2>3 DEF Excused
  <2> QED
    BY <2>2, <2>3, <2>4, <2>5 DEF ShownInv
<1>2. CASE Push(g)
  <2>1. /\ at[g] = "push" /\ at' = [at EXCEPT ![g] = "idle"]
        /\ shown' = arg[g] /\ stale' = (g \in raced)
        /\ raced' = raced \ {g} /\ owes' = [owes EXCEPT ![g] = {}]
        /\ arg' = [arg EXCEPT ![g] = Unset]
        /\ UNCHANGED <<metaState, waState>>
    BY <1>2 DEF Push, GoTo
  <2>2. /\ at' \in [Senders -> SendSteps] /\ arg' \in [Senders -> Events]
        /\ owes' \in [Senders -> SUBSET {"meta", "wa"}] /\ shown' \in Events
        /\ \A h \in Senders \ {g} : at'[h] = at[h] /\ arg'[h] = arg[h]
        /\ at'[g] # "push"
    BY <2>1, RankRange DEF ShownInv, SendSteps
  <2>3. CASE g \in raced
    <3>1. Excused("meta")' /\ Excused("wa")'
      BY <2>1, <2>3 DEF Excused
    <3> QED
      BY <2>1, <2>2, <3>1 DEF ShownInv
  <2>4. CASE g \notin raced
    <3>1. Rank(shown') <= Rank(metaState') /\ Rank(shown') <= Rank(waState')
      BY <2>1, <2>4 DEF ShownInv
    <3> QED
      BY <2>1, <2>2, <3>1 DEF ShownInv
  <2> QED
    BY <2>3, <2>4
<1> QED
  BY <1>1, <1>2

(* Every step of the goroutines is one of those.                           *)
LEMMA NextShown == ShownInv /\ [SendNext]_sendVars => ShownInv'
<1> SUFFICES ASSUME ShownInv, [SendNext]_sendVars PROVE ShownInv'
  OBVIOUS
<1>0. /\ {"bad", "unknown", "transient", "connecting", "connected"} \subseteq
           Events
      /\ {"idle", "check", "first", "second", "reset", "merge", "push"}
           \subseteq SendSteps
      /\ MetaLoops \cup WALoops \cup Callers = Senders
      /\ arg \in [Senders -> Events]
  BY DEF Events, Severity, SendSteps, Senders, ShownInv
<1>1. ASSUME NEW g \in MetaLoops, MetaSends(g) PROVE ShownInv'
  <2>1. PICK s \in Events : /\ StoreMeta(g, s)
                            /\ at[g] # "push"
                            /\ at' = [at EXCEPT ![g] = "merge"]
                            /\ arg' = [arg EXCEPT ![g] = s]
    BY <1>0, <1>1 DEF MetaSends, HandleMetaEvent, HandleUnavailable, GoTo
  <2>2. arg' \in [Senders -> Events] /\ "merge" \in SendSteps /\ g \in Senders
    BY <1>0, <2>1
  <2> QED
    BY <2>1, <2>2, StoreKeepsShown
<1>2. ASSUME NEW g \in WALoops, WASends(g) PROVE ShownInv'
  <2>0. g \in Senders /\ "merge" \in SendSteps /\ "check" \in SendSteps
    BY <1>0
  <2>1. CASE E2EEChecks(g)
    <3>1. /\ at[g] # "push" /\ at' = [at EXCEPT ![g] = "check"]
          /\ arg' = arg
          /\ UNCHANGED <<metaState, waState, shown, owes, raced, stale>>
      BY <2>1 DEF E2EEChecks, GoTo, Keep
    <3> QED
      BY <1>0, <2>0, <3>1, OtherKeepsShown
  <2>2. CASE ~E2EEChecks(g)
    <3>1. PICK s \in Events : /\ StoreWA(g, s)
                              /\ at[g] # "push"
                              /\ at' = [at EXCEPT ![g] = "merge"]
                              /\ arg' = [arg EXCEPT ![g] = s]
      BY <1>0, <1>2, <2>2 DEF WASends, HandleWAEvent, E2EEStores, GoTo
    <3>2. arg' \in [Senders -> Events]
      BY <1>0, <3>1
    <3> QED
      BY <2>0, <3>1, <3>2, StoreKeepsShown
  <2> QED
    BY <2>1, <2>2
<1>3. ASSUME NEW g \in Callers, CallerSends(g) PROVE ShownInv'
  <2>0. g \in Senders
    BY <1>0
  <2>1. CASE ConnectStores(g) \/ ConnectStoresWA(g)
    <3>1. PICK t \in {"second", "merge"} :
            /\ StoreMeta(g, "connecting") \/ StoreWA(g, "connecting")
            /\ at[g] # "push" /\ at' = [at EXCEPT ![g] = t]
      BY <2>1 DEF ConnectStores, ConnectStoresWA, GoTo
    <3>2. arg' \in [Senders -> Events]
      BY <1>0, <2>1 DEF ConnectStores, ConnectStoresWA
    <3> QED
      BY <1>0, <2>0, <3>1, <3>2, StoreKeepsShown
  <2>2. CASE ConnectChecks(g)
    <3>1. /\ at[g] # "push" /\ at' = [at EXCEPT ![g] = "first"]
          /\ arg' = arg
          /\ UNCHANGED <<metaState, waState, shown, owes, raced, stale>>
      BY <2>2 DEF ConnectChecks, GoTo, Keep
    <3> QED
      BY <1>0, <2>0, <3>1, OtherKeepsShown
  <2>3. ASSUME NEW s \in Events, SendOnly(g, s) PROVE ShownInv'
    <3>1. /\ at[g] # "push" /\ at' = [at EXCEPT ![g] = "merge"]
          /\ arg' = [arg EXCEPT ![g] = s]
          /\ UNCHANGED <<metaState, waState, shown, owes, raced, stale>>
      BY <2>3 DEF SendOnly, GoTo, Keep
    <3>2. /\ arg' \in [Senders -> Events]
          /\ \A h \in Senders \ {g} : arg'[h] = arg[h]
      BY <1>0, <3>1
    <3> QED
      BY <1>0, <2>0, <3>1, <3>2, OtherKeepsShown
  <2>4. CASE ResetMeta(g)
    <3>1. /\ at[g] # "push" /\ at' = [at EXCEPT ![g] = "reset"]
          /\ arg' = arg /\ metaState' = Unset
          /\ UNCHANGED <<waState, shown, owes, raced, stale>>
      BY <2>4 DEF ResetMeta, GoTo
    <3> QED
      BY <1>0, <2>0, <3>1, OtherKeepsShown
  <2>5. CASE ResetWA(g)
    <3>1. /\ at[g] # "push" /\ at' = [at EXCEPT ![g] = "idle"]
          /\ arg' = arg /\ waState' = Unset
          /\ UNCHANGED <<metaState, shown, owes, raced, stale>>
      BY <2>5 DEF ResetWA, GoTo
    <3> QED
      BY <1>0, <2>0, <3>1, OtherKeepsShown
  <2> QED
    BY <1>3, <2>1, <2>2, <2>3, <2>4, <2>5 DEF CallerSends
<1>4. CASE UNCHANGED sendVars
  BY <1>4 DEF sendVars, ShownInv, Excused
<1> QED
  BY <1>1, <1>2, <1>3, <1>4, SendKeepsShown DEF SendNext

(* Whoever stores a state sends the worst of the two after it: however the *)
(* goroutines interleave, the user is shown something better only before   *)
(* that Send is through, or when a merged state was overtaken.             *)
THEOREM ShownIsWorst == SendSpec => []NotBetterThanWorst
<1>1. SendInit => ShownInv
  BY RankRange DEF SendInit, ShownInv, SendSteps
<1>2. ShownInv => NotBetterThanWorst
  <2> SUFFICES ASSUME ShownInv PROVE NotBetterThanWorst
    OBVIOUS
  <2>1. Rank(shown) \in 1..5 /\ Rank(metaState) \in 1..5
        /\ Rank(waState) \in 1..5
    BY RankRange DEF ShownInv
  <2>2. /\ Rank(shown) > Rank(metaState) => Excused("meta")
        /\ Rank(shown) > Rank(waState) => Excused("wa")
    BY <2>1 DEF ShownInv
  <2> QED
    BY <2>2 DEF NotBetterThanWorst, Stored, Excused
<1> QED
  BY <1>1, <1>2, NextShown, PTL DEF SendSpec

(* The bridge states only change in the ways of the four operators.        *)
StatesMove ==
  \/ UNCHANGED stVars
  \/ \E s \in Events : Send(s) \/ SetMeta(s) \/ SetWA(s)
  \/ ResetStates
  \/ /\ metaState' = "connecting" /\ waState' \in {"connecting", waState}
     /\ waState = Unset

(* There is no other way to change the bridge states.                      *)
LEMMA StatesMoves == Act => StatesMove
<1> SUFFICES ASSUME Act PROVE StatesMove
  OBVIOUS
<1>e. {"bad", "unknown", "transient", "connecting", "connected"} \subseteq
        Events
  BY DEF Events, Severity
<1>1. ASSUME CallConnect \/ CallStop("disconnect") \/ CallStop("logout")
      PROVE  StatesMove
  BY <1>1 DEF CallConnect, CallStop, StatesMove
<1>2. ASSUME NEW p \in Procs, ProcStep(p) PROVE StatesMove
  <2>1. CASE FullReconnect(p) \/ StopClient(p) \/ ConnectRefused(p)
             \/ Sleep(p) \/ PageLoaded(p) \/ ConnectReturns(p)
    BY <2>1 DEF FullReconnect, StopClient, ConnectRefused, Sleep,
                PageLoaded, ConnectReturns, StatesMove
  <2>2. CASE DropClient(p)
    BY <2>2 DEF DropClient, StatesMove
  <2>3. CASE ConnectBegins(p)
    BY <2>3 DEF ConnectBegins, StatesMove
  <2>4. CASE Ensure(p)
    BY <2>4, <1>e DEF Ensure, StatesMove
  <2>5. CASE TokenInvalidated(p) \/ GhostFails(p)
    BY <2>5, <1>e DEF TokenInvalidated, GhostFails, StatesMove
  <2>6. CASE PageRetry(p)
    BY <2>6, <1>e DEF PageRetry, StatesMove
  <2>7. CASE \E s \in {"bad", "unknown"} : PageRefused(p, s)
    BY <2>7, <1>e DEF PageRefused, StatesMove
  <2>8. CASE StartClient(p)
    BY <2>8, <1>e DEF StartClient, StatesMove
  <2> QED
    BY <1>2, <2>1, <2>2, <2>3, <2>4, <2>5, <2>6, <2>7, <2>8
    DEF ProcStep, ConnectStep
<1>3. ASSUME NEW e \in EProcs, E2EEStep(e) PROVE StatesMove
  BY <1>3, <1>e
  DEF E2EEStep, E2EELock, E2EEDevice, E2EERegister, E2EEPrepare, E2EEConnect,
      E2EEFailed, EPanic, StatesMove
<1>4. ASSUME NEW c \in Clients, MetaEvent(c) PROVE StatesMove
  BY <1>4, <1>e
  DEF MetaEvent, Connected, SocketError, DeafEnds, AfterPermanentError,
      PermanentError, StatesMove
<1>5. ASSUME NEW l \in Loops, RefreshBegins(l) \/ RefreshFires(l)
      PROVE  StatesMove
  BY <1>5 DEF RefreshBegins, RefreshFires, StatesMove
<1>6. ASSUME WAEvent PROVE StatesMove
  BY <1>6, <1>e
  DEF WAEvent, WAConnected, WADisconnected, CATRefreshError,
      WAPermanentError, StatesMove
<1>7. ASSUME TimePasses PROVE StatesMove
  BY <1>7 DEF TimePasses, StatesMove
<1> QED
  BY <1>1, <1>2, <1>3, <1>4, <1>5, <1>6, <1>7 DEF Act

(* All of these ways store events.                                         *)
LEMMA StatesKept == StatesTyped /\ StatesMove => StatesTyped'
<1> SUFFICES ASSUME StatesTyped, StatesMove PROVE StatesTyped'
  OBVIOUS
<1>1. Unset \in Events /\ "connecting" \in Events
  BY DEF Events, Severity
<1>2. CASE UNCHANGED stVars
  BY <1>2 DEF stVars, StatesTyped
<1>3. ASSUME NEW s \in Events, Send(s) \/ SetMeta(s) \/ SetWA(s)
      PROVE  StatesTyped'
  BY <1>3 DEF Send, SetMeta, SetWA, StatesTyped, stVars
<1>4. CASE ResetStates
  BY <1>1, <1>4 DEF ResetStates, StatesTyped
<1>5. CASE /\ metaState' = "connecting"
           /\ waState' \in {"connecting", waState}
           /\ waState = Unset
  BY <1>1, <1>5 DEF StatesTyped
<1> QED
  BY <1>2, <1>3, <1>4, <1>5 DEF StatesMove

-----------------------------------------------------------------------------
(* Types.                                                                  *)

Firing == {"firing", "firingStopped"}

(* Stopping a refresh loop does not stop one that has fired.               *)
LEMMA StopLoopKeeps ==
  ASSUME NEW f \in [Loops -> LoopStates], NEW l \in Loops \cup {0}
  PROVE  /\ StopLoop(f, l) \in [Loops -> LoopStates]
         /\ \A k \in Loops :
              f[k] \in Firing => StopLoop(f, l)[k] \in Firing
  BY DEF StopLoop, LoopStates, Firing

(* Stopping the current loop keeps the types.                              *)
LEMMA StopRefreshTyped == LoopsTyped /\ StopRefresh => LoopsTyped'
  BY StopLoopKeeps DEF StopRefresh, LoopsTyped

(* So does a call that begins, ...                                         *)
LEMMA BeginTyped ==
  ASSUME CallsTyped, NEW job \in Jobs, NEW step \in Steps,
         NEW l \in Loops \cup {0}, Begin(job, step, l)
  PROVE  CallsTyped' /\ cancelled' = cancelled
  BY CallsAssumption DEF CallsTyped, Begin

(* ... and one that returns.                                               *)
LEMMA ReturnTyped ==
  ASSUME CallsTyped, LoopsTyped, NEW p \in Procs, NEW done, Return(p, done)
  PROVE  /\ pc' \in [Procs -> Steps] /\ via' \in [Procs -> Jobs]
         /\ loopOf' \in [Procs -> Loops \cup {0}]
         /\ refresh' \in [Loops -> LoopStates]
<1>1. /\ pc' \in [Procs -> Steps] /\ via' \in [Procs -> Jobs]
      /\ loopOf' \in [Procs -> Loops \cup {0}]
  BY DEF CallsTyped, Return, Steps, Jobs
<1>2. refresh' \in [Loops -> LoopStates]
  BY DEF CallsTyped, LoopsTyped, Return, LoopStates
<1> QED
  BY <1>1, <1>2

(* Free identities are identities.                                         *)
LEMMA FreeIds == FreeClient \subseteq Clients /\ FreeLoop \subseteq Loops
  BY DEF FreeClient, FreeLoop, Least

CoreTyped == CallsTyped /\ ClientTyped /\ LoopsTyped
coreVars == <<pc, via, held, tries, lock, attempt, loopOf, calls, client,
              conn, refresh, refreshPtr>>

(* Steps that touch neither calls, clients nor loops.                      *)
LEMMA CoreFrame == CoreTyped /\ UNCHANGED coreVars => CoreTyped'
  BY DEF CoreTyped, CallsTyped, ClientTyped, LoopsTyped, coreVars

(* A handler that starts a FullReconnect begins a call.                    *)
LEMMA SpawnFullTyped == CallsTyped /\ SpawnFull => CallsTyped'
  BY BeginTyped DEF SpawnFull, Jobs, Steps

(* Every step of a call keeps the types, ...                               *)
LEMMA ProcTyped ==
  ASSUME CoreTyped, NEW p \in Procs, ProcStep(p)
  PROVE  CoreTyped'
<1> USE DEF CoreTyped
<1>s. \A q \in Procs, s \in Steps : Goto(q, s) => pc' \in [Procs -> Steps]
  BY DEF Goto, CallsTyped
<1>1. CASE FullReconnect(p)
  <2>1. CASE cookies
    BY <1>1, <2>1
    DEF FullReconnect, Goto, CallsTyped, ClientTyped, LoopsTyped, Steps,
        cliVars
  <2>2. CASE ~cookies
    <3>1. Return(p, FALSE)
      BY <1>1, <2>2 DEF FullReconnect
    <3> QED
      BY <1>1, <3>1, ReturnTyped
      DEF FullReconnect, CallsTyped, ClientTyped, LoopsTyped, cliVars
  <2> QED
    BY <2>1, <2>2
<1>2. CASE StopClient(p)
  BY <1>2
  DEF StopClient, Goto, CallsTyped, ClientTyped, LoopsTyped, Steps,
      ConnStates, refVars
<1>3. CASE DropClient(p)
  <2>1. LoopsTyped'
    BY <1>3, StopRefreshTyped DEF DropClient
  <2>2. ClientTyped'
    BY <1>3 DEF DropClient, ClientTyped
  <2>3. CallsTyped'
    BY <1>3 DEF DropClient, CallsTyped, Steps, Jobs
  <2> QED
    BY <2>1, <2>2, <2>3
<1>4. CASE ConnectRefused(p)
  BY <1>4, ReturnTyped
  DEF ConnectRefused, CallsTyped, ClientTyped, LoopsTyped, cliVars
<1>5. CASE ConnectBegins(p)
  BY <1>5, RetriesAssumption
  DEF ConnectBegins, Goto, CallsTyped, ClientTyped, LoopsTyped, Steps,
      cliVars, refVars
<1>6. CASE Ensure(p)
  <2>1. client' \in Clients \cup {0} /\ pc' \in [Procs -> Steps]
    BY <1>6, <1>s, FreeIds DEF Ensure, ClientTyped, Steps
  <2> QED
    BY <1>6, <2>1 DEF Ensure, CallsTyped, ClientTyped, LoopsTyped, refVars
<1>7. CASE Sleep(p) \/ PageLoaded(p) \/ GhostFails(p)
  BY <1>7, <1>s
  DEF Sleep, PageLoaded, GhostFails, CallsTyped, ClientTyped, LoopsTyped,
      Steps, cliVars, refVars
<1>8. CASE TokenInvalidated(p) \/ \E s \in {"bad", "unknown"} :
                                      PageRefused(p, s)
  <2>1. LoopsTyped'
    BY <1>8, StopRefreshTyped DEF TokenInvalidated, PageRefused
  <2> QED
    BY <1>8, <2>1, <1>s
    DEF TokenInvalidated, PageRefused, CallsTyped, ClientTyped, Steps,
        cliVars
<1>9. CASE PageRetry(p)
  <2>1. LoopsTyped'
    BY <1>9, StopRefreshTyped DEF PageRetry
  <2>2. tries' \in [Procs -> 0..MaxRetries]
    BY <1>9, RetriesAssumption DEF PageRetry, CallsTyped
  <2> QED
    BY <1>9, <2>1, <2>2, <1>s
    DEF PageRetry, CallsTyped, ClientTyped, Steps, cliVars
<1>10. CASE StartClient(p)
  <2>1. conn' \in [Clients -> ConnStates]
    BY <1>10 DEF StartClient, ClientTyped, ConnStates, Running
  <2>2. refresh' \in [Loops -> LoopStates]
    BY <1>10, FreeIds DEF StartClient, LoopsTyped, LoopStates
  <2> QED
    BY <1>10, <2>1, <2>2, <1>s
    DEF StartClient, CallsTyped, ClientTyped, LoopsTyped, Steps
<1>11. CASE ConnectReturns(p)
  <2>1. tries' \in [Procs -> 0..MaxRetries]
    BY <1>11, RetriesAssumption DEF ConnectReturns, CallsTyped
  <2> QED
    BY <1>11, <2>1, ReturnTyped
    DEF ConnectReturns, CallsTyped, ClientTyped, LoopsTyped, cliVars
<1> QED
  BY <1>1, <1>2, <1>3, <1>4, <1>5, <1>6, <1>7, <1>8, <1>9, <1>10, <1>11
  DEF ProcStep, ConnectStep

(* ... every event of a client, ...                                        *)
LEMMA EventTyped ==
  ASSUME CoreTyped, NEW c \in Clients, MetaEvent(c)
  PROVE  CoreTyped'
<1> USE DEF CoreTyped
<1>1. CASE Connected(c) \/ SocketError(c) \/ DeafEnds(c)
  BY <1>1
  DEF Connected, SocketError, DeafEnds, CallsTyped, ClientTyped, LoopsTyped,
      ConnStates, Running, procVars, refVars
<1>2. CASE AfterPermanentError(c)
  <2>1. LoopsTyped'
    BY <1>2, StopRefreshTyped DEF AfterPermanentError
  <2> QED
    BY <1>2, <2>1
    DEF AfterPermanentError, CallsTyped, ClientTyped, ConnStates, procVars
<1>3. ASSUME NEW code, PermanentError(c, code) PROVE CoreTyped'
  <2>1. CallsTyped'
    <3>1. SpawnFull \/ UNCHANGED procVars
      BY <1>3 DEF PermanentError
    <3> QED
      BY <3>1, SpawnFullTyped DEF CallsTyped, procVars
  <2> QED
    BY <1>3, <2>1
    DEF PermanentError, ClientTyped, LoopsTyped, ConnStates, refVars
<1> QED
  BY <1>1, <1>2, <1>3 DEF MetaEvent

(* ... and what the user, the other connection and time do.                *)
LEMMA OtherTyped ==
  CoreTyped /\ (CallConnect \/ CallStop("disconnect") \/ CallStop("logout")
                \/ WAEvent \/ TimePasses) => CoreTyped'
<1> SUFFICES ASSUME CoreTyped,
                    \/ CallConnect \/ CallStop("disconnect")
                    \/ CallStop("logout") \/ WAEvent \/ TimePasses
             PROVE  CoreTyped'
  OBVIOUS
<1> USE DEF CoreTyped
<1>1. ASSUME NEW job \in Jobs, NEW step \in Steps, Begin(job, step, 0),
             UNCHANGED <<cliVars, refVars>>
      PROVE  CoreTyped'
  BY <1>1, BeginTyped DEF ClientTyped, LoopsTyped, cliVars, refVars
<1>2. CASE CallConnect \/ CallStop("disconnect") \/ CallStop("logout")
  BY <1>1, <1>2 DEF CallConnect, CallStop, Jobs, Steps
<1>3. CASE WAEvent
  <2>1. (SpawnFull \/ UNCHANGED procVars) /\ UNCHANGED <<cliVars, refVars>>
    BY <1>3
    DEF WAEvent, WAConnected, WADisconnected, CATRefreshError,
        WAPermanentError
  <2> QED
    BY <2>1, <1>1, CoreFrame
    DEF SpawnFull, Jobs, Steps, procVars, cliVars, refVars, coreVars
<1>4. CASE TimePasses
  BY <1>4, CoreFrame
  DEF TimePasses, procVars, cliVars, coreVars
<1> QED
  BY <1>2, <1>3, <1>4

(* Every step keeps the types of calls, clients and loops.                 *)
LEMMA CoreTypes == CoreTyped /\ Act => CoreTyped'
<1> SUFFICES ASSUME CoreTyped, Act PROVE CoreTyped'
  OBVIOUS
<1>1. ASSUME NEW e \in EProcs, E2EEStep(e) PROVE CoreTyped'
  <2>1. UNCHANGED <<procVars, cliVars, refVars>>
    BY <1>1
    DEF E2EEStep, E2EELock, E2EEDevice, E2EERegister, E2EEPrepare,
        E2EEConnect, E2EEFailed, EPanic
  <2> QED
    BY <2>1, CoreFrame DEF procVars, cliVars, refVars, coreVars
<1>2. ASSUME NEW l \in Loops, RefreshBegins(l) \/ RefreshFires(l)
      PROVE  CoreTyped'
  <2>1. CASE RefreshBegins(l)
    <3>1. StopLoop(refresh, refreshPtr) \in [Loops -> LoopStates]
      BY StopLoopKeeps DEF CoreTyped, LoopsTyped
    <3>2. LoopsTyped'
      BY <2>1, <3>1 DEF RefreshBegins, LoopsTyped, LoopStates
    <3> QED
      BY <2>1, <3>2
      DEF RefreshBegins, CoreTyped, CallsTyped, ClientTyped, procVars,
          cliVars
  <2>2. CASE RefreshFires(l)
    <3>1. CallsTyped'
      BY <2>2, BeginTyped DEF RefreshFires, Jobs, Steps, CoreTyped
    <3>2. LoopsTyped'
      BY <2>2 DEF RefreshFires, LoopsTyped, LoopStates, CoreTyped
    <3> QED
      BY <2>2, <3>1, <3>2
      DEF RefreshFires, CoreTyped, ClientTyped, cliVars
  <2> QED
    BY <1>2, <2>1, <2>2
<1> QED
  BY <1>1, <1>2, ProcTyped, EventTyped, OtherTyped DEF Act

-----------------------------------------------------------------------------
(* Types of the E2EE goroutines and of the flags.                          *)

DeviceStates == {"nil", "new", "registered"}

(* A goroutine that starts tryConnectE2EE keeps the types.                 *)
LEMMA SpawnE2EETyped ==
  epc \in [EProcs -> ESteps] /\ SpawnE2EE => epc' \in [EProcs -> ESteps]
  BY DEF SpawnE2EE, ESteps

(* So does one that leaves connectE2EE.                                    *)
LEMMA LeaveTyped ==
  ASSUME E2EETyped, NEW e \in EProcs, NEW step \in ESteps, ELeave(e, step)
  PROVE  /\ epc' \in [EProcs -> ESteps] /\ elock' \in EProcs \cup {None}
         /\ eheld' \in [EProcs -> Clients \cup {0}]
         /\ edev' \in [EProcs -> DeviceStates]
  BY DEF E2EETyped, ELeave, DeviceStates

(* So does every step of it.                                               *)
LEMMA E2EEStepTyped ==
  ASSUME E2EETyped, client \in Clients \cup {0}, NEW e \in EProcs,
         E2EEStep(e)
  PROVE  E2EETyped'
<1>u. UNCHANGED e2Vars => E2EETyped'
  BY DEF e2Vars, E2EETyped
<1>l. "failed" \in ESteps /\ "idle" \in ESteps
  BY DEF ESteps
<1>1. CASE E2EELock(e)
  <2>1. CASE e2ee = "nil"
    BY <1>1, <2>1 DEF E2EELock, E2EETyped, ESteps
  <2>2. CASE e2ee # "nil"
    BY <1>1, <2>2, <1>l, LeaveTyped DEF E2EELock, E2EETyped, DeviceStates
  <2> QED
    BY <2>1, <2>2
<1>2. CASE E2EEDevice(e)
  <2>1. CASE ELeave(e, "failed") /\ UNCHANGED <<device, e2ee>>
    BY <2>1, <1>l, LeaveTyped DEF E2EETyped, DeviceStates
  <2>2. CASE EPanic(e, "nilClient")
    BY <2>2, <1>u DEF EPanic
  <2>3. ASSUME NEW d \in DeviceStates, device' = d,
               edev' = [edev EXCEPT ![e] = d],
               epc' = [epc EXCEPT ![e] = IF device = "nil" /\ d = "new"
                                         THEN "register" ELSE "prepare"],
               eheld' = [eheld EXCEPT ![e] = client],
               UNCHANGED <<elock, e2ee>>
        PROVE  E2EETyped'
    BY <2>3 DEF E2EETyped, ESteps, DeviceStates
  <2>4. \A d \in (IF device # "nil" THEN {device}
                 ELSE {"new"} \cup {x \in {"registered"} : deviceID}) :
          d \in DeviceStates
    BY DEF E2EETyped, DeviceStates
  <2> QED
    BY <1>2, <2>1, <2>2, <2>3, <2>4 DEF E2EEDevice
<1>3. CASE E2EERegister(e)
  <2>1. CASE ELeave(e, "failed") /\ UNCHANGED e2ee
             /\ device' \in {device, "registered"}
    BY <2>1, <1>l, LeaveTyped DEF E2EETyped, DeviceStates
  <2>2. CASE EPanic(e, "nilDevice")
    BY <2>2, <1>u DEF EPanic
  <2>3. CASE /\ edev' = [edev EXCEPT ![e] = "registered"]
             /\ device' = "registered"
             /\ epc' = [epc EXCEPT ![e] = "prepare"]
             /\ UNCHANGED <<elock, eheld, e2ee>>
    BY <2>3 DEF E2EETyped, ESteps
  <2> QED
    BY <1>3, <2>1, <2>2, <2>3 DEF E2EERegister
<1>4. CASE E2EEPrepare(e)
  <2>1. CASE client # 0 /\ client = eheld[e]
    BY <1>4, <2>1 DEF E2EEPrepare, E2EETyped, ESteps
  <2>2. CASE ~(client # 0 /\ client = eheld[e])
    BY <1>4, <2>2, <1>l, LeaveTyped DEF E2EEPrepare, E2EETyped, DeviceStates
  <2> QED
    BY <2>1, <2>2
<1>5. CASE E2EEConnect(e)
  <2>1. CASE EPanic(e, "nilE2EE") \/ EPanic(e, "noDeviceID")
    BY <2>1, <1>u DEF EPanic
  <2>2. ASSUME NEW ok \in BOOLEAN,
               ELeave(e, IF ok THEN "idle" ELSE "failed"),
               e2ee' = IF ok THEN "down" ELSE "dead", UNCHANGED device
        PROVE  E2EETyped'
    BY <2>2, <1>l, LeaveTyped DEF E2EETyped, DeviceStates
  <2> QED
    BY <1>5, <2>1, <2>2 DEF E2EEConnect
<1>6. CASE E2EEFailed(e)
  BY <1>6 DEF E2EEFailed, E2EETyped, ESteps
<1> QED
  BY <1>1, <1>2, <1>3, <1>4, <1>5, <1>6 DEF E2EEStep

(* Only these steps outside tryConnectE2EE touch its variables.            *)
E2EEMove ==
  \/ UNCHANGED <<epc, elock, eheld, edev, device, e2ee>>
  \/ \E p \in Procs : DropClient(p)
  \/ \E c \in Clients : Connected(c)
  \/ WAEvent

(* There is no other way to change its variables.                          *)
LEMMA E2EEMoves == Act => E2EEMove \/ \E e \in EProcs : E2EEStep(e)
<1> SUFFICES ASSUME Act, ~(\E e \in EProcs : E2EEStep(e)), ~WAEvent
             PROVE  E2EEMove
  BY DEF E2EEMove
<1>1. ASSUME CallConnect \/ CallStop("disconnect") \/ CallStop("logout")
             \/ TimePasses
      PROVE  E2EEMove
  BY <1>1 DEF CallConnect, CallStop, TimePasses, E2EEMove, e2Vars
<1>2. ASSUME NEW p \in Procs, ProcStep(p) PROVE E2EEMove
  BY <1>2
  DEF ProcStep, ConnectStep, FullReconnect, StopClient, ConnectRefused,
      ConnectBegins, Ensure, Sleep, PageLoaded, TokenInvalidated, PageRetry,
      PageRefused, StartClient, GhostFails, ConnectReturns, E2EEMove, e2Vars
<1>3. ASSUME NEW c \in Clients, MetaEvent(c) PROVE E2EEMove
  BY <1>3
  DEF MetaEvent, SocketError, DeafEnds, AfterPermanentError, PermanentError,
      E2EEMove, e2Vars
<1>4. ASSUME NEW l \in Loops, RefreshBegins(l) \/ RefreshFires(l)
      PROVE  E2EEMove
  BY <1>4 DEF RefreshBegins, RefreshFires, E2EEMove, e2Vars
<1> QED
  BY <1>1, <1>2, <1>3, <1>4 DEF Act

(* Every step keeps the types of the E2EE goroutines.                      *)
LEMMA E2EETypes ==
  E2EETyped /\ client \in Clients \cup {0} /\ Act => E2EETyped'
<1> SUFFICES ASSUME E2EETyped, client \in Clients \cup {0}, Act
             PROVE  E2EETyped'
  OBVIOUS
<1>1. CASE UNCHANGED <<epc, elock, eheld, edev, device, e2ee>>
  BY <1>1 DEF E2EETyped
<1>2. ASSUME NEW p \in Procs, DropClient(p) PROVE E2EETyped'
  BY <1>2 DEF DropClient, E2EETyped
<1>3. ASSUME NEW c \in Clients, Connected(c) PROVE E2EETyped'
  <2>1. epc' \in [EProcs -> ESteps]
    BY <1>3, SpawnE2EETyped DEF Connected, E2EETyped
  <2> QED
    BY <1>3, <2>1 DEF Connected, E2EETyped
<1>4. ASSUME WAEvent PROVE E2EETyped'
  <2>1. CASE WAConnected \/ WADisconnected
             \/ \E reload \in BOOLEAN : CATRefreshError(reload)
    BY <2>1
    DEF WAConnected, WADisconnected, CATRefreshError, E2EETyped, e2Vars
  <2>2. ASSUME NEW code, WAPermanentError(code) PROVE E2EETyped'
    <3>1. epc' \in [EProcs -> ESteps]
      BY <2>2, SpawnE2EETyped DEF WAPermanentError, E2EETyped
    <3> QED
      BY <2>2, <3>1 DEF WAPermanentError, E2EETyped
  <2> QED
    BY <1>4, <2>1, <2>2 DEF WAEvent
<1> QED
  BY <1>1, <1>2, <1>3, <1>4, E2EEMoves, E2EEStepTyped DEF E2EEMove

(* Every step keeps the types of the flags.                                *)
LEMMA FlagsTypes == FlagsTyped /\ Act => FlagsTyped'
<1> SUFFICES ASSUME FlagsTyped, Act PROVE FlagsTyped'
  OBVIOUS
<1> DEFINE Same == UNCHANGED <<cancelled, warm, cookies, saved, recent,
                               deviceID, firstDone>>
<1>u. Same => FlagsTyped'
  BY DEF FlagsTyped
<1>b. \A p, done : Return(p, done) => recent' \in BOOLEAN
  BY DEF Return
<1>1. ASSUME \/ CallConnect \/ CallStop("disconnect")
             \/ CallStop("logout")
      PROVE  FlagsTyped'
  <2>1. Same
    BY <1>1
    DEF CallConnect, CallStop, Begin, cliVars, refVars, e2Vars
  <2> QED
    BY <2>1, <1>u
<1>2. ASSUME NEW p \in Procs, ProcStep(p) PROVE FlagsTyped'
  <2>1. CASE FullReconnect(p) \/ ConnectRefused(p)
    <3>1. recent' \in BOOLEAN
      BY <2>1, <1>b DEF FullReconnect, ConnectRefused, FlagsTyped
    <3> QED
      BY <2>1, <3>1
      DEF FullReconnect, ConnectRefused, FlagsTyped, cliVars, e2Vars
  <2>2. CASE StopClient(p)
    <3>1. /\ cancelled' \in [Procs -> BOOLEAN]
          /\ warm' \in [Clients -> BOOLEAN]
      BY <2>2 DEF StopClient, FlagsTyped
    <3> QED
      BY <2>2, <3>1 DEF StopClient, FlagsTyped, refVars, e2Vars
  <2>3. CASE DropClient(p)
    <3>1. UNCHANGED <<cancelled, warm, firstDone>>
      BY <2>3 DEF DropClient
    <3>2. saved' \in BOOLEAN
      BY <2>3 DEF DropClient, FlagsTyped
    <3>3. cookies' \in BOOLEAN /\ recent' \in BOOLEAN
          /\ deviceID' \in BOOLEAN
      BY <2>3 DEF DropClient, FlagsTyped
    <3> QED
      BY <3>1, <3>2, <3>3 DEF FlagsTyped
  <2>4. CASE ConnectBegins(p)
    <3>1. cancelled' \in [Procs -> BOOLEAN]
      BY <2>4, Zenon DEF ConnectBegins, FlagsTyped
    <3> QED
      BY <2>4, <3>1
      DEF ConnectBegins, FlagsTyped, cliVars, refVars, e2Vars
  <2>5. CASE Ensure(p)
    <3>1. warm' \in [Clients -> BOOLEAN]
      BY <2>5 DEF Ensure, FlagsTyped
    <3> QED
      BY <2>5, <3>1 DEF Ensure, FlagsTyped, refVars, e2Vars
  <2>6. CASE Sleep(p) \/ PageLoaded(p) \/ PageRetry(p) \/ StartClient(p)
             \/ GhostFails(p)
             \/ \E s \in {"bad", "unknown"} : PageRefused(p, s)
    <3>1. Same
      BY <2>6
      DEF Sleep, PageLoaded, PageRetry, StartClient, GhostFails,
          PageRefused, cliVars, refVars, e2Vars
    <3> QED
      BY <3>1, <1>u
  <2>7. CASE TokenInvalidated(p)
    BY <2>7 DEF TokenInvalidated, FlagsTyped, e2Vars
  <2>8. CASE ConnectReturns(p)
    <3>1. recent' \in BOOLEAN
      BY <2>8, <1>b DEF ConnectReturns
    <3> QED
      BY <2>8, <3>1 DEF ConnectReturns, FlagsTyped, cliVars, e2Vars
  <2> QED
    BY <1>2, <2>1, <2>2, <2>3, <2>4, <2>5, <2>6, <2>7, <2>8
    DEF ProcStep, ConnectStep
<1>3. ASSUME NEW e \in EProcs, E2EEStep(e) PROVE FlagsTyped'
  <2>1. /\ UNCHANGED <<cancelled, warm, cookies, saved, recent, firstDone>>
        /\ deviceID' \in {deviceID, TRUE}
    BY <1>3
    DEF E2EEStep, E2EELock, E2EEDevice, E2EERegister, E2EEPrepare,
        E2EEConnect, E2EEFailed, EPanic, procVars, cliVars, refVars, e2Vars
  <2> QED
    BY <2>1 DEF FlagsTyped
<1>4. ASSUME NEW c \in Clients, MetaEvent(c) PROVE FlagsTyped'
  <2>1. CASE Connected(c)
    BY <2>1 DEF Connected, FlagsTyped, procVars, refVars
  <2>2. CASE SocketError(c) \/ DeafEnds(c) \/ AfterPermanentError(c)
    BY <2>2
    DEF SocketError, DeafEnds, AfterPermanentError, FlagsTyped, procVars,
        refVars, e2Vars
  <2>3. ASSUME NEW code, PermanentError(c, code) PROVE FlagsTyped'
    <3>1. cancelled' = cancelled
      BY <2>3 DEF PermanentError, SpawnFull, Begin, procVars
    <3> QED
      BY <2>3, <3>1 DEF PermanentError, FlagsTyped, refVars, e2Vars
  <2> QED
    BY <1>4, <2>1, <2>2, <2>3 DEF MetaEvent
<1>5. ASSUME NEW l \in Loops, RefreshBegins(l) \/ RefreshFires(l)
      PROVE  FlagsTyped'
  <2>1. Same
    BY <1>5
    DEF RefreshBegins, RefreshFires, Begin, procVars, cliVars, refVars,
        e2Vars
  <2> QED
    BY <2>1, <1>u
<1>6. ASSUME WAEvent PROVE FlagsTyped'
  <2>1. /\ UNCHANGED <<cancelled, warm, cookies, saved, recent, firstDone>>
        /\ deviceID' \in {deviceID, FALSE}
    BY <1>6
    DEF WAEvent, WAConnected, WADisconnected, CATRefreshError,
        WAPermanentError, SpawnFull, Begin, procVars, cliVars, refVars,
        e2Vars
  <2> QED
    BY <2>1 DEF FlagsTyped
<1>7. ASSUME TimePasses PROVE FlagsTyped'
  BY <1>7 DEF TimePasses, FlagsTyped, procVars, cliVars, e2Vars
<1> QED
  BY <1>1, <1>2, <1>3, <1>4, <1>5, <1>6, <1>7 DEF Act

(* A panic comes from a step of an E2EE goroutine and stops everything.    *)
LEMMA PanicMoves ==
  Act => \/ panic' = panic
         \/ \E e \in EProcs : \/ E2EEDevice(e) /\ client = 0
                                /\ EPanic(e, "nilClient")
                              \/ E2EERegister(e) /\ device = "nil"
                                /\ EPanic(e, "nilDevice")
                              \/ E2EEConnect(e) /\ e2ee = "nil"
                                /\ EPanic(e, "nilE2EE")
                              \/ E2EEConnect(e) /\ edev[e] = "new"
                                /\ EPanic(e, "noDeviceID")
<1> SUFFICES ASSUME Act, panic' # panic
             PROVE  \E e \in EProcs :
                      \/ E2EEDevice(e) /\ client = 0
                          /\ EPanic(e, "nilClient")
                      \/ E2EERegister(e) /\ device = "nil"
                          /\ EPanic(e, "nilDevice")
                      \/ E2EEConnect(e) /\ e2ee = "nil"
                          /\ EPanic(e, "nilE2EE")
                      \/ E2EEConnect(e) /\ edev[e] = "new"
                          /\ EPanic(e, "noDeviceID")
  OBVIOUS
<1>1. ~(CallConnect \/ CallStop("disconnect") \/ CallStop("logout")
        \/ TimePasses)
  BY DEF CallConnect, CallStop, TimePasses
<1>2. ~(\E p \in Procs : ProcStep(p))
  BY
  DEF ProcStep, ConnectStep, FullReconnect, StopClient, DropClient,
      ConnectRefused, ConnectBegins, Ensure, Sleep, PageLoaded,
      TokenInvalidated, PageRetry, PageRefused, StartClient, GhostFails,
      ConnectReturns
<1>3. ~(\E c \in Clients : MetaEvent(c))
  BY DEF MetaEvent, Connected, SocketError, DeafEnds, AfterPermanentError,
         PermanentError
<1>4. ~(\E l \in Loops : RefreshBegins(l) \/ RefreshFires(l)) /\ ~WAEvent
  BY DEF RefreshBegins, RefreshFires, WAEvent, WAConnected, WADisconnected,
         CATRefreshError, WAPermanentError
<1>5. PICK e \in EProcs : E2EEStep(e)
  BY <1>1, <1>2, <1>3, <1>4 DEF Act
<1>6. E2EEDevice(e) \/ E2EERegister(e) \/ E2EEConnect(e)
  BY <1>5 DEF E2EEStep, E2EELock, E2EEPrepare, E2EEFailed
<1> QED
  BY <1>6 DEF E2EEDevice, E2EERegister, E2EEConnect

(* The history variables are flags.                                        *)
LEMMA HistoryTyped ==
  History => overlap' \in BOOLEAN /\ regFailed' \in BOOLEAN
             /\ dropped' \in BOOLEAN
  BY Zenon DEF History

(* The types hold in every behaviour.                                      *)
LEMMA TypesHold == Spec => []Typed
<1>1. Init => Typed
  <2> SUFFICES ASSUME Init PROVE Typed
    OBVIOUS
  <2>1. CallsTyped /\ ClientTyped /\ LoopsTyped
    BY RetriesAssumption, CallsAssumption
    DEF Init, CallsTyped, ClientTyped, LoopsTyped, Steps, Jobs, ConnStates,
        LoopStates
  <2>2. E2EETyped /\ StatesTyped
    BY DEF Init, E2EETyped, StatesTyped, ESteps, Events
  <2>3. FlagsTyped /\ EndTyped
    BY DEF Init, FlagsTyped, EndTyped, Panics
  <2> QED
    BY <2>1, <2>2, <2>3 DEF Typed
<1>2. Typed /\ Next => Typed'
  <2> SUFFICES ASSUME Typed, Next PROVE Typed'
    OBVIOUS
  <2>1. Act /\ History
    BY NextParts
  <2>2. CallsTyped' /\ ClientTyped' /\ LoopsTyped'
    BY <2>1, CoreTypes DEF Typed, CoreTyped
  <2>3. E2EETyped'
    BY <2>1, E2EETypes DEF Typed, ClientTyped
  <2>4. StatesTyped'
    BY <2>1, StatesMoves, StatesKept DEF Typed
  <2>5. FlagsTyped'
    BY <2>1, FlagsTypes DEF Typed
  <2>6. EndTyped'
    <3>1. panic' \in Panics
      BY <2>1, PanicMoves DEF Typed, EndTyped, EPanic, Panics
    <3> QED
      BY <2>1, <3>1, HistoryTyped DEF EndTyped
  <2> QED
    BY <2>2, <2>3, <2>4, <2>5, <2>6 DEF Typed
<1>3. Typed /\ UNCHANGED vars => Typed'
  BY DEF vars, Typed, CallsTyped, ClientTyped, LoopsTyped, E2EETyped,
         StatesTyped, FlagsTyped, EndTyped
<1> QED
  BY <1>1, <1>2, <1>3, PTL DEF Spec

(* The variables of all goroutines keep their types.                       *)
THEOREM TypeCorrect == Spec => []TypeOK
  BY TypesHold, TypeParts, PTL

-----------------------------------------------------------------------------
(* One call at a time.  As long as no two calls have overlapped, this is   *)
(* what they leave behind at each of their steps.                          *)

Alone == \A p, q \in Procs : pc[p] # "idle" /\ pc[q] # "idle" => p = q

(* A call that has closed the client is going to drop this one.            *)
HeldIsCurrent == \A p \in Procs : pc[p] = "drop" => held[p] = client

(* From closing the old client to starting the new one none runs.          *)
Unstarted == {"drop", "lock", "ensure", "sleep", "page", "start",
              "startWarm"}
NotStarted ==
  \A p \in Procs : pc[p] \in Unstarted /\ client # 0 => conn[client] = "off"

OnlyCurrent == \A c \in Clients : conn[c] # "off" => c = client

(* The cookies go when the client goes, or after it.                       *)
HasCookies == client # 0 => cookies

(* A refresh loop that called FullReconnect waits for it to return.        *)
LoopFires ==
  \A p \in Procs : loopOf[p] # 0 =>
    pc[p] # "idle" /\ via[p] = "full" /\ refresh[loopOf[p]] \in Firing

(* A client that runs and is not about to be closed has a refresh loop     *)
(* that has yet to fire.                                                   *)
Live == {"dialing", "up", "down"}
LoopArmed == \E l \in Loops : refresh[l] \in {"starting", "wait"}
Armed ==
  /\ client # 0 /\ conn[client] \in Live
  /\ \A p \in Procs : pc[p] \notin {"full", "stop"}
  => LoopArmed

Orderly ==
  /\ Alone /\ HeldIsCurrent /\ NotStarted /\ OnlyCurrent /\ HasCookies
  /\ LoopFires /\ Armed
CallInv == ~overlap => Orderly

(* While no calls have overlapped there is at most one.                    *)
LEMMA NotOverlapped == History /\ ~overlap' => ~overlap /\ Alone'
  BY DEF History, Alone

orderVars == <<pc, via, held, loopOf, client, conn, cookies, refresh>>
(* Steps that touch nothing that Orderly is about.                         *)
LEMMA OrderFrame == Orderly /\ UNCHANGED orderVars => Orderly'
  BY DEF Orderly, Alone, HeldIsCurrent, NotStarted, OnlyCurrent, HasCookies,
         LoopFires, Armed, LoopArmed, orderVars

(* A call that begins.                                                     *)
LEMMA BeginOrder ==
  ASSUME CoreTyped, Orderly, Alone',
         NEW job, NEW step \in {"full", "stop", "lock"},
         NEW l \in Loops \cup {0}, Begin(job, step, l),
         step = "lock" => client = 0,
         l # 0 => job = "full" /\ refresh'[l] = "firing",
         OnlyCurrent', HasCookies', UNCHANGED client
  PROVE  Orderly'
<1>1. PICK p \in Procs : /\ pc' = [pc EXCEPT ![p] = step]
                         /\ via' = [via EXCEPT ![p] = job]
                         /\ loopOf' = [loopOf EXCEPT ![p] = l]
                         /\ held' = held
  BY DEF Begin
<1>2. pc'[p] = step /\ via'[p] = job /\ loopOf'[p] = l
  BY <1>1 DEF CoreTyped, CallsTyped
<1>3. \A q \in Procs \ {p} : pc'[q] = "idle"
  BY <1>2 DEF Alone
<1>4. \A q \in Procs \ {p} : loopOf'[q] = 0
  BY <1>1, <1>3 DEF Orderly, LoopFires, CoreTyped, CallsTyped
<1>5. HeldIsCurrent'
  BY <1>2, <1>3 DEF HeldIsCurrent
<1>6. NotStarted'
  BY <1>2, <1>3 DEF NotStarted, Unstarted
<1>7. LoopFires'
  BY <1>2, <1>4 DEF LoopFires, Firing
<1>8. Armed'
  BY <1>2 DEF Armed
<1> QED
  BY <1>5, <1>6, <1>7, <1>8 DEF Orderly

(* A FullReconnect that an event starts is the only call.                  *)
LEMMA SpawnOrder ==
  ASSUME CoreTyped, Orderly, Alone', SpawnFull, OnlyCurrent',
         UNCHANGED <<client, conn, cookies>>
  PROVE  Orderly'
<1>1. HasCookies'
  BY DEF Orderly, HasCookies
<1> QED
  BY <1>1, BeginOrder DEF SpawnFull

(* A call that returns.                                                    *)
LEMMA ReturnOrder ==
  ASSUME CoreTyped, Orderly, Alone', NEW p \in Procs, pc[p] # "idle",
         pc[p] \notin {"full", "stop"} \/ client = 0,
         NEW done, Return(p, done), UNCHANGED <<held, cliVars>>
  PROVE  Orderly'
<1>1. pc' = [q \in Procs |-> "idle"]
  BY DEF Return, Orderly, Alone, CoreTyped, CallsTyped
<1>2. \A q \in Procs : loopOf'[q] = 0
  BY DEF Return, Orderly, Alone, LoopFires, CoreTyped, CallsTyped
<1>3. ASSUME LoopArmed PROVE LoopArmed'
  <2>1. PICK l \in Loops : refresh[l] \in {"starting", "wait"}
    BY <1>3 DEF LoopArmed
  <2>2. l # loopOf[p] \/ loopOf[p] = 0
    BY <2>1 DEF Orderly, LoopFires, Firing
  <2>3. refresh'[l] = refresh[l]
    BY <2>2 DEF Return, CoreTyped, LoopsTyped
  <2> QED
    BY <2>1, <2>3 DEF LoopArmed
<1>4. Armed'
  <2>1. CASE client = 0
    BY <2>1 DEF Armed, cliVars
  <2>2. CASE pc[p] \notin {"full", "stop"}
    <3>1. \A q \in Procs : pc[q] \notin {"full", "stop"}
      BY <2>2 DEF Orderly, Alone
    <3> QED
      BY <3>1, <1>3 DEF Orderly, Armed, cliVars
  <2> QED
    BY <2>1, <2>2
<1>5. HeldIsCurrent' /\ NotStarted' /\ LoopFires'
  BY <1>1, <1>2 DEF HeldIsCurrent, NotStarted, LoopFires, Unstarted
<1>6. OnlyCurrent' /\ HasCookies'
  BY DEF Orderly, OnlyCurrent, HasCookies, cliVars
<1> QED
  BY <1>4, <1>5, <1>6 DEF Orderly

(* A step of a call that keeps its client.                                 *)
LEMMA GotoOrder ==
  ASSUME CoreTyped, Orderly, Alone', NEW p \in Procs, pc[p] \in Unstarted,
         NEW step \in (Unstarted \ {"drop"}) \cup {"unlock"},
         Goto(p, step),
         \A l \in Loops : refresh[l] \in Firing => refresh'[l] \in Firing,
         UNCHANGED <<via, held, loopOf, client, conn, cookies>>
  PROVE  Orderly'
<1>1. /\ pc'[p] = step
      /\ \A q \in Procs \ {p} : pc[q] = "idle" /\ pc'[q] = "idle"
  BY DEF Goto, Orderly, Alone, CoreTyped, CallsTyped, Unstarted
<1>2. HeldIsCurrent'
  BY <1>1 DEF HeldIsCurrent, Unstarted
<1>3. NotStarted'
  BY <1>1 DEF Orderly, NotStarted, Unstarted
<1>4. OnlyCurrent' /\ HasCookies'
  BY DEF Orderly, OnlyCurrent, HasCookies
<1>5. LoopFires'
  BY <1>1
  DEF Orderly, LoopFires, Unstarted, CoreTyped, CallsTyped
<1>6. Armed'
  BY <1>1
  DEF Orderly, NotStarted, Armed, LoopArmed, Unstarted, Live
<1> QED
  BY <1>2, <1>3, <1>4, <1>5, <1>6 DEF Orderly

(* A loop that waits for its FullReconnect is not stopped.                 *)
LEMMA StopRefreshKeeps ==
  LoopsTyped /\ StopRefresh => \A l \in Loops :
    refresh[l] \in Firing => refresh'[l] \in Firing
  BY StopLoopKeeps DEF StopRefresh, LoopsTyped

(* FullReconnect and the two halves of disconnect.                         *)
LEMMA StopOrder ==
  ASSUME CoreTyped, Orderly, Alone', NEW p \in Procs,
         FullReconnect(p) \/ StopClient(p)
  PROVE  Orderly'
<1>0. pc[p] \in {"full", "stop"} /\ pc[p] # "idle"
  BY DEF FullReconnect, StopClient
<1>1. CASE FullReconnect(p) /\ ~cookies
  <2>1. Return(p, FALSE) /\ client = 0 /\ UNCHANGED <<held, cliVars>>
    BY <1>1 DEF FullReconnect, Orderly, HasCookies
  <2> QED
    BY <1>0, <2>1, ReturnOrder
<1>2. CASE FullReconnect(p) /\ cookies
  <2>1. /\ pc' = [pc EXCEPT ![p] = "stop"]
        /\ UNCHANGED <<via, loopOf, refresh, held, cliVars>>
    BY <1>2 DEF FullReconnect, Goto
  <2>2. /\ pc'[p] = "stop"
        /\ \A q \in Procs \ {p} : pc'[q] = pc[q]
    BY <2>1 DEF CoreTyped, CallsTyped
  <2>3. HeldIsCurrent' /\ NotStarted' /\ OnlyCurrent' /\ HasCookies'
    BY <2>1, <2>2
    DEF Orderly, HeldIsCurrent, NotStarted, OnlyCurrent, HasCookies,
        Unstarted, cliVars
  <2>4. LoopFires' /\ Armed'
    BY <2>1, <2>2 DEF Orderly, LoopFires, Armed
  <2> QED
    BY <2>3, <2>4 DEF Orderly
<1>3. CASE StopClient(p)
  <2>1. /\ pc' = [pc EXCEPT ![p] = "drop"]
        /\ held' = [held EXCEPT ![p] = client]
        /\ conn' = IF client = 0 THEN conn ELSE [conn EXCEPT ![client] = "off"]
        /\ UNCHANGED <<via, loopOf, client, cookies, refresh>>
    BY <1>3 DEF StopClient, Goto, refVars
  <2>2. /\ pc'[p] = "drop" /\ held'[p] = client
        /\ \A q \in Procs \ {p} : pc'[q] = "idle"
    BY <2>1 DEF Alone, CoreTyped, CallsTyped
  <2>3. \A c \in Clients : conn'[c] = "off"
    BY <2>1, IdsAssumption DEF Orderly, OnlyCurrent, CoreTyped, ClientTyped
  <2>4. HeldIsCurrent' /\ NotStarted' /\ OnlyCurrent' /\ HasCookies'
    BY <2>1, <2>2, <2>3
    DEF Orderly, HeldIsCurrent, NotStarted, OnlyCurrent, HasCookies,
        CoreTyped, ClientTyped
  <2>5. LoopFires'
    BY <2>1, <2>2 DEF Orderly, LoopFires, CoreTyped, CallsTyped
  <2>6. Armed'
    BY <2>1, <2>3 DEF Armed, Live, CoreTyped, ClientTyped
  <2> QED
    BY <2>4, <2>5, <2>6 DEF Orderly
<1> QED
  BY <1>1, <1>2, <1>3

(* The client that is dropped has been closed.                             *)
LEMMA DropOrder ==
  ASSUME CoreTyped, CoreTyped', Orderly, Alone', NEW p \in Procs,
         DropClient(p)
  PROVE  Orderly'
<1>1. pc[p] = "drop" /\ held[p] = client /\ UNCHANGED <<conn, loopOf>>
  BY DEF DropClient, Orderly, HeldIsCurrent
<1>2. client' = 0
  BY <1>1 DEF DropClient
<1>3. \A c \in Clients : conn'[c] = "off"
  BY <1>1, IdsAssumption DEF Orderly, NotStarted, OnlyCurrent, Unstarted
<1>4. HeldIsCurrent'
  <2>1. pc'[p] # "drop"
    BY DEF DropClient, CoreTyped, CallsTyped
  <2>2. \A q \in Procs \ {p} : pc'[q] = pc[q] /\ pc[q] = "idle"
    BY <1>1 DEF DropClient, Orderly, Alone, CoreTyped, CallsTyped
  <2> QED
    BY <2>1, <2>2 DEF HeldIsCurrent
<1>5. NotStarted' /\ OnlyCurrent' /\ HasCookies' /\ Armed'
  BY <1>2, <1>3 DEF NotStarted, OnlyCurrent, HasCookies, Armed
<1>6. LoopFires'
  <2> SUFFICES ASSUME NEW q \in Procs, loopOf[q] # 0
               PROVE  pc'[q] # "idle" /\ via'[q] = "full"
                      /\ refresh'[loopOf[q]] \in Firing
    BY <1>1 DEF LoopFires
  <2>1. pc[q] # "idle" /\ via[q] = "full" /\ refresh[loopOf[q]] \in Firing
    BY DEF Orderly, LoopFires
  <2>2. q = p
    BY <1>1, <2>1 DEF Orderly, Alone
  <2>3. refresh'[loopOf[q]] \in Firing
    BY <2>1, StopRefreshKeeps DEF DropClient, CoreTyped, CallsTyped
  <2> QED
    BY <2>1, <2>2, <2>3 DEF DropClient, CoreTyped, CallsTyped
<1> QED
  BY <1>4, <1>5, <1>6 DEF Orderly

(* Connect.                                                                *)
LEMMA EnsureOrder ==
  ASSUME CoreTyped, CoreTyped', Orderly, Alone', NEW p \in Procs, Ensure(p)
  PROVE  Orderly'
<1>1. /\ pc[p] = "ensure"
      /\ UNCHANGED <<via, held, loopOf, conn, cookies, refresh>>
  BY DEF Ensure, refVars
<1>2. PICK step \in (Unstarted \ {"drop"}) \cup {"unlock"} : Goto(p, step)
  BY DEF Ensure, Unstarted
<1>3. /\ client' = 0 \/ conn[client'] = "off"
      /\ client' # client => client = 0 /\ cookies
  BY <1>1
  DEF Ensure, FreeClient, Least, Orderly, NotStarted, Unstarted, CoreTyped,
      ClientTyped
<1>4. /\ pc'[p] = step
      /\ \A q \in Procs \ {p} : pc[q] = "idle" /\ pc'[q] = "idle"
  BY <1>1, <1>2 DEF Goto, Orderly, Alone, CoreTyped, CallsTyped
<1>5. HeldIsCurrent' /\ NotStarted'
  BY <1>1, <1>2, <1>3, <1>4 DEF HeldIsCurrent, NotStarted, Unstarted
<1>6. OnlyCurrent'
  BY <1>1, <1>3, IdsAssumption
  DEF Orderly, OnlyCurrent, CoreTyped, ClientTyped, NotStarted, Unstarted
<1>7. HasCookies'
  BY <1>1, <1>3 DEF Orderly, HasCookies
<1>8. LoopFires'
  BY <1>1, <1>2, <1>4
  DEF Orderly, LoopFires, Unstarted, CoreTyped, CallsTyped
<1>9. Armed'
  BY <1>1, <1>3 DEF Armed, Live
<1> QED
  BY <1>5, <1>6, <1>7, <1>8, <1>9 DEF Orderly

(* Invalid cookies go together with the client that used them.             *)
LEMMA InvalidOrder ==
  ASSUME CoreTyped, Orderly, Alone', NEW p \in Procs, TokenInvalidated(p)
  PROVE  Orderly'
<1>1. /\ pc[p] = "page" /\ pc' = [pc EXCEPT ![p] = "unlock"]
      /\ client' = 0 /\ UNCHANGED <<via, held, loopOf, conn>>
  BY DEF TokenInvalidated, Goto
<1>2. /\ pc'[p] = "unlock"
      /\ \A q \in Procs \ {p} : pc[q] = "idle" /\ pc'[q] = "idle"
  BY <1>1 DEF Orderly, Alone, CoreTyped, CallsTyped
<1>3. \A c \in Clients : conn'[c] = "off"
  BY <1>1, IdsAssumption DEF Orderly, NotStarted, OnlyCurrent, Unstarted
<1>4. \A l \in Loops : refresh[l] \in Firing => refresh'[l] \in Firing
  BY StopRefreshKeeps DEF TokenInvalidated, CoreTyped
<1>5. HeldIsCurrent' /\ NotStarted' /\ OnlyCurrent' /\ HasCookies' /\ Armed'
  BY <1>1, <1>2, <1>3
  DEF HeldIsCurrent, NotStarted, OnlyCurrent, HasCookies, Armed, Unstarted
<1>6. LoopFires'
  BY <1>1, <1>2, <1>4 DEF Orderly, LoopFires, CoreTyped, CallsTyped
<1> QED
  BY <1>5, <1>6 DEF Orderly

(* The client that starts is the one the login holds.                      *)
LEMMA StartOrder ==
  ASSUME CoreTyped, Orderly, Alone', NEW p \in Procs, StartClient(p)
  PROVE  Orderly'
<1>1. /\ pc[p] \in Unstarted /\ pc[p] # "idle" /\ Goto(p, "unlock")
      /\ UNCHANGED <<via, held, loopOf, client, cookies>>
  BY DEF StartClient, Unstarted
<1>2. CASE client = 0
  <2>1. UNCHANGED <<conn, refresh>>
    BY <1>2 DEF StartClient
  <2> QED
    BY <1>1, <2>1, GotoOrder
<1>3. CASE client # 0
  <2>1. conn[client] = "off"
    BY <1>1, <1>3 DEF Orderly, NotStarted
  <2>2. PICK l \in FreeLoop : refresh' = [refresh EXCEPT ![l] = "starting"]
    BY <1>3, <2>1 DEF StartClient
  <2>3. l \in Loops /\ refresh[l] = "off" /\ refresh'[l] = "starting"
    BY <2>2 DEF FreeLoop, Least, CoreTyped, LoopsTyped
  <2>4. /\ pc'[p] = "unlock"
        /\ \A q \in Procs \ {p} : pc[q] = "idle" /\ pc'[q] = "idle"
    BY <1>1 DEF Goto, Orderly, Alone, CoreTyped, CallsTyped
  <2>5. \A c \in Clients \ {client} : conn'[c] = "off"
    BY <1>3, <2>1 DEF StartClient, Orderly, OnlyCurrent, CoreTyped,
                      ClientTyped
  <2>6. HeldIsCurrent' /\ NotStarted' /\ OnlyCurrent' /\ HasCookies'
    BY <1>1, <2>4, <2>5
    DEF Orderly, HeldIsCurrent, NotStarted, OnlyCurrent, HasCookies,
        Unstarted
  <2>7. LoopFires'
    BY <1>1, <2>2, <2>3, <2>4
    DEF Orderly, LoopFires, Firing, CoreTyped, CallsTyped, LoopsTyped
  <2>8. Armed'
    BY <2>3 DEF Armed, LoopArmed
  <2> QED
    BY <2>6, <2>7, <2>8 DEF Orderly
<1> QED
  BY <1>2, <1>3

(* Every step of a call is orderly, if it is the only one.                 *)
LEMMA ProcOrder ==
  ASSUME CoreTyped, CoreTyped', Orderly, Alone', NEW p \in Procs, ProcStep(p)
  PROVE  Orderly'
<1>l. LoopsTyped'
  BY DEF CoreTyped
<1>1. CASE ConnectRefused(p)
  <2>1. /\ pc[p] = "lock" /\ Return(p, TRUE) /\ UNCHANGED <<held, cliVars>>
    BY <1>1 DEF ConnectRefused
  <2> QED
    BY <2>1, ReturnOrder
<1>2. CASE ConnectReturns(p)
  <2>1. /\ pc[p] = "unlock" /\ Return(p, TRUE) /\ UNCHANGED <<held, cliVars>>
    BY <1>2 DEF ConnectReturns
  <2> QED
    BY <2>1, ReturnOrder
<1>3. CASE ConnectBegins(p) \/ Sleep(p) \/ PageLoaded(p) \/ GhostFails(p)
  <2>1. /\ pc[p] \in Unstarted /\ pc[p] # "idle"
        /\ UNCHANGED <<via, held, loopOf, client, conn, cookies, refresh>>
    BY <1>3
    DEF ConnectBegins, Sleep, PageLoaded, GhostFails, Unstarted, cliVars,
        refVars
  <2>2. PICK step \in (Unstarted \ {"drop"}) \cup {"unlock"} : Goto(p, step)
    BY <1>3 DEF ConnectBegins, Sleep, PageLoaded, GhostFails, Unstarted
  <2> QED
    BY <1>l, <2>1, <2>2, GotoOrder
<1>4. CASE PageRetry(p) \/ \E s \in {"bad", "unknown"} : PageRefused(p, s)
  <2>1. /\ pc[p] \in Unstarted /\ pc[p] # "idle" /\ StopRefresh
        /\ UNCHANGED <<via, held, loopOf, client, conn, cookies>>
    BY <1>4 DEF PageRetry, PageRefused, Unstarted, cliVars
  <2>2. PICK step \in (Unstarted \ {"drop"}) \cup {"unlock"} : Goto(p, step)
    BY <1>4 DEF PageRetry, PageRefused, Unstarted
  <2>3. \A l \in Loops : refresh[l] \in Firing => refresh'[l] \in Firing
    BY <2>1, StopRefreshKeeps DEF CoreTyped
  <2> QED
    BY <1>l, <2>1, <2>2, <2>3, GotoOrder
<1> QED
  BY <1>1, <1>2, <1>3, <1>4, StopOrder, DropOrder, EnsureOrder, InvalidOrder,
     StartOrder
  DEF ProcStep, ConnectStep

(* Events of the connection loops.                                         *)
LEMMA EventOrder ==
  ASSUME CoreTyped, CoreTyped', Orderly, Alone', NEW c \in Clients,
         MetaEvent(c)
  PROVE  Orderly'
<1> USE IdsAssumption
<1>c. conn[c] # "off" => client = c /\ client # 0
  BY DEF Orderly, OnlyCurrent
<1>1. ASSUME conn[c] # "off", NEW s, conn' = [conn EXCEPT ![c] = s],
             s \in Live => conn[c] \in Live,
             s \in Live \cup {"dead", "off"},
             UNCHANGED <<client, cookies>>
      PROVE  /\ OnlyCurrent' /\ HasCookies'
             /\ UNCHANGED pc => NotStarted'
             /\ UNCHANGED pc /\ (LoopArmed => LoopArmed' \/ s \notin Live)
                  => Armed'
  <2>1. client = c /\ client # 0
    BY <1>1, <1>c
  <2>2. /\ conn'[c] = s
        /\ \A d \in Clients \ {c} : conn'[d] = "off"
    BY <1>1, <2>1 DEF Orderly, OnlyCurrent, CoreTyped, ClientTyped
  <2>3. OnlyCurrent' /\ HasCookies'
    BY <1>1, <2>1, <2>2 DEF Orderly, OnlyCurrent, HasCookies
  <2>4. UNCHANGED pc => NotStarted'
    BY <1>1, <2>1 DEF Orderly, NotStarted
  <2>5. UNCHANGED pc /\ (LoopArmed => LoopArmed' \/ s \notin Live) => Armed'
    BY <1>1, <2>1, <2>2 DEF Orderly, Armed
  <2> QED
    BY <2>3, <2>4, <2>5
<1>2. ASSUME UNCHANGED <<pc, via, held, loopOf, client>>,
             OnlyCurrent', HasCookies', NotStarted', Armed',
             \A l \in Loops : refresh[l] \in Firing => refresh'[l] \in Firing
      PROVE  Orderly'
  BY <1>2 DEF Orderly, HeldIsCurrent, LoopFires, CoreTyped, CallsTyped
<1>3. CASE Connected(c) \/ SocketError(c) \/ DeafEnds(c)
  <2>1. UNCHANGED <<pc, via, held, loopOf, client, cookies, refresh>>
    BY <1>3 DEF Connected, SocketError, DeafEnds, procVars, refVars
  <2>2. PICK s \in Live \cup {"off"} :
          /\ conn' = [conn EXCEPT ![c] = s] /\ conn[c] # "off"
          /\ s \in Live => conn[c] \in Live
    BY <1>3 DEF Connected, SocketError, DeafEnds, Live
  <2>3. OnlyCurrent' /\ HasCookies' /\ NotStarted' /\ Armed'
    BY <1>1, <2>1, <2>2 DEF LoopArmed
  <2> QED
    BY <1>2, <2>1, <2>3
<1>4. CASE AfterPermanentError(c)
  <2>1. PICK s \in {"off"} :
          /\ UNCHANGED <<pc, via, held, loopOf, client, cookies>>
          /\ conn' = [conn EXCEPT ![c] = s] /\ conn[c] # "off"
    BY <1>4 DEF AfterPermanentError, procVars
  <2>2. OnlyCurrent' /\ HasCookies' /\ NotStarted' /\ Armed'
    BY <1>1, <2>1 DEF Live
  <2>3. \A l \in Loops : refresh[l] \in Firing => refresh'[l] \in Firing
    BY <1>4, StopRefreshKeeps DEF AfterPermanentError, CoreTyped
  <2> QED
    BY <1>2, <2>1, <2>2, <2>3
<1>5. ASSUME NEW code, PermanentError(c, code) PROVE Orderly'
  <2>1. PICK s \in {"dead"} :
          /\ UNCHANGED <<client, cookies, refresh>>
          /\ conn' = [conn EXCEPT ![c] = s] /\ conn[c] # "off"
    BY <1>5 DEF PermanentError, refVars
  <2>2. /\ OnlyCurrent' /\ HasCookies'
        /\ UNCHANGED pc => NotStarted' /\ Armed'
    BY <1>1, <2>1 DEF Live
  <2>3. CASE UNCHANGED procVars
    BY <1>2, <2>1, <2>2, <2>3 DEF procVars
  <2>4. CASE SpawnFull
    BY <2>1, <2>2, <2>4, BeginOrder DEF SpawnFull
  <2> QED
    BY <1>5, <2>3, <2>4 DEF PermanentError
<1> QED
  BY <1>3, <1>4, <1>5 DEF MetaEvent

(* So are the steps of the refresh loops, ...                              *)
LEMMA RefreshOrder ==
  ASSUME CoreTyped, CoreTyped', Orderly, Alone', NEW l \in Loops,
         RefreshBegins(l) \/ RefreshFires(l)
  PROVE  Orderly'
<1>1. CASE RefreshBegins(l)
  <2>1. /\ refresh[l] = "starting"
        /\ refresh' = [StopLoop(refresh, refreshPtr) EXCEPT ![l] = "wait"]
        /\ UNCHANGED <<pc, via, held, loopOf, client, conn, cookies>>
    BY <1>1 DEF RefreshBegins, procVars, cliVars
  <2>2. \A k \in Loops : refresh[k] \in Firing => refresh'[k] \in Firing
    BY <2>1, StopLoopKeeps DEF CoreTyped, LoopsTyped, Firing
  <2>3. refresh'[l] = "wait"
    BY <2>1, StopLoopKeeps DEF CoreTyped, LoopsTyped
  <2>4. LoopFires' /\ Armed'
    BY <2>1, <2>2, <2>3
    DEF Orderly, LoopFires, Armed, LoopArmed, CoreTyped, CallsTyped
  <2> QED
    BY <2>1, <2>4
    DEF Orderly, HeldIsCurrent, NotStarted, OnlyCurrent, HasCookies
<1>2. CASE RefreshFires(l)
  <2>1. /\ refresh'[l] = "firing" /\ Begin("full", "full", l)
        /\ UNCHANGED <<client, conn, cookies>>
    BY <1>2 DEF RefreshFires, CoreTyped, LoopsTyped, cliVars
  <2>2. OnlyCurrent' /\ HasCookies'
    BY <2>1 DEF Orderly, OnlyCurrent, HasCookies
  <2> QED
    BY <2>1, <2>2, BeginOrder
<1> QED
  BY <1>1, <1>2

(* ... and those that start a call or belong to no call.                   *)
LEMMA OtherOrder ==
  ASSUME CoreTyped, Orderly, Alone',
         \/ CallConnect \/ CallStop("disconnect") \/ CallStop("logout")
         \/ WAEvent \/ TimePasses \/ \E e \in EProcs : E2EEStep(e)
  PROVE  Orderly'
<1>0. UNCHANGED <<client, conn, cookies, refresh>>
  BY DEF CallConnect, CallStop, TimePasses, WAEvent, WAConnected,
         WADisconnected, CATRefreshError, WAPermanentError, E2EEStep,
         E2EELock, E2EEDevice, E2EERegister, E2EEPrepare, E2EEConnect,
         E2EEFailed, EPanic, cliVars, refVars
<1>1. OnlyCurrent' /\ HasCookies'
  BY <1>0 DEF Orderly, OnlyCurrent, HasCookies
<1>2. CASE CallConnect \/ CallStop("disconnect") \/ CallStop("logout")
  <2>1. \/ Begin("connect", "lock", 0) /\ client = 0
        \/ Begin("disconnect", "stop", 0)
        \/ Begin("logout", "stop", 0)
    BY <1>2 DEF CallConnect, CallStop
  <2> QED
    BY <1>0, <1>1, <2>1, BeginOrder
<1>3. CASE WAEvent \/ TimePasses \/ \E e \in EProcs : E2EEStep(e)
  <2>1. SpawnFull \/ UNCHANGED procVars
    BY <1>3
    DEF TimePasses, WAEvent, WAConnected, WADisconnected, CATRefreshError,
        WAPermanentError, E2EEStep, E2EELock, E2EEDevice, E2EERegister,
        E2EEPrepare, E2EEConnect, E2EEFailed, EPanic
  <2>2. CASE UNCHANGED procVars
    BY <1>0, <2>2, OrderFrame DEF procVars, orderVars
  <2> QED
    BY <1>0, <1>1, <2>1, <2>2, SpawnOrder
<1> QED
  BY <1>2, <1>3

(* Calls that do not overlap are orderly in every behaviour.               *)
LEMMA CallsHold == Spec => []CallInv
<1>1. Init => CallInv
  BY IdsAssumption
  DEF Init, CallInv, Orderly, Alone, HeldIsCurrent, NotStarted, OnlyCurrent,
      HasCookies, LoopFires, Armed, Unstarted
<1>2. Typed /\ Typed' /\ CallInv /\ Next => CallInv'
  <2> SUFFICES ASSUME Typed, Typed', CallInv, Next, ~overlap'
               PROVE  Orderly'
    BY DEF CallInv
  <2>1. Act /\ Orderly /\ Alone' /\ CoreTyped /\ CoreTyped'
    BY NextParts, NotOverlapped DEF CallInv, Typed, CoreTyped
  <2> QED
    BY <2>1, ProcOrder, EventOrder, RefreshOrder, OtherOrder DEF Act
<1>3. CallInv /\ UNCHANGED vars => CallInv'
  BY OrderFrame DEF vars, orderVars, CallInv
<1> QED
  BY <1>1, <1>2, <1>3, TypesHold, PTL DEF Spec

(* Without two calls at once no client lives on that the login has         *)
(* forgotten: each call closes the client it drops, and connects only the  *)
(* one it has made.                                                        *)
THEOREM OrphansNeedOverlap == Spec => []OrphanNeedsOverlap
<1>1. CallInv => OrphanNeedsOverlap
  BY DEF CallInv, Orderly, OnlyCurrent, OrphanNeedsOverlap, Running
<1> QED
  BY <1>1, CallsHold, PTL

(* Without two calls at once a login whose socket is up has a refresh      *)
(* loop that has yet to fire: the loop that fires reconnects, and the      *)
(* handler that stops it belongs to the client that has just failed.       *)
THEOREM RefreshStaysArmed == Spec => []RefreshArmed
<1>1. CallInv => RefreshArmed
  <2> SUFFICES ASSUME CallInv, Quiet, ~overlap, client # 0,
                      conn[client] = "up"
               PROVE  LoopArmed
    BY DEF RefreshArmed, LoopArmed
  <2> QED
    BY DEF CallInv, Orderly, Armed, Quiet, Live
<1> QED
  BY <1>1, CallsHold, PTL

-----------------------------------------------------------------------------
(* The E2EE goroutines.                                                    *)

Connecting == {"device", "register", "prepare", "connect"}
Raced == dropped \/ overlap

(* One goroutine at a time is past the lock, and there is no E2EE client   *)
(* until it makes one.                                                     *)
LockHeld ==
  \A e \in EProcs : epc[e] \in Connecting =>
    /\ elock = e
    /\ e2ee = "nil" \/ (epc[e] = "connect" /\ e2ee = "new")

(* Its copy of the device is forgotten when it leaves.                     *)
CopyOfHolder ==
  \A e \in EProcs :
    edev[e] # "nil" => epc[e] \in {"register", "prepare", "connect"}

(* A client, an E2EE client or a device that a goroutine has seen and that *)
(* is gone was dropped.                                                    *)
ClientGone == (EBusy \/ e2ee # "nil") /\ client = 0 => Raced
E2EEGone ==
  \A e \in EProcs : epc[e] = "connect" /\ e2ee = "nil" => Raced
DeviceGone ==
  \A e \in EProcs : epc[e] = "register" /\ device = "nil" => Raced

(* A device without an ID is being registered, or that has failed.         *)
NewIsRegistering ==
  device = "new" => regFailed \/ \E e \in EProcs : epc[e] = "register"
CopyIsFailed ==
  \A e \in EProcs :
    epc[e] \in {"prepare", "connect"} /\ edev[e] = "new" => regFailed

E2EEInv ==
  /\ LockHeld /\ CopyOfHolder /\ ClientGone /\ E2EEGone /\ DeviceGone
  /\ NewIsRegistering /\ CopyIsFailed /\ PanicNeedsRace

(* The history variables keep what has happened as long as it matters.     *)
LEMMA RacedKept ==
  ASSUME History, EBusy' \/ e2ee' # "nil",
         \/ Raced
         \/ client # 0 /\ client' = 0
         \/ \E p \in Procs : pc[p] = "drop" /\ pc'[p] # "drop"
  PROVE  Raced'
  BY DEF History, Raced

(* A failed registration is remembered until the device goes.              *)
LEMMA FailedKept ==
  ASSUME History, NewDevice',
         \/ regFailed
         \/ \E e \in EProcs : epc[e] = "register" /\ epc'[e] = "failed"
  PROVE  regFailed'
  BY DEF History

(* Only a call that drops the client makes it go.                          *)
LEMMA ClientGoneKept ==
  ASSUME ClientTyped, E2EETyped, CallInv, ClientGone, Act, History
  PROVE  ClientGone'
<1> SUFFICES ASSUME EBusy' \/ e2ee' # "nil", client' = 0, client = 0
             PROVE  Raced'
  BY RacedKept DEF ClientGone
<1>1. CASE EBusy \/ e2ee # "nil"
  BY <1>1, RacedKept DEF ClientGone
<1>2. CASE ~EBusy /\ e2ee = "nil"
  <2>1. ~(\E e \in EProcs : E2EEStep(e)) /\ ~WAEvent
    BY <1>2
    DEF EBusy, E2EEStep, E2EELock, E2EEDevice, E2EERegister, E2EEPrepare,
        E2EEConnect, E2EEFailed, WAEvent, WAConnected, WADisconnected,
        CATRefreshError, WAPermanentError
  <2>2. PICK c \in Clients : Connected(c)
    BY <1>2, <2>1, E2EEMoves DEF E2EEMove, DropClient, EBusy
  <2>3. conn[c] # "off"
    BY <2>2 DEF Connected
  <2>4. overlap
    BY <2>3, IdsAssumption DEF CallInv, Orderly, OnlyCurrent
  <2> QED
    BY <2>4 DEF History, Raced
<1> QED
  BY <1>1, <1>2

(* Every place that can panic has read a pointer that was dropped, or a    *)
(* device that was not registered.                                         *)
LEMMA PanicRaced ==
  ASSUME E2EETyped, E2EEInv, panic = "none", Act, History
  PROVE  PanicNeedsRace'
<1>1. CASE panic' = panic
  BY <1>1 DEF PanicNeedsRace
<1>2. ASSUME NEW e \in EProcs, NEW what, EPanic(e, what),
             epc[e] \in Connecting, Raced, what # "noDeviceID"
      PROVE  PanicNeedsRace'
  <2>1. EBusy'
    BY <1>2 DEF EPanic, EBusy, e2Vars, Connecting
  <2>2. Raced'
    BY <1>2, <2>1, RacedKept
  <2> QED
    BY <1>2, <2>2 DEF PanicNeedsRace, Raced, EPanic
<1>3. ASSUME NEW e \in EProcs, E2EEDevice(e), client = 0,
             EPanic(e, "nilClient")
      PROVE  PanicNeedsRace'
  <2>1. epc[e] = "device" /\ EBusy
    BY <1>3 DEF E2EEDevice, EBusy
  <2>2. Raced
    BY <1>3, <2>1 DEF E2EEInv, ClientGone
  <2> QED
    BY <1>2, <1>3, <2>1, <2>2 DEF Connecting
<1>4. ASSUME NEW e \in EProcs, E2EERegister(e), device = "nil",
             EPanic(e, "nilDevice")
      PROVE  PanicNeedsRace'
  <2>1. epc[e] = "register" /\ Raced
    BY <1>4 DEF E2EERegister, E2EEInv, DeviceGone
  <2> QED
    BY <1>2, <1>4, <2>1 DEF Connecting
<1>5. ASSUME NEW e \in EProcs, E2EEConnect(e), e2ee = "nil",
             EPanic(e, "nilE2EE")
      PROVE  PanicNeedsRace'
  <2>1. epc[e] = "connect" /\ Raced
    BY <1>5 DEF E2EEConnect, E2EEInv, E2EEGone
  <2> QED
    BY <1>2, <1>5, <2>1 DEF Connecting
<1>6. ASSUME NEW e \in EProcs, E2EEConnect(e), edev[e] = "new",
             EPanic(e, "noDeviceID")
      PROVE  PanicNeedsRace'
  <2>1. regFailed
    BY <1>6 DEF E2EEConnect, E2EEInv, CopyIsFailed
  <2>2. NewDevice'
    BY <1>6 DEF EPanic, NewDevice, e2Vars
  <2>3. regFailed'
    BY <2>1, <2>2, FailedKept
  <2> QED
    BY <1>6, <2>3 DEF PanicNeedsRace, EPanic
<1> QED
  BY <1>1, <1>3, <1>4, <1>5, <1>6, PanicMoves

(* What has to be shown for the other parts of E2EEInv, one goroutine at a *)
(* time.                                                                   *)
Rest == /\ LockHeld /\ CopyOfHolder /\ E2EEGone /\ DeviceGone
        /\ NewIsRegistering /\ CopyIsFailed

(* Steps that touch nothing that Rest is about.                            *)
LEMMA RestFrame ==
  ASSUME Rest, History, UNCHANGED <<epc, elock, edev, device, e2ee>>
  PROVE  Rest'
<1>1. LockHeld' /\ CopyOfHolder'
  BY DEF Rest, LockHeld, CopyOfHolder
<1>2. E2EEGone' /\ DeviceGone'
  BY RacedKept DEF Rest, E2EEGone, DeviceGone, EBusy
<1>3. NewIsRegistering'
  BY FailedKept DEF Rest, NewIsRegistering, NewDevice
<1>4. CopyIsFailed'
  BY FailedKept DEF Rest, CopyIsFailed, NewDevice
<1> QED
  BY <1>1, <1>2, <1>3, <1>4 DEF Rest

(* Dropping the client leaves a trace.                                     *)
LEMMA DropRest ==
  ASSUME CallsTyped, E2EETyped, Rest, History, NEW p \in Procs, DropClient(p)
  PROVE  Rest'
<1>1. /\ pc[p] = "drop" /\ pc'[p] # "drop"
      /\ e2ee' = "nil" /\ device' \in {device, "nil"}
      /\ UNCHANGED <<epc, elock, edev>>
  BY DEF DropClient, CallsTyped
<1>2. EBusy' => Raced'
  BY <1>1, RacedKept
<1>3. LockHeld' /\ CopyOfHolder'
  BY <1>1 DEF Rest, LockHeld, CopyOfHolder
<1>4. E2EEGone' /\ DeviceGone'
  BY <1>1, <1>2 DEF E2EEGone, DeviceGone, EBusy
<1>5. NewIsRegistering' /\ CopyIsFailed'
  BY <1>1, FailedKept DEF Rest, NewIsRegistering, CopyIsFailed, NewDevice
<1> QED
  BY <1>3, <1>4, <1>5 DEF Rest

(* go m.tryConnectE2EE()                                                   *)
LEMMA SpawnRest ==
  ASSUME E2EETyped, Rest, History, SpawnE2EE, UNCHANGED <<elock, edev>>,
         \/ UNCHANGED <<device, e2ee>>
         \/ e2ee \in {"up", "down"} /\ e2ee' = "nil" /\ device' = "nil"
  PROVE  Rest'
<1>1. PICK f \in EProcs : epc[f] = "idle"
                          /\ epc' = [epc EXCEPT ![f] = "lock"]
  BY DEF SpawnE2EE, EFree
<1>2. \A e \in EProcs : \/ epc'[e] = epc[e]
                        \/ epc[e] = "idle" /\ epc'[e] = "lock"
  BY <1>1 DEF E2EETyped
<1>3. LockHeld' /\ CopyOfHolder'
  BY <1>2 DEF Rest, LockHeld, CopyOfHolder, Connecting
<1>4. CASE UNCHANGED <<device, e2ee>>
  <2>1. E2EEGone' /\ DeviceGone'
    BY <1>2, <1>4, RacedKept DEF Rest, E2EEGone, DeviceGone, EBusy
  <2>2. NewIsRegistering' /\ CopyIsFailed'
    BY <1>2, <1>4, FailedKept
    DEF Rest, NewIsRegistering, CopyIsFailed, NewDevice
  <2> QED
    BY <1>3, <2>1, <2>2 DEF Rest
<1>5. CASE e2ee \in {"up", "down"} /\ e2ee' = "nil" /\ device' = "nil"
  <2>1. \A e \in EProcs : epc'[e] \notin Connecting
    BY <1>2, <1>5 DEF Rest, LockHeld, Connecting
  <2>2. E2EEGone' /\ DeviceGone' /\ NewIsRegistering' /\ CopyIsFailed'
    BY <1>5, <2>1
    DEF E2EEGone, DeviceGone, NewIsRegistering, CopyIsFailed, Connecting
  <2> QED
    BY <1>3, <2>2 DEF Rest
<1> QED
  BY <1>4, <1>5

(* The events of the WhatsApp client keep Rest, ...                        *)
LEMMA WARest ==
  ASSUME E2EETyped, Rest, History, WAEvent
  PROVE  Rest'
<1>0. /\ e2ee \in {"up", "down"} /\ UNCHANGED <<elock, edev>>
      /\ \A e \in EProcs : epc[e] \notin Connecting
  BY DEF WAEvent, WAConnected, WADisconnected, CATRefreshError,
         WAPermanentError, Rest, LockHeld, e2Vars
<1>1. CASE SpawnE2EE /\ e2ee' = "nil" /\ device' = "nil"
  BY <1>0, <1>1, SpawnRest
<1>2. CASE /\ UNCHANGED epc
           /\ device' \in {device, "nil"}
  <2>1. LockHeld' /\ CopyOfHolder' /\ E2EEGone' /\ DeviceGone'
        /\ CopyIsFailed'
    BY <1>0, <1>2
    DEF Rest, LockHeld, CopyOfHolder, E2EEGone, DeviceGone, CopyIsFailed,
        Connecting
  <2>2. NewIsRegistering'
    BY <1>0, <1>2, FailedKept DEF Rest, NewIsRegistering, NewDevice
  <2> QED
    BY <2>1, <2>2 DEF Rest
<1>3. \/ UNCHANGED epc /\ device' \in {device, "nil"}
      \/ SpawnE2EE /\ e2ee' = "nil" /\ device' = "nil"
  BY DEF WAEvent, WAConnected, WADisconnected, CATRefreshError,
         WAPermanentError, e2Vars
<1> QED
  BY <1>1, <1>2, <1>3

(* tryConnectE2EE, by the goroutine that holds the lock: the others are    *)
(* not past it and have no device.                                         *)
LEMMA HolderOnly ==
  ASSUME Rest, NEW e \in EProcs, epc[e] \in Connecting
  PROVE  \A f \in EProcs \ {e} : epc[f] \notin Connecting /\ edev[f] = "nil"
<1>1. \A f \in EProcs \ {e} : epc[f] \notin Connecting
  BY DEF Rest, LockHeld
<1> QED
  BY <1>1 DEF Rest, CopyOfHolder, Connecting

(* The goroutine leaves, and the device in memory is one with an ID or the *)
(* one it failed to register.                                              *)
LEMMA LeaveRest ==
  ASSUME E2EETyped, Rest, History, NEW e \in EProcs,
         epc[e] \in Connecting \/ (epc[e] = "lock" /\ elock = None),
         NEW step \in {"idle", "failed"}, ELeave(e, step),
         device' \in {device, "registered"},
         epc[e] = "register" => step = "failed"
  PROVE  Rest'
<1>1. \A f \in EProcs \ {e} : epc[f] \notin Connecting /\ edev[f] = "nil"
  <2>1. CASE elock = None
    BY <2>1, ProcsAssumption DEF Rest, LockHeld, CopyOfHolder, Connecting
  <2> QED
    BY <2>1, HolderOnly
<1>2. /\ epc'[e] = step /\ edev'[e] = "nil"
      /\ \A f \in EProcs \ {e} : epc'[f] = epc[f] /\ edev'[f] = edev[f]
  BY DEF ELeave, E2EETyped
<1>3. \A f \in EProcs : epc'[f] \notin Connecting /\ edev'[f] = "nil"
  BY <1>1, <1>2 DEF Connecting
<1>4. /\ LockHeld' /\ CopyOfHolder' /\ E2EEGone' /\ DeviceGone'
      /\ CopyIsFailed'
  BY <1>3
  DEF LockHeld, CopyOfHolder, E2EEGone, DeviceGone, CopyIsFailed, Connecting
<1>5. NewIsRegistering'
  <2> SUFFICES ASSUME device' = "new" PROVE regFailed'
    BY DEF NewIsRegistering
  <2>1. device = "new" /\ NewDevice'
    BY DEF NewDevice
  <2>2. regFailed \/ epc[e] = "register"
    BY <1>1, <2>1 DEF Rest, NewIsRegistering, Connecting
  <2> QED
    BY <1>2, <2>1, <2>2, FailedKept
<1> QED
  BY <1>4, <1>5 DEF Rest

(* The goroutine goes on.                                                  *)
LEMMA LockRest ==
  ASSUME E2EETyped, Rest, History, NEW e \in EProcs, E2EELock(e)
  PROVE  Rest'
<1>0. epc[e] = "lock" /\ elock = None /\ UNCHANGED <<device, e2ee>>
  BY DEF E2EELock
<1>1. CASE e2ee # "nil"
  BY <1>0, <1>1, LeaveRest DEF E2EELock
<1>2. CASE e2ee = "nil"
  <2>1. /\ elock' = e /\ epc' = [epc EXCEPT ![e] = "device"]
        /\ UNCHANGED edev
    BY <1>2 DEF E2EELock
  <2>2. /\ epc'[e] = "device"
        /\ \A f \in EProcs \ {e} : epc'[f] = epc[f]
        /\ \A f \in EProcs : epc[f] \notin Connecting
    BY <1>0, <2>1, ProcsAssumption DEF E2EETyped, Rest, LockHeld
  <2>3. LockHeld' /\ CopyOfHolder' /\ E2EEGone' /\ DeviceGone'
        /\ CopyIsFailed'
    BY <1>0, <1>2, <2>1, <2>2
    DEF Rest, LockHeld, CopyOfHolder, E2EEGone, DeviceGone, CopyIsFailed,
        Connecting
  <2>4. NewIsRegistering'
    BY <1>0, <2>2, FailedKept
    DEF Rest, NewIsRegistering, NewDevice, Connecting
  <2> QED
    BY <2>3, <2>4 DEF Rest
<1> QED
  BY <1>1, <1>2

(* ... and so do the steps of connectE2EE, one by one: it gets or makes    *)
(* its device, ...                                                         *)
LEMMA DeviceRest ==
  ASSUME E2EETyped, Rest, History, NEW e \in EProcs, E2EEDevice(e)
  PROVE  Rest'
<1>0. epc[e] = "device" /\ epc[e] \in Connecting
  BY DEF E2EEDevice, Connecting
<1>1. CASE ELeave(e, "failed") /\ UNCHANGED device
  BY <1>0, <1>1, LeaveRest
<1>2. CASE EPanic(e, "nilClient")
  BY <1>2, RestFrame DEF EPanic, e2Vars
<1>3. ASSUME NEW d \in DeviceStates, device # "nil" => d = device,
             d # "nil", device' = d,
             edev' = [edev EXCEPT ![e] = d],
             epc' = [epc EXCEPT ![e] = IF device = "nil" /\ d = "new"
                                       THEN "register" ELSE "prepare"],
             UNCHANGED <<elock, e2ee>>
      PROVE  Rest'
  <2>1. /\ edev'[e] = d
        /\ epc'[e] = IF device = "nil" /\ d = "new"
                     THEN "register" ELSE "prepare"
        /\ \A f \in EProcs \ {e} : epc'[f] = epc[f] /\ edev'[f] = edev[f]
    BY <1>3 DEF E2EETyped
  <2>2. \A f \in EProcs \ {e} :
          epc'[f] \notin Connecting /\ edev'[f] = "nil"
    BY <1>0, <2>1, HolderOnly
  <2>3. LockHeld' /\ CopyOfHolder' /\ E2EEGone' /\ DeviceGone'
    BY <1>0, <1>3, <2>1, <2>2
    DEF Rest, LockHeld, CopyOfHolder, E2EEGone, DeviceGone, Connecting
  <2>4. CASE epc'[e] = "register"
    BY <2>2, <2>3, <2>4
    DEF Rest, NewIsRegistering, CopyIsFailed, Connecting
  <2>5. CASE epc'[e] # "register" /\ d = "new"
    <3>1. device = "new" /\ NewDevice'
      BY <1>3, <2>1, <2>5 DEF NewDevice
    <3>2. regFailed
      BY <1>0, <3>1, HolderOnly DEF Rest, NewIsRegistering, Connecting
    <3>3. regFailed'
      BY <3>1, <3>2, FailedKept
    <3> QED
      BY <2>3, <3>3 DEF Rest, NewIsRegistering, CopyIsFailed
  <2>6. CASE d # "new"
    BY <1>3, <2>1, <2>2, <2>3, <2>6
    DEF Rest, NewIsRegistering, CopyIsFailed, Connecting
  <2> QED
    BY <2>4, <2>5, <2>6
<1>4. \A d \in (IF device # "nil" THEN {device}
               ELSE {"new"} \cup {x \in {"registered"} : deviceID}) :
        d \in DeviceStates /\ d # "nil" /\ (device # "nil" => d = device)
  BY DEF E2EETyped, DeviceStates
<1> QED
  BY <1>1, <1>2, <1>3, <1>4 DEF E2EEDevice

(* ... registers it, ...                                                   *)
LEMMA RegisterRest ==
  ASSUME E2EETyped, Rest, History, NEW e \in EProcs, E2EERegister(e)
  PROVE  Rest'
<1>0. epc[e] = "register" /\ epc[e] \in Connecting
  BY DEF E2EERegister, Connecting
<1>1. CASE ELeave(e, "failed") /\ device' \in {device, "registered"}
  BY <1>0, <1>1, LeaveRest
<1>2. CASE EPanic(e, "nilDevice")
  BY <1>2, RestFrame DEF EPanic, e2Vars
<1>3. CASE /\ edev' = [edev EXCEPT ![e] = "registered"]
           /\ device' = "registered"
           /\ epc' = [epc EXCEPT ![e] = "prepare"]
           /\ UNCHANGED <<elock, e2ee>>
  <2>1. /\ edev'[e] = "registered" /\ epc'[e] = "prepare"
        /\ \A f \in EProcs \ {e} : epc'[f] = epc[f] /\ edev'[f] = edev[f]
    BY <1>3 DEF E2EETyped
  <2>2. \A f \in EProcs \ {e} :
          epc'[f] \notin Connecting /\ edev'[f] = "nil"
    BY <1>0, <2>1, HolderOnly
  <2> QED
    BY <1>0, <1>3, <2>1, <2>2
    DEF Rest, LockHeld, CopyOfHolder, E2EEGone, DeviceGone,
        NewIsRegistering, CopyIsFailed, Connecting
<1> QED
  BY <1>1, <1>2, <1>3 DEF E2EERegister

(* ... makes the client, ...                                               *)
LEMMA PrepareRest ==
  ASSUME E2EETyped, Rest, History, NEW e \in EProcs, E2EEPrepare(e)
  PROVE  Rest'
<1>0. epc[e] = "prepare" /\ epc[e] \in Connecting /\ UNCHANGED device
  BY DEF E2EEPrepare, Connecting
<1>1. CASE ELeave(e, "failed")
  BY <1>0, <1>1, LeaveRest
<1>2. CASE e2ee' = "new" /\ epc' = [epc EXCEPT ![e] = "connect"]
           /\ UNCHANGED <<elock, edev>>
  <2>1. /\ epc'[e] = "connect"
        /\ \A f \in EProcs \ {e} : epc'[f] = epc[f]
    BY <1>2 DEF E2EETyped
  <2>2. \A f \in EProcs \ {e} :
          epc'[f] \notin Connecting /\ edev'[f] = "nil"
    BY <1>0, <1>2, <2>1, HolderOnly
  <2>3. LockHeld' /\ CopyOfHolder' /\ E2EEGone' /\ DeviceGone'
    BY <1>0, <1>2, <2>1, <2>2
    DEF Rest, LockHeld, CopyOfHolder, E2EEGone, DeviceGone, Connecting
  <2>4. NewIsRegistering'
    <3>1. device' = "new" => regFailed /\ NewDevice'
      BY <1>0, HolderOnly DEF Rest, NewIsRegistering, Connecting, NewDevice
    <3> QED
      BY <3>1, FailedKept DEF NewIsRegistering
  <2>5. CopyIsFailed'
    <3>1. edev'[e] = "new" => regFailed /\ NewDevice'
      BY <1>0, <1>2 DEF Rest, CopyIsFailed, NewDevice
    <3> QED
      BY <2>2, <3>1, FailedKept DEF CopyIsFailed, Connecting
  <2> QED
    BY <2>3, <2>4, <2>5 DEF Rest
<1> QED
  BY <1>1, <1>2 DEF E2EEPrepare

(* ... connects it, ...                                                    *)
LEMMA ConnectRest ==
  ASSUME E2EETyped, Rest, History, NEW e \in EProcs, E2EEConnect(e)
  PROVE  Rest'
<1>0. epc[e] = "connect" /\ epc[e] \in Connecting
  BY DEF E2EEConnect, Connecting
<1>1. CASE EPanic(e, "nilE2EE") \/ EPanic(e, "noDeviceID")
  BY <1>1, RestFrame DEF EPanic, e2Vars
<1>2. CASE (ELeave(e, "idle") \/ ELeave(e, "failed")) /\ UNCHANGED device
  BY <1>0, <1>2, LeaveRest
<1> QED
  BY <1>1, <1>2 DEF E2EEConnect

(* ... or reports that it failed.                                          *)
LEMMA FailedRest ==
  ASSUME E2EETyped, Rest, History, NEW e \in EProcs, E2EEFailed(e)
  PROVE  Rest'
<1>0. /\ epc[e] = "failed" /\ epc' = [epc EXCEPT ![e] = "idle"]
      /\ UNCHANGED <<elock, edev, device, e2ee>>
  BY DEF E2EEFailed
<1>1. \A f \in EProcs : \/ epc'[f] = epc[f]
                        \/ epc[f] = "failed" /\ epc'[f] = "idle"
  BY <1>0 DEF E2EETyped
<1>2. LockHeld' /\ CopyOfHolder'
  BY <1>0, <1>1 DEF Rest, LockHeld, CopyOfHolder, Connecting
<1>3. E2EEGone' /\ DeviceGone'
  BY <1>0, <1>1, RacedKept DEF Rest, E2EEGone, DeviceGone, EBusy
<1>4. NewIsRegistering'
  BY <1>0, <1>1, FailedKept DEF Rest, NewIsRegistering, NewDevice
<1>5. CopyIsFailed'
  BY <1>0, <1>1, FailedKept DEF Rest, CopyIsFailed, NewDevice
<1> QED
  BY <1>2, <1>3, <1>4, <1>5 DEF Rest

(* The invariant holds in every behaviour.                                 *)
LEMMA E2EEHolds == Spec => []E2EEInv
<1>1. Init => E2EEInv
  BY DEF Init, E2EEInv, LockHeld, CopyOfHolder, ClientGone, EBusy, E2EEGone,
         DeviceGone, NewIsRegistering, CopyIsFailed, PanicNeedsRace,
         Connecting
<1>2. Typed /\ CallInv /\ E2EEInv /\ Next => E2EEInv'
  <2> SUFFICES ASSUME Typed, CallInv, E2EEInv, Next PROVE E2EEInv'
    OBVIOUS
  <2>1. /\ panic = "none" /\ Act /\ History /\ Rest /\ ClientGone
        /\ CallsTyped /\ ClientTyped /\ E2EETyped
    BY NextParts DEF E2EEInv, Rest, Typed
  <2>2. ClientGone' /\ PanicNeedsRace'
    BY <2>1, ClientGoneKept, PanicRaced
  <2>3. Rest'
    <3>1. CASE UNCHANGED <<epc, elock, eheld, edev, device, e2ee>>
      BY <2>1, <3>1, RestFrame
    <3>2. ASSUME NEW c \in Clients, Connected(c) PROVE Rest'
      <4>1. (SpawnE2EE \/ UNCHANGED epc)
            /\ UNCHANGED <<elock, edev, device, e2ee>>
        BY <3>2 DEF Connected
      <4> QED
        BY <2>1, <4>1, SpawnRest, RestFrame
    <3>3. ASSUME NEW e \in EProcs, E2EEStep(e) PROVE Rest'
      BY <2>1, <3>3, LockRest, DeviceRest, RegisterRest, PrepareRest,
         ConnectRest, FailedRest
      DEF E2EEStep
    <3> QED
      BY <2>1, <3>1, <3>2, <3>3, E2EEMoves, DropRest, WARest DEF E2EEMove
  <2> QED
    BY <2>2, <2>3 DEF E2EEInv, Rest
<1>3. E2EEInv /\ UNCHANGED vars => E2EEInv'
  BY DEF vars, E2EEInv, LockHeld, CopyOfHolder, ClientGone, EBusy, E2EEGone,
         DeviceGone, NewIsRegistering, CopyIsFailed, PanicNeedsRace, Raced
<1> QED
  BY <1>1, <1>2, <1>3, TypesHold, CallsHold, PTL DEF Spec

(* tryConnectE2EE reads m.Client, m.E2EEClient and m.WADevice without a    *)
(* lock; for any number of these goroutines it meets a nil pointer only    *)
(* after a call has dropped the client under it or calls have overlapped,  *)
(* and a device without an ID only after a registration has failed.        *)
THEOREM PanicsNeedRace == Spec => []PanicNeedsRace
<1>1. E2EEInv => PanicNeedsRace
  BY DEF E2EEInv
<1> QED
  BY <1>1, E2EEHolds, PTL
=============================================================================
