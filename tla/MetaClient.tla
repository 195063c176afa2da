----------------------------- MODULE MetaClient -----------------------------
(***************************************************************************)
(* The life of one login (pkg/connector/client.go): Connect with its       *)
(* retries, FullReconnect, Disconnect and LogoutRemote, the periodic       *)
(* refresh, the second (WhatsApp) connection that Messenger accounts open  *)
(* for encrypted chats, and the state stored for each of the two.  (How a  *)
(* stored state is merged and shown is the subject of BridgeStates.)       *)
(*                                                                         *)
(* Every goroutine is a process: "pc" for those that run Connect,          *)
(* FullReconnect, Disconnect or LogoutRemote, "epc" for those that run     *)
(* tryConnectE2EE, "refresh" for the periodicReconnect loops, and the      *)
(* connection loop of each messagix client ("conn", module SocketLoop has  *)
(* its detail).  Identities of goroutines and clients are reused once they *)
(* are gone, so nothing but their number at one time is bounded.           *)
(***************************************************************************)
EXTENDS ConnectionStates

CONSTANTS Procs,       \* goroutines that connect or disconnect
          EProcs,      \* goroutines that connect the E2EE client
          None,        \* no goroutine
          Clients,     \* identities of messagix clients, 1..n
          Loops,       \* identities of periodicReconnect loops, 1..n
          MaxRetries,  \* MaxConnectRetries; 10 in the code
          MaxCalls     \* bound: calls that connect or disconnect

ASSUME ProcsAssumption == None \notin Procs \cup EProcs
ASSUME IdsAssumption == Clients \cup Loops \subseteq Nat \ {0}
ASSUME RetriesAssumption == MaxRetries \in Nat
ASSUME CallsAssumption == MaxCalls \in Nat

VARIABLES
  pc, via,     \* step of each goroutine, and what it was called to do
  held,        \* the client its disconnect is closing
  tries,       \* its argument attempts
  cancelled,   \* its retryCtx has been cancelled
  lock,        \* who holds connectLock
  attempt,     \* whose cancel function stopConnectAttempt points to
  client,      \* m.Client; 0 is nil
  conn,        \* connection loop of each messagix client
  warm,        \* the client was loaded from saved state
  cookies,     \* LoginMeta.Cookies is set
  saved,       \* a reconnection state is stored
  recent,      \* the last full reconnect was less than the interval ago
  refresh, refreshPtr, \* periodicReconnect loops; stopPeriodicReconnect
  loopOf,      \* the loop that waits for this goroutine's FullReconnect
  epc, elock, eheld, edev, \* E2EE goroutines, their lock and locals
  device,      \* m.WADevice: "nil", "new" or "registered"
  deviceID,    \* LoginMeta.WADeviceID is set
  e2ee,        \* m.E2EEClient: "nil" or the state of its connection
  firstDone,   \* firstE2EEConnectDone
  calls,       \* calls made so far
  panic,       \* a nil pointer was dereferenced, and which
  overlap, regFailed, dropped \* history, see the properties

procVars == <<pc, via, held, tries, cancelled, lock, attempt, loopOf,
              calls>>
cliVars == <<client, conn, warm, cookies, saved>>
refVars == <<refresh, refreshPtr, recent>>
e2Vars == <<epc, elock, eheld, edev, device, deviceID, e2ee, firstDone>>
stVars == <<metaState, waState>>
vars == <<pc, via, held, tries, cancelled, lock, attempt, loopOf, client,
          conn, warm, cookies, saved, refresh, refreshPtr, recent, epc,
          elock, eheld, edev, device, deviceID, e2ee, firstDone, metaState,
          waState, calls, panic, overlap, regFailed, dropped>>

Steps == {"idle", "full", "stop", "drop", "lock", "ensure", "sleep", "page",
          "start", "startWarm", "unlock"}
Jobs == {"connect", "full", "disconnect", "logout"}
ESteps == {"idle", "lock", "device", "register", "prepare", "connect",
           "failed"}
Running == {"dialing", "up", "down", "deaf"}
Panics == {"none", "nilClient", "nilE2EE", "nilDevice", "noDeviceID"}

TypeOK ==
  /\ pc \in [Procs -> Steps] /\ via \in [Procs -> Jobs]
  /\ held \in [Procs -> Clients \cup {0}]
  /\ tries \in [Procs -> 0..MaxRetries]
  /\ cancelled \in [Procs -> BOOLEAN]
  /\ lock \in Procs \cup {None} /\ attempt \in Procs \cup {None}
  /\ loopOf \in [Procs -> Loops \cup {0}]
  /\ client \in Clients \cup {0}
  /\ conn \in [Clients -> Running \cup {"off", "dead"}]
  /\ warm \in [Clients -> BOOLEAN]
  /\ cookies \in BOOLEAN /\ saved \in BOOLEAN /\ recent \in BOOLEAN
  /\ refresh \in [Loops -> {"off", "starting", "wait", "firing",
                            "firingStopped", "spent"}]
  /\ refreshPtr \in Loops \cup {0}
  /\ epc \in [EProcs -> ESteps] /\ elock \in EProcs \cup {None}
  /\ eheld \in [EProcs -> Clients \cup {0}]
  /\ edev \in [EProcs -> {"nil", "new", "registered"}]
  /\ device \in {"nil", "new", "registered"} /\ deviceID \in BOOLEAN
  /\ e2ee \in {"nil", "new", "up", "down", "dead"}
  /\ firstDone \in BOOLEAN
  /\ metaState \in Events /\ waState \in Events
  /\ calls \in 0..MaxCalls
  /\ panic \in Panics
  /\ overlap \in BOOLEAN /\ regFailed \in BOOLEAN /\ dropped \in BOOLEAN

(* LoadUserLogin: nothing is connected and no state has been set; the      *)
(* database may hold a device and a reconnection state.                    *)
Init ==
  /\ pc = [p \in Procs |-> "idle"] /\ via = [p \in Procs |-> "connect"]
  /\ held = [p \in Procs |-> 0] /\ tries = [p \in Procs |-> 0]
  /\ cancelled = [p \in Procs |-> FALSE]
  /\ lock = None /\ attempt = None /\ loopOf = [p \in Procs |-> 0]
  /\ client = 0 /\ conn = [c \in Clients |-> "off"]
  /\ warm = [c \in Clients |-> FALSE]
  /\ cookies = TRUE /\ recent = FALSE
  /\ saved \in BOOLEAN /\ deviceID \in BOOLEAN
  /\ refresh = [l \in Loops |-> "off"] /\ refreshPtr = 0
  /\ epc = [e \in EProcs |-> "idle"] /\ elock = None
  /\ eheld = [e \in EProcs |-> 0] /\ edev = [e \in EProcs |-> "nil"]
  /\ device = "nil" /\ e2ee = "nil" /\ firstDone = FALSE
  /\ metaState = Unset /\ waState = Unset
  /\ calls = 0 /\ panic = "none" /\ overlap = FALSE /\ regFailed = FALSE
  /\ dropped = FALSE

-----------------------------------------------------------------------------
(* The two states.                                                         *)

(* BridgeState.Send of a state that is not stored.                         *)
Send(s) == s \in Events /\ UNCHANGED stVars

(* A state is stored, and sent.                                            *)
SetMeta(s) == metaState' = s /\ UNCHANGED waState
SetWA(s) == waState' = s /\ UNCHANGED metaState

ResetStates == metaState' = Unset /\ waState' = Unset

-----------------------------------------------------------------------------
(* Helpers.                                                                *)

Goto(p, step) == pc' = [pc EXCEPT ![p] = step]

canReconnect == ~recent /\ cookies

(* A goroutine begins a call.                                              *)
Begin(job, step, l) ==
  \E p \in Procs :
    /\ pc[p] = "idle" /\ calls < MaxCalls
    /\ pc' = [pc EXCEPT ![p] = step]
    /\ via' = [via EXCEPT ![p] = job]
    /\ loopOf' = [loopOf EXCEPT ![p] = l]
    /\ calls' = calls + 1
    /\ UNCHANGED <<held, tries, cancelled, lock, attempt>>

(* go m.FullReconnect()                                                    *)
SpawnFull == Begin("full", "full", 0)

(* The goroutine ends.  FullReconnect notes its time if it got past the    *)
(* check for cookies; the loop that called it waits again, for its context *)
(* alone, because its timer fires only once.                               *)
Return(p, done) ==
  /\ pc' = [pc EXCEPT ![p] = "idle"]
  /\ via' = [via EXCEPT ![p] = "connect"]
  /\ recent' = (recent \/ (done /\ via[p] = "full"))
  /\ refresh' = IF loopOf[p] = 0 THEN refresh
                ELSE [refresh EXCEPT ![loopOf[p]] =
                        IF @ = "firingStopped" THEN "off" ELSE "spent"]
  /\ loopOf' = [loopOf EXCEPT ![p] = 0]

EBusy == \E e \in EProcs : epc[e] # "idle"
EFree == {e \in EProcs : epc[e] = "idle"}
(* go m.tryConnectE2EE()                                                   *)
SpawnE2EE == \E e \in EFree : epc' = [epc EXCEPT ![e] = "lock"]

(* A loop whose context is cancelled returns, unless it is inside          *)
(* FullReconnect: then it returns after that.                              *)
StopLoop(f, l) ==
  IF l = 0 THEN f
  ELSE [f EXCEPT ![l] = IF @ \in {"firing", "firingStopped"}
                        THEN "firingStopped" ELSE "off"]

(* stopPeriodicReconnect.Swap(nil) and calling what was there.             *)
StopRefresh == /\ refresh' = StopLoop(refresh, refreshPtr)
               /\ refreshPtr' = 0

(* Disconnect is between closing a client, whose event handler it has      *)
(* removed, and dropping it.                                               *)
Closing(c) == \E p \in Procs : pc[p] = "drop" /\ held[p] = c

Least(S) == {x \in S : \A y \in S : x <= y}
FreeClient ==
  Least({c \in Clients : /\ conn[c] = "off"
                         /\ \A p \in Procs : held[p] # c
                         /\ \A e \in EProcs : eheld[e] # c})
FreeLoop == Least({l \in Loops : refresh[l] = "off"})

-----------------------------------------------------------------------------
(* Calls.                                                                  *)

(* The bridge connects a login that has no client, once at a time.         *)
CallConnect ==
  /\ client = 0 /\ \A q \in Procs : pc[q] = "idle"
  /\ Begin("connect", "lock", 0)
  /\ UNCHANGED <<cliVars, refVars, e2Vars, stVars, panic>>

CallStop(job) ==
  /\ \A q \in Procs : via[q] \notin {"disconnect", "logout"}
  /\ Begin(job, "stop", 0)
  /\ UNCHANGED <<cliVars, refVars, e2Vars, stVars, panic>>

(* FullReconnect: nothing at all without cookies.                          *)
FullReconnect(p) ==
  /\ pc[p] = "full"
  /\ IF cookies
     THEN Goto(p, "stop") /\ UNCHANGED <<via, loopOf, recent, refresh>>
     ELSE Return(p, FALSE)
  /\ UNCHANGED <<held, tries, cancelled, lock, attempt, calls, cliVars,
                 refreshPtr, e2Vars, stVars, panic>>

MutStopClient(p) ==
  /\ pc[p] = "stop"
  /\ client # 0 => conn[client] # "dead"
  /\ cancelled' = IF attempt = None THEN cancelled
                  ELSE [cancelled EXCEPT ![attempt] = TRUE]
  /\ attempt' = None
  /\ held' = [held EXCEPT ![p] = client]
  /\ Goto(p, "drop")
  /\ UNCHANGED <<calls, via, tries, lock, loopOf, client, conn, warm, cookies,
                 saved, refVars, e2Vars, stVars, panic>>

(* disconnect, first half: cancel the attempt in progress and close the    *)
(* client, which waits for its connection loop and so for a handler that   *)
(* loop is in.                                                             *)
StopClient(p) ==
  /\ pc[p] = "stop"
  /\ client # 0 => conn[client] # "dead"
  /\ cancelled' = IF attempt = None THEN cancelled
                  ELSE [cancelled EXCEPT ![attempt] = TRUE]
  /\ attempt' = None
  /\ held' = [held EXCEPT ![p] = client]
  /\ conn' = IF client = 0 THEN conn ELSE [conn EXCEPT ![client] = "off"]
  /\ warm' = IF client = 0 THEN warm ELSE [warm EXCEPT ![client] = FALSE]
  /\ Goto(p, "drop")
  /\ UNCHANGED <<calls, via, tries, lock, loopOf, client, cookies, saved,
                 refVars, e2Vars, stVars, panic>>

(* disconnect, second half, and what each caller does after it.            *)
DropClient(p) ==
  /\ pc[p] = "drop"
  /\ client' = IF held[p] = 0 THEN client ELSE 0
  /\ held' = [held EXCEPT ![p] = 0]
  /\ e2ee' = "nil"
  /\ StopRefresh
  /\ pc' = [pc EXCEPT ![p] = IF via[p] = "full" THEN "lock" ELSE "idle"]
  /\ via' = [via EXCEPT ![p] = IF @ = "full" THEN @ ELSE "connect"]
  /\ \/ /\ via[p] = "full"
        /\ saved' = FALSE
        /\ UNCHANGED <<cookies, recent, device, deviceID, stVars>>
     \/ /\ via[p] = "disconnect"
        /\ saved' \in IF held[p] = 0 THEN {saved} ELSE {saved, TRUE}
        /\ ResetStates
        /\ UNCHANGED <<cookies, recent, device, deviceID>>
     \/ /\ via[p] = "logout"
        /\ device' = "nil" /\ deviceID' = FALSE
        /\ ResetStates
        /\ cookies' = FALSE /\ recent' = FALSE
        /\ UNCHANGED saved
  /\ UNCHANGED <<tries, cancelled, lock, attempt, loopOf, calls, conn, warm,
                 epc, elock, eheld, edev, firstDone, panic>>

-----------------------------------------------------------------------------
(* Connect and connectWithRetry.                                           *)

(* TryLock fails: "Connect called multiple times in parallel".             *)
ConnectRefused(p) ==
  /\ pc[p] = "lock" /\ lock # None
  /\ Return(p, TRUE)
  /\ UNCHANGED <<held, tries, cancelled, lock, attempt, calls, cliVars,
                 refreshPtr, e2Vars, stVars, panic>>

ConnectBegins(p) ==
  /\ pc[p] = "lock" /\ lock = None
  /\ lock' = p
  /\ IF metaState = Unset /\ waState = Unset
     THEN /\ metaState' = "connecting"
          /\ waState' = IF Messenger THEN "connecting" ELSE waState
     ELSE UNCHANGED stVars
  /\ cancelled' = [q \in Procs |->
                     IF q = p THEN FALSE ELSE cancelled[q] \/ q = attempt]
  /\ attempt' = p
  /\ tries' = [tries EXCEPT ![p] = 0]
  /\ Goto(p, "ensure")
  /\ UNCHANGED <<calls, via, held, loopOf, cliVars, refVars, e2Vars, panic>>

(* ensureMessagixClient, and the choice between sleeping before a retry,   *)
(* the saved state and loading the page.  LoadState may fail, and so may   *)
(* the proxy update.                                                       *)
Ensure(p) ==
  /\ pc[p] = "ensure"
  /\ \E c \in IF cookies /\ client = 0 THEN FreeClient ELSE {client} :
       /\ client' = c
       /\ \/ c = 0 /\ Goto(p, "unlock") /\ Send("bad")
          \/ c # 0 /\ tries[p] > 0 /\ Goto(p, "sleep") /\ UNCHANGED stVars
          \/ c # 0 /\ tries[p] = 0 /\ UNCHANGED stVars
             /\ \/ Goto(p, "page")
                \/ saved /\ Goto(p, "startWarm")
          \/ c # 0 /\ tries[p] = 0 /\ Goto(p, "unlock") /\ Send("unknown")
       /\ warm' = IF pc'[p] = "startWarm" THEN [warm EXCEPT ![c] = TRUE]
                   ELSE IF c = client THEN warm
                   ELSE [warm EXCEPT ![c] = FALSE]
  /\ UNCHANGED <<calls, via, held, tries, cancelled, lock, attempt, loopOf,
                 conn, cookies, saved, refVars, e2Vars, panic>>

Sleep(p) ==
  /\ pc[p] = "sleep"
  /\ \/ Goto(p, "page")
     \/ cancelled[p] /\ Goto(p, "unlock")
  /\ UNCHANGED <<calls, via, held, tries, cancelled, lock, attempt, loopOf,
                 cliVars, refVars, e2Vars, stVars, panic>>

(* LoadMessagesPage succeeds; an attempt cancelled meanwhile ends here.    *)
PageLoaded(p) ==
  /\ pc[p] = "page"
  /\ Goto(p, IF cancelled[p] THEN "unlock" ELSE "start")
  /\ UNCHANGED <<calls, via, held, tries, cancelled, lock, attempt, loopOf,
                 cliVars, refVars, e2Vars, stVars, panic>>

(* LoadMessagesPage fails because the cookies are no longer valid.         *)
TokenInvalidated(p) ==
  /\ pc[p] = "page"
  /\ StopRefresh
  /\ Send("bad")
  /\ client' = 0 /\ cookies' = FALSE
  /\ Goto(p, "unlock")
  /\ UNCHANGED <<calls, via, held, tries, cancelled, lock, attempt, loopOf,
                 conn, warm, saved, recent, e2Vars, panic>>

(* It fails with something the user must act on (challenge, suspension,    *)
(* checkpoint, consent, error 1357053) or that is not retried.             *)
PageRefused(p, s) ==
  /\ pc[p] = "page"
  /\ s \in {"bad", "unknown"}
  /\ StopRefresh
  /\ Send(s)
  /\ Goto(p, "unlock")
  /\ UNCHANGED <<calls, via, held, tries, cancelled, lock, attempt, loopOf,
                 cliVars, recent, e2Vars, panic>>

(* It fails with an error that is worth a retry.                           *)
PageRetry(p) ==
  /\ pc[p] = "page"
  /\ StopRefresh
  /\ IF tries[p] < MaxRetries
     THEN /\ Send("transient")
          /\ tries' = [tries EXCEPT ![p] = @ + 1]
          /\ Goto(p, "ensure")
     ELSE Send("unknown") /\ UNCHANGED tries /\ Goto(p, "unlock")
  /\ UNCHANGED <<calls, via, held, cancelled, lock, attempt, loopOf, cliVars,
                 recent, e2Vars, panic>>

MutStartClient(p) ==
  /\ pc[p] \in {"start", "startWarm"}
  /\ IF client # 0 /\ conn[client] # "up"
     THEN /\ conn' = [conn EXCEPT ![client] =
                        IF Closing(client) THEN "deaf" ELSE "dialing"]
          /\ IF pc[p] = "startWarm" THEN UNCHANGED refresh
             ELSE \E l \in FreeLoop :
                    refresh' = [refresh EXCEPT ![l] = "starting"]
          /\ UNCHANGED stVars
     ELSE UNCHANGED <<conn, refresh>> /\ Send("unknown")
  /\ Goto(p, "unlock")
  /\ UNCHANGED <<calls, via, held, tries, cancelled, lock, attempt, loopOf,
                 client, warm, cookies, saved, refreshPtr, recent, e2Vars,
                 panic>>

(* connectWithTable or connectWithCache: m.Client, read again, connects,   *)
(* unless it is nil or its socket is open, and a refresh loop is started.  *)
StartClient(p) ==
  /\ pc[p] \in {"start", "startWarm"}
  /\ IF client # 0 /\ conn[client] # "up"
     THEN /\ conn' = [conn EXCEPT ![client] =
                        IF Closing(client) THEN "deaf" ELSE "dialing"]
          /\ \E l \in FreeLoop :
               refresh' = [refresh EXCEPT ![l] = "starting"]
          /\ UNCHANGED stVars
     ELSE UNCHANGED <<conn, refresh>> /\ Send("unknown")
  /\ Goto(p, "unlock")
  /\ UNCHANGED <<calls, via, held, tries, cancelled, lock, attempt, loopOf,
                 client, warm, cookies, saved, refreshPtr, recent, e2Vars,
                 panic>>

(* The own ghost cannot be loaded.                                         *)
GhostFails(p) ==
  /\ pc[p] = "start"
  /\ Send("unknown")
  /\ Goto(p, "unlock")
  /\ UNCHANGED <<calls, via, held, tries, cancelled, lock, attempt, loopOf,
                 cliVars, refVars, e2Vars, panic>>

ConnectReturns(p) ==
  /\ pc[p] = "unlock"
  /\ lock' = None
  /\ attempt' = IF attempt = p THEN None ELSE attempt
  /\ cancelled' = [cancelled EXCEPT ![p] = FALSE]
  /\ tries' = [tries EXCEPT ![p] = 0]
  /\ Return(p, TRUE)
  /\ UNCHANGED <<held, calls, cliVars, refreshPtr, e2Vars, stVars, panic>>

-----------------------------------------------------------------------------
(* periodicReconnect.                                                      *)

(* A new loop cancels the one before it.                                   *)
RefreshBegins(l) ==
  /\ refresh[l] = "starting"
  /\ refresh' = [StopLoop(refresh, refreshPtr) EXCEPT ![l] = "wait"]
  /\ refreshPtr' = l
  /\ UNCHANGED <<procVars, cliVars, recent, e2Vars, stVars, panic>>

RefreshFires(l) ==
  /\ refresh[l] = "wait"
  /\ refresh' = [refresh EXCEPT ![l] = "firing"]
  /\ Begin("full", "full", l)
  /\ UNCHANGED <<cliVars, refreshPtr, recent, e2Vars, stVars, panic>>

(* The minimum interval since the last full reconnect has passed.          *)
TimePasses ==
  /\ recent
  /\ recent' = FALSE
  /\ UNCHANGED <<procVars, cliVars, refresh, refreshPtr, e2Vars, stVars,
                 panic>>

-----------------------------------------------------------------------------
(* handleMetaEvent, called by the connection loop of client c.             *)

(* Event_Ready and Event_Reconnected: a client that was loaded from saved  *)
(* state has been connected before and never sends the first.              *)
Connected(c) ==
  /\ \/ conn[c] = "dialing"
     \/ conn[c] = "down"
  /\ conn' = [conn EXCEPT ![c] = "up"]
  /\ warm' = [warm EXCEPT ![c] = TRUE]
  /\ SetMeta("connected")
  /\ IF Messenger /\ (~warm[c] \/ ~firstDone)
     THEN firstDone' = TRUE /\ SpawnE2EE
     ELSE UNCHANGED <<firstDone, epc>>
  /\ UNCHANGED <<procVars, client, cookies, saved, refVars, elock, eheld,
                 edev, device, deviceID, e2ee, panic>>

SocketError(c) ==
  /\ conn[c] = "up"
  /\ conn' = [conn EXCEPT ![c] = "down"]
  /\ SetMeta("transient")
  /\ UNCHANGED <<procVars, client, warm, cookies, saved, refVars, e2Vars,
                 panic>>

(* Event_PermanentError: the state to set and whether a full reconnect is  *)
(* started, by the code of the refusal.  (On a bridge that is configured   *)
(* for Messenger alone an unavailable server is no bad login.)             *)
PermanentError(c, code) ==
  /\ conn[c] \in {"dialing", "down"}
  /\ conn' = [conn EXCEPT ![c] = "dead"]
  /\ LET full == code \in {"unavailable", "unknown24"} /\ canReconnect
     IN /\ \E s \in CASE code = "unauthorized" -> {"bad"}
                     [] code = "unavailable" /\ ~full ->
                          {"bad"} \cup {x \in {"unknown"} : Messenger}
                     [] OTHER -> {"unknown"} : SetMeta(s)
        /\ IF full THEN SpawnFull ELSE UNCHANGED procVars
  /\ UNCHANGED <<client, warm, cookies, saved, refVars, e2Vars, panic>>

(* A client without an event handler runs until its connection ends.       *)
DeafEnds(c) ==
  /\ conn[c] = "deaf"
  /\ conn' = [conn EXCEPT ![c] = "off"]
  /\ UNCHANGED <<procVars, client, warm, cookies, saved, refVars, e2Vars,
                 stVars, panic>>

(* The end of that handler, and of the client's connection loop.           *)
AfterPermanentError(c) ==
  /\ conn[c] = "dead"
  /\ conn' = [conn EXCEPT ![c] = "off"]
  /\ StopRefresh
  /\ UNCHANGED <<procVars, client, warm, cookies, saved, recent, e2Vars,
                 stVars, panic>>

-----------------------------------------------------------------------------
(* tryConnectE2EE and connectE2EE.                                         *)

ELeave(e, step) ==
  /\ epc' = [epc EXCEPT ![e] = step]
  /\ elock' = None
  /\ eheld' = [eheld EXCEPT ![e] = 0] /\ edev' = [edev EXCEPT ![e] = "nil"]

EPanic(e, what) ==
  /\ panic' = what
  /\ UNCHANGED <<procVars, cliVars, refVars, e2Vars, stVars>>

E2EELock(e) ==
  /\ epc[e] = "lock" /\ elock = None
  /\ IF e2ee = "nil"
     THEN /\ elock' = e /\ epc' = [epc EXCEPT ![e] = "device"]
          /\ UNCHANGED <<eheld, edev>>
     ELSE ELeave(e, "failed")
  /\ UNCHANGED <<procVars, cliVars, refVars, device, deviceID, e2ee,
                 firstDone, stVars, panic>>

MutE2EEDevice(e) ==
  /\ epc[e] = "device" /\ client # 0
  /\ \E d \in IF device # "nil" THEN {device}
              ELSE {"new"} \cup {x \in {"registered"} : deviceID} :
       device' = d /\ edev' = [edev EXCEPT ![e] = d]
  /\ epc' = [epc EXCEPT ![e] = "prepare"]
  /\ eheld' = [eheld EXCEPT ![e] = client]
  /\ UNCHANGED <<procVars, cliVars, refVars, elock, deviceID, e2ee,
                 firstDone, stVars, panic>>

(* The device in memory, else the stored one, else a new one; then it is   *)
(* handed to m.Client, which must not be nil.                              *)
E2EEDevice(e) ==
  /\ epc[e] = "device"
  /\ \/ /\ device = "nil" /\ deviceID      \* GetDevice fails
        /\ ELeave(e, "failed")
        /\ UNCHANGED <<procVars, cliVars, refVars, device, deviceID, e2ee,
                       firstDone, stVars, panic>>
     \/ client = 0 /\ EPanic(e, "nilClient")
     \/ /\ client # 0
        /\ \E d \in IF device # "nil" THEN {device}
                    ELSE {"new"} \cup {x \in {"registered"} : deviceID} :
             /\ device' = d
             /\ edev' = [edev EXCEPT ![e] = d]
             /\ epc' = [epc EXCEPT ![e] = IF device = "nil" /\ d = "new"
                                          THEN "register" ELSE "prepare"]
        /\ eheld' = [eheld EXCEPT ![e] = client]
        /\ UNCHANGED <<procVars, cliVars, refVars, elock, deviceID, e2ee,
                       firstDone, stVars, panic>>

(* RegisterE2EE on m.Client, read again: another client has no device.     *)
(* Saving the device or the login may fail after it succeeded.             *)
E2EERegister(e) ==
  /\ epc[e] = "register"
  /\ \/ /\ client # 0 /\ client = eheld[e] /\ device # "nil"
        /\ edev' = [edev EXCEPT ![e] = "registered"]
        /\ device' = "registered" /\ deviceID' = TRUE
        /\ epc' = [epc EXCEPT ![e] = "prepare"]
        /\ UNCHANGED <<procVars, cliVars, refVars, elock, eheld, e2ee,
                       firstDone, stVars, panic>>
     \/ /\ client # 0 /\ client = eheld[e] /\ device # "nil"
        /\ device' = "registered" /\ deviceID' = TRUE
        /\ ELeave(e, "failed")
        /\ UNCHANGED <<procVars, cliVars, refVars, e2ee, firstDone, stVars,
                       panic>>
     \/ /\ client # 0 /\ client = eheld[e] /\ device = "nil"
        /\ EPanic(e, "nilDevice")
     \/ /\ ELeave(e, "failed")
        /\ UNCHANGED <<procVars, cliVars, refVars, device, deviceID, e2ee,
                       firstDone, stVars, panic>>

(* PrepareE2EEClient, again on m.Client.                                   *)
E2EEPrepare(e) ==
  /\ epc[e] = "prepare"
  /\ IF client # 0 /\ client = eheld[e]
     THEN /\ e2ee' = "new"
          /\ epc' = [epc EXCEPT ![e] = "connect"]
          /\ UNCHANGED <<elock, eheld, edev>>
     ELSE ELeave(e, "failed") /\ UNCHANGED e2ee
  /\ UNCHANGED <<procVars, cliVars, refVars, device, deviceID, firstDone,
                 stVars, panic>>

(* m.E2EEClient.Connect: the login payload needs the device's ID.          *)
E2EEConnect(e) ==
  /\ epc[e] = "connect"
  /\ \/ e2ee = "nil" /\ EPanic(e, "nilE2EE")
     \/ e2ee # "nil" /\ edev[e] = "new" /\ EPanic(e, "noDeviceID")
     \/ /\ e2ee # "nil" /\ edev[e] = "registered"
        /\ \E ok \in BOOLEAN :
             /\ ELeave(e, IF ok THEN "idle" ELSE "failed")
             /\ e2ee' = IF ok THEN "down" ELSE "dead"
        /\ UNCHANGED <<procVars, cliVars, refVars, device, deviceID,
                       firstDone, stVars, panic>>

E2EEFailed(e) ==
  /\ epc[e] = "failed"
  /\ epc' = [epc EXCEPT ![e] = "idle"]
  /\ IF waState \in {"bad", "unknown"} THEN UNCHANGED stVars
     ELSE SetWA("unknown")
  /\ UNCHANGED <<procVars, cliVars, refVars, elock, eheld, edev, device,
                 deviceID, e2ee, firstDone, panic>>

-----------------------------------------------------------------------------
(* e2eeEventHandler; it drops everything once m.E2EEClient is nil.         *)

WAConnected ==
  /\ e2ee = "down"
  /\ e2ee' = "up"
  /\ SetWA("connected")
  /\ UNCHANGED <<procVars, cliVars, refVars, epc, elock, eheld, edev, device,
                 deviceID, firstDone, panic>>

WADisconnected ==
  /\ e2ee = "up"
  /\ e2ee' = "down"
  /\ SetWA("transient")
  /\ UNCHANGED <<procVars, cliVars, refVars, epc, elock, eheld, edev, device,
                 deviceID, firstDone, panic>>

(* CATRefreshError: with "please reload page" a full reconnect comes       *)
(* instead of a state, otherwise after it.                                 *)
CATRefreshError(reload) ==
  /\ e2ee = "down"
  /\ IF reload /\ canReconnect THEN UNCHANGED stVars ELSE SetWA("unknown")
  /\ IF canReconnect THEN SpawnFull ELSE UNCHANGED procVars
  /\ UNCHANGED <<cliVars, refVars, e2Vars, panic>>

(* PermanentDisconnect.  401 while connected and 418 forget the device and *)
(* reconnect everything (418 without asking whether one may), 415 deletes  *)
(* the device and reconnects E2EE alone, the others only set the state.    *)
WAPermanentError(code) ==
  /\ e2ee \in {"up", "down"}
  /\ LET full == code = "418" \/ (code = "401" /\ canReconnect)
         again == code = "415"
     IN /\ IF full THEN SpawnFull ELSE UNCHANGED procVars
        /\ IF again THEN SpawnE2EE ELSE UNCHANGED epc
        /\ IF full \/ again THEN device' = "nil" /\ deviceID' = FALSE
                            ELSE UNCHANGED <<device, deviceID>>
        /\ e2ee' = IF again THEN "nil" ELSE "dead"
  /\ SetWA("unknown")
  /\ UNCHANGED <<cliVars, refVars, elock, eheld, edev, firstDone, panic>>

-----------------------------------------------------------------------------
ConnectStep(p) ==
  \/ ConnectRefused(p) \/ ConnectBegins(p) \/ Ensure(p) \/ Sleep(p)
  \/ PageLoaded(p) \/ TokenInvalidated(p) \/ PageRetry(p)
  \/ \E s \in {"bad", "unknown"} : PageRefused(p, s)
  \/ StartClient(p) \/ GhostFails(p) \/ ConnectReturns(p)

ProcStep(p) ==
  \/ FullReconnect(p) \/ StopClient(p) \/ DropClient(p) \/ ConnectStep(p)

E2EEStep(e) ==
  \/ E2EELock(e) \/ E2EEDevice(e) \/ E2EERegister(e) \/ E2EEPrepare(e)
  \/ E2EEConnect(e) \/ E2EEFailed(e)

MetaEvent(c) ==
  \/ Connected(c) \/ SocketError(c) \/ DeafEnds(c)
  \/ AfterPermanentError(c)
  \/ \E code \in {"unauthorized", "unavailable", "unknown24", "other"} :
       PermanentError(c, code)

WAEvent ==
  \/ WAConnected \/ WADisconnected
  \/ \E reload \in BOOLEAN : CATRefreshError(reload)
  \/ \E code \in {"401", "415", "418", "other"} : WAPermanentError(code)

(* History for the properties: two calls have run at once; the client was  *)
(* dropped under an E2EE connection or a goroutine that makes one; the     *)
(* device in use or in memory is left from a registration that failed.     *)
NewDevice == device = "new" \/ \E e \in EProcs : edev[e] = "new"
History ==
  /\ overlap' = (overlap \/ \E p, q \in Procs :
                             p # q /\ pc'[p] # "idle" /\ pc'[q] # "idle")
  /\ dropped' = /\ EBusy' \/ e2ee' # "nil"
                /\ \/ dropped
                   \/ client # 0 /\ client' = 0
                   \/ \E p \in Procs : pc[p] = "drop" /\ pc'[p] # "drop"
  /\ regFailed' = /\ NewDevice'
                  /\ \/ regFailed
                     \/ \E e \in EProcs : epc[e] = "register"
                                         /\ epc'[e] = "failed"

Next ==
  /\ panic = "none"
  /\ \/ CallConnect \/ CallStop("disconnect") \/ CallStop("logout")
     \/ \E p \in Procs : ProcStep(p)
     \/ \E e \in EProcs : E2EEStep(e)
     \/ \E c \in Clients : MetaEvent(c)
     \/ \E l \in Loops : RefreshBegins(l) \/ RefreshFires(l)
     \/ WAEvent
     \/ TimePasses
  /\ History

Spec == Init /\ [][Next]_vars

-----------------------------------------------------------------------------
(* Properties.                                                             *)

(* As long as no two of Connect, FullReconnect, Disconnect and             *)
(* LogoutRemote have run at once, a messagix client that runs is the       *)
(* login's current one.  (When they overlap, one call can drop the client  *)
(* that another has just connected, and its connection lives on.)          *)
OrphanNeedsOverlap ==
  \A c \in Clients : conn[c] \in Running /\ c # client => overlap

(* The E2EE goroutines hit a nil pointer only if the client was dropped    *)
(* under them, or under the E2EE connection they replace, or two calls     *)
(* overlapped, and they connect a device that has no ID only if a          *)
(* registration that failed has left this very device in memory.           *)
PanicNeedsRace ==
  /\ panic \in {"nilClient", "nilE2EE", "nilDevice"} => dropped \/ overlap
  /\ panic = "noDeviceID" => regFailed

Quiet == /\ \A p \in Procs : pc[p] = "idle"
         /\ \A e \in EProcs : epc[e] = "idle"
         /\ panic = "none"

(* The connection is refreshed at the configured interval: a login whose   *)
(* socket is up, with no call in progress and if no two overlapped, has a  *)
(* periodicReconnect loop whose timer is still to fire.                    *)
RefreshArmed ==
  Quiet /\ ~overlap /\ client # 0 /\ conn[client] = "up" =>
    \E l \in Loops : refresh[l] \in {"starting", "wait"}
=============================================================================
