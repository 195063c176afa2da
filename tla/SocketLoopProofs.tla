-------------------------- MODULE SocketLoopProofs --------------------------
(***************************************************************************)
(* Proofs about SocketLoop, for any capacity of the queue, any number of   *)
(* events and any reconnect limit.                                         *)
(***************************************************************************)
EXTENDS SocketLoop, TLAPS

(* The parts of TypeOK: places and errors, flags, queue, counters.         *)
PlacesTyped ==
  /\ loop \in LoopStates /\ conn \in {"nil", "open", "broken"}
  /\ closeErr \in LoopErrors \cup {NoErr}
  /\ err \in ConnectErrors \cup {NoErr} /\ refused \in Codes \cup {NoErr}
  /\ worker \in {"none", "idle", "setup", "sync", "exited"}
  /\ app \in {"none", "ready", "reconnected", "socketError", "permanentError"}
  /\ disc \in {"none", "cancelled", "waiting", "returned"}
FlagsTyped ==
  /\ ctxDone \in BOOLEAN /\ connacked \in BOOLEAN /\ queueClosed \in BOOLEAN
  /\ answered \in BOOLEAN /\ pinger \in BOOLEAN /\ canSend \in BOOLEAN
  /\ prevConn \in BOOLEAN
QueueTyped ==
  /\ wsQueue \in Seq(Items) /\ Len(wsQueue) <= QueueCap
  /\ pending \in Items \cup {NoErr}
CountersTyped ==
  /\ events \in 0..MaxEvents /\ attempts \in 0..AttemptCap
  /\ badLogins \in 0..ReconnectLimit + 2

(* A blocked reader has an item to push.                                   *)
PendingHeld == loop = "pushing" => pending \in Items

(* The worker that has not exited belongs to a connection that is still    *)
(* being read: readLoop waits for it.                                      *)
WorkerInLoop == worker \in {"idle", "setup", "sync"} => InReadLoop

(* Only Disconnect cancels the context, and nobody disconnects a client    *)
(* that was never connected.                                               *)
CancelledByDisconnect ==
  /\ ctxDone => disc # "none"
  /\ loop = "off" => disc = "none"

(* A refusal stays the connection's error, and the error that readLoop has *)
(* fixed as its result is the one that is stored.                          *)
ErrorKept ==
  /\ refused # NoErr => closeErr = refused
  /\ loop \in {"sleeping", "draining"} => closeErr # NoErr
  /\ loop = "draining" => err = closeErr

(* Every bad-password refusal in a row counts as a connection attempt.     *)
RefusalsCounted == badLogins <= attempts

Inv ==
  /\ PlacesTyped /\ FlagsTyped /\ QueueTyped /\ CountersTyped
  /\ PendingHeld /\ WorkerInLoop /\ CancelledByDisconnect
  /\ ErrorKept /\ NoStaleReady /\ RefusalReported /\ RefusalsCounted

(* A client starts without a connection.                                   *)
LEMMA InitInv == Init => Inv
<1> SUFFICES ASSUME Init PROVE Inv
  OBVIOUS
<1>1. PlacesTyped
  BY DEF Init, PlacesTyped, LoopStates
<1>2. FlagsTyped
  BY DEF Init, FlagsTyped
<1>3. QueueTyped
  BY CapAssumption DEF Init, QueueTyped
<1>4. CountersTyped
  BY EventsAssumption, LimitAssumption DEF Init, CountersTyped, AttemptCap
<1>5. /\ PendingHeld /\ WorkerInLoop /\ CancelledByDisconnect /\ ErrorKept
      /\ NoStaleReady /\ RefusalReported /\ RefusalsCounted
  BY DEF Init, PendingHeld, WorkerInLoop, CancelledByDisconnect, ErrorKept,
         NoStaleReady, RefusalReported, RefusalsCounted, InReadLoop, NoErr
<1> QED
  BY <1>1, <1>2, <1>3, <1>4, <1>5 DEF Inv

(* The parts make up TypeOK.                                               *)
LEMMA TypeParts ==
  PlacesTyped /\ FlagsTyped /\ QueueTyped /\ CountersTyped => TypeOK
BY DEF TypeOK, PlacesTyped, FlagsTyped, QueueTyped, CountersTyped

-----------------------------------------------------------------------------
(* Helpers.                                                                *)

(* No error is "no error".                                                 *)
LEMMA ErrorsDistinct ==
  /\ NoErr \notin ConnectErrors /\ NoErr \notin Items
  /\ LoopErrors \subseteq ConnectErrors /\ RefusalCodes \subseteq LoopErrors
  /\ RefusalCodes \subseteq Codes
BY CodesAssumption
DEF NoErr, ConnectErrors, LoopErrors, Codes, PermanentCodes, Items

(* Breaking a connection leaves it nil or broken.                          *)
LEMMA BrokenType == Broken \in {"nil", "open", "broken"}
BY DEF Broken

-----------------------------------------------------------------------------
(* The connection loop outside readLoop.                                   *)

Outside == \/ Connect \/ LoopTop \/ DialFails \/ DialOk \/ SendConnectFails
           \/ BackoffEnds \/ ConnectionBreaks
           \/ CancelContext \/ DisconnectReturns

(* What the caller, the server and the network do keeps it.                *)
LEMMA OutsideInv == Inv /\ Outside => Inv'
<1> SUFFICES ASSUME Inv, Outside PROVE Inv'
  OBVIOUS
<1> USE DEF Inv, Outside, Connect, LoopTop, DialFails, DialOk,
            SendConnectFails, BackoffEnds, ConnectionBreaks, CancelContext,
            DisconnectReturns, connVars
<1>1. PlacesTyped'
  BY DEF PlacesTyped, LoopStates, ConnectErrors
<1>2. FlagsTyped'
  BY DEF FlagsTyped
<1>3. QueueTyped'
  BY DEF QueueTyped
<1>4. CountersTyped'
  BY LimitAssumption DEF CountersTyped, AttemptCap
<1>5. PendingHeld' /\ WorkerInLoop' /\ CancelledByDisconnect' /\ ErrorKept'
  BY DEF PendingHeld, WorkerInLoop, CancelledByDisconnect, ErrorKept,
         InReadLoop
<1>6. NoStaleReady'
  BY DEF CancelledByDisconnect, NoStaleReady, InReadLoop
<1>7. RefusalReported'
  BY DEF RefusalReported, LoopErrors, Codes, PermanentCodes
<1>8. RefusalsCounted'
  BY LimitAssumption DEF CountersTyped, RefusalsCounted, AttemptCap
<1> QED
  BY <1>1, <1>2, <1>3, <1>4, <1>5, <1>6, <1>7, <1>8

(* readLoop starts with nothing of an earlier connection.                  *)
LEMMA StartInv == Inv /\ StartReadLoop => Inv'
<1> SUFFICES ASSUME Inv, StartReadLoop PROVE Inv'
  OBVIOUS
<1> USE DEF Inv, StartReadLoop
<1>1. PlacesTyped'
  BY DEF PlacesTyped, LoopStates
<1>2. FlagsTyped'
  BY DEF FlagsTyped
<1>3. QueueTyped' /\ CountersTyped' /\ RefusalsCounted'
  BY CapAssumption, EventsAssumption
  DEF QueueTyped, CountersTyped, RefusalsCounted
<1>4. PendingHeld' /\ WorkerInLoop' /\ CancelledByDisconnect' /\ ErrorKept'
  BY DEF PendingHeld, WorkerInLoop, CancelledByDisconnect, ErrorKept,
         InReadLoop
<1>5. NoStaleReady' /\ RefusalReported'
  BY DEF NoStaleReady, RefusalReported, InReadLoop
<1> QED
  BY <1>1, <1>2, <1>3, <1>4, <1>5

(* What the loop does with the result: the counter of attempts grows with  *)
(* every bad password, and past the limit the loop ends instead.           *)
LEMMA AfterConnectInv == Inv /\ AfterConnect => Inv'
<1> SUFFICES ASSUME Inv, AfterConnect PROVE Inv'
  OBVIOUS
<1> USE DEF Inv, AfterConnect, LoopEnds
<1>1. PlacesTyped' /\ FlagsTyped' /\ QueueTyped'
  <2>1. PlacesTyped'
    BY DEF PlacesTyped, LoopStates, connVars
  <2>2. FlagsTyped' /\ QueueTyped'
    BY DEF FlagsTyped, QueueTyped, connVars
  <2> QED
    BY <2>1, <2>2
<1>2. CountersTyped' /\ RefusalsCounted'
  <2>1. events' = events
    BY DEF connVars
  <2>2. CASE LoopEnds
    BY <2>1, <2>2 DEF CountersTyped, RefusalsCounted
  <2>3. CASE loop' = "backoff" /\ ~Permanent
    <3>1. PICK long \in BOOLEAN :
            attempts' = IF long /\ err \in LoopErrors \ Codes THEN 0
                        ELSE IF attempts < AttemptCap THEN attempts + 1
                        ELSE attempts
      BY <2>3
    <3>2. CASE err = "badPassword"
      <4>1. attempts < AttemptCap
        BY <2>3, <3>2, LimitAssumption
        DEF Permanent, AttemptCap, CountersTyped
      <4>2. attempts' = attempts + 1
        BY <3>1, <3>2, <4>1 DEF Codes
      <4>3. badLogins' = badLogins + 1
        BY <2>3, <3>2, <4>1, LimitAssumption
        DEF RefusalsCounted, AttemptCap, CountersTyped
      <4> QED
        BY <2>1, <4>1, <4>2, <4>3, LimitAssumption
        DEF CountersTyped, RefusalsCounted, AttemptCap
    <3>3. CASE err # "badPassword"
      <4>1. badLogins' = 0
        BY <2>3, <3>3
      <4> QED
        BY <2>1, <3>1, <4>1, LimitAssumption
        DEF CountersTyped, RefusalsCounted, AttemptCap
    <3> QED
      BY <3>2, <3>3
  <2> QED
    BY <2>2, <2>3
<1>3. PendingHeld' /\ WorkerInLoop' /\ CancelledByDisconnect' /\ ErrorKept'
  BY DEF PendingHeld, WorkerInLoop, CancelledByDisconnect, ErrorKept,
         InReadLoop, connVars
<1>4. NoStaleReady' /\ RefusalReported'
  BY DEF NoStaleReady, RefusalReported, InReadLoop
<1> QED
  BY <1>1, <1>2, <1>3, <1>4

-----------------------------------------------------------------------------
(* The reader.                                                             *)

(* Pushing an item keeps the queue within its capacity, or blocks with the *)
(* item in hand.                                                           *)
LEMMA PushKeeps ==
  ASSUME Inv, NEW item \in Items, loop = "reading", Push(item)
  PROVE  /\ QueueTyped' /\ PendingHeld' /\ loop' \in {"reading", "pushing"}
<1>1. CASE Len(wsQueue) < QueueCap
  <2>1. wsQueue' \in Seq(Items) /\ Len(wsQueue') = Len(wsQueue) + 1
    BY <1>1 DEF Inv, QueueTyped, Push
  <2> QED
    BY <1>1, <2>1, CapAssumption DEF Inv, QueueTyped, Push, PendingHeld
<1>2. CASE ~(Len(wsQueue) < QueueCap)
  BY <1>2 DEF Inv, QueueTyped, Push, PendingHeld
<1> QED
  BY <1>1, <1>2

(* The two reads that push.                                                *)
LEMMA PushInv == Inv /\ (ReadAccepted \/ ReadEvent) => Inv'
<1> SUFFICES ASSUME Inv, ReadAccepted \/ ReadEvent PROVE Inv'
  OBVIOUS
<1>1. QueueTyped' /\ PendingHeld' /\ loop' \in {"reading", "pushing"}
  <2>1. CASE ReadAccepted
    BY <2>1, PushKeeps DEF ReadAccepted, Reading, Items
  <2>2. CASE ReadEvent
    BY <2>2, PushKeeps DEF ReadEvent, Reading, Items
  <2> QED
    BY <2>1, <2>2
<1> USE DEF Inv, ReadAccepted, ReadEvent, Reading, ReadUnchanged
<1>2. PlacesTyped'
  BY <1>1 DEF PlacesTyped, LoopStates
<1>3. FlagsTyped'
  BY DEF FlagsTyped
<1>4. CountersTyped' /\ RefusalsCounted'
  BY EventsAssumption DEF CountersTyped, RefusalsCounted
<1>5. WorkerInLoop' /\ CancelledByDisconnect' /\ ErrorKept'
  BY <1>1 DEF WorkerInLoop, CancelledByDisconnect, ErrorKept, InReadLoop
<1>6. NoStaleReady' /\ RefusalReported'
  BY <1>1 DEF NoStaleReady, RefusalReported, InReadLoop
<1> QED
  BY <1>1, <1>2, <1>3, <1>4, <1>5, <1>6

(* The reads that store an error, and the answer to a request.             *)
LEMMA ReadInv ==
  ASSUME Inv,
         \/ ReadAnswer \/ ReadBadData \/ ReadCloseFrame \/ ReadFails
         \/ \E code \in RefusalCodes : ReadRefused(code)
  PROVE  Inv'
<1> USE DEF Inv, ReadUnchanged, Reading
<1>1. /\ \/ closeErr' = closeErr
         \/ closeErr # NoErr /\ closeErr' = closeErr
         \/ closeErr = NoErr /\ closeErr' \in LoopErrors
         \/ refused' = closeErr' /\ closeErr' \in RefusalCodes
      /\ refused' = refused \/ refused' = closeErr'
      /\ refused' \in Codes \cup {NoErr}
      /\ loop' = "sleeping" => closeErr' # NoErr
      /\ loop' \in {"reading", "sleeping"}
  BY ErrorsDistinct
  DEF ReadAnswer, ReadBadData, ReadCloseFrame, ReadFails, ReadRefused,
      FirstError, PlacesTyped, LoopErrors, NoErr
<1>2. /\ UNCHANGED <<ctxDone, err, pinger, canSend, prevConn, app, attempts,
                     badLogins, disc, queueClosed, worker, events, wsQueue,
                     pending>>
      /\ conn' \in {conn, "broken"} /\ loop = "reading"
      /\ connacked' \in BOOLEAN /\ answered' \in BOOLEAN
  BY DEF ReadAnswer, ReadBadData, ReadCloseFrame, ReadFails, ReadRefused,
         FlagsTyped
<1>3. PlacesTyped'
  BY <1>1, <1>2, ErrorsDistinct DEF PlacesTyped, LoopStates
<1>4. FlagsTyped'
  BY <1>2 DEF FlagsTyped
<1>5. QueueTyped' /\ CountersTyped' /\ RefusalsCounted' /\ PendingHeld'
  BY <1>1, <1>2 DEF QueueTyped, CountersTyped, RefusalsCounted, PendingHeld
<1>6. WorkerInLoop' /\ CancelledByDisconnect'
  BY <1>1, <1>2 DEF WorkerInLoop, CancelledByDisconnect, InReadLoop
<1>7. ErrorKept'
  BY <1>1, <1>2 DEF ErrorKept
<1>8. NoStaleReady' /\ RefusalReported'
  BY <1>1, <1>2 DEF NoStaleReady, RefusalReported, InReadLoop
<1> QED
  BY <1>3, <1>4, <1>5, <1>6, <1>7, <1>8

(* A blocked push ends.                                                    *)
LEMMA PushDoneInv == Inv /\ PushDone => Inv'
<1> SUFFICES ASSUME Inv, PushDone PROVE Inv'
  OBVIOUS
<1> USE DEF Inv, PushDone, ReadUnchanged
<1>1. QueueTyped'
  <2>1. pending \in Items
    BY DEF PendingHeld
  <2>2. wsQueue' \in Seq(Items) /\ Len(wsQueue') = Len(wsQueue) + 1
    BY <2>1 DEF QueueTyped
  <2> QED
    BY <2>2, CapAssumption DEF QueueTyped
<1>2. PlacesTyped'
  BY DEF PlacesTyped, LoopStates
<1>3. FlagsTyped' /\ CountersTyped' /\ RefusalsCounted'
  BY DEF FlagsTyped, CountersTyped, RefusalsCounted
<1>4. PendingHeld' /\ WorkerInLoop' /\ CancelledByDisconnect' /\ ErrorKept'
  BY DEF PendingHeld, WorkerInLoop, CancelledByDisconnect, ErrorKept,
         InReadLoop
<1>5. NoStaleReady' /\ RefusalReported'
  BY DEF NoStaleReady, RefusalReported, InReadLoop
<1> QED
  BY <1>1, <1>2, <1>3, <1>4, <1>5

(* The end of readLoop: its result is fixed, then the worker is awaited.   *)
LEMMA ReturnInv == Inv /\ (CloseQueue \/ ReadLoopReturns) => Inv'
<1> SUFFICES ASSUME Inv, CloseQueue \/ ReadLoopReturns PROVE Inv'
  OBVIOUS
<1> USE DEF Inv, CloseQueue, ReadLoopReturns, connVars
<1>1. PlacesTyped'
  BY ErrorsDistinct DEF PlacesTyped, LoopStates
<1>2. FlagsTyped'
  BY DEF FlagsTyped
<1>3. QueueTyped' /\ CountersTyped' /\ RefusalsCounted'
  BY DEF QueueTyped, CountersTyped, RefusalsCounted
<1>4. PendingHeld' /\ WorkerInLoop' /\ CancelledByDisconnect' /\ ErrorKept'
  BY DEF PendingHeld, WorkerInLoop, CancelledByDisconnect, ErrorKept,
         InReadLoop
<1>5. NoStaleReady' /\ RefusalReported'
  BY DEF NoStaleReady, RefusalReported, InReadLoop, ErrorKept
<1> QED
  BY <1>1, <1>2, <1>3, <1>4, <1>5

-----------------------------------------------------------------------------
(* The worker, the pinger and Disconnect.                                  *)

(* Only a worker whose connection is being read sets canSendMessages or    *)
(* tells the application: a stale one would have been waited for.          *)
LEMMA WorkerInv == Inv /\ WorkerStep => Inv'
<1> SUFFICES ASSUME Inv, WorkerStep PROVE Inv'
  OBVIOUS
<1>1. InReadLoop /\ worker \in {"idle", "setup", "sync"}
  BY DEF Inv, WorkerInLoop, WorkerStep, WorkerTakes, WorkerExits, SetupDone,
         SyncDone, ReadyFails
<1>2. UNCHANGED <<loop, ctxDone, err, connacked, refused, events, queueClosed,
                  pending, pinger, attempts, badLogins, disc>>
  BY DEF WorkerStep, WorkerTakes, WorkerExits, SetupDone, SyncDone,
         ReadyFails, WorkerUnchanged
<1>3. closeErr' \in LoopErrors \cup {NoErr}
      /\ (closeErr # NoErr => closeErr' = closeErr)
  BY DEF Inv, PlacesTyped, WorkerStep, WorkerTakes, WorkerExits, SetupDone,
         SyncDone, ReadyFails, FirstError, LoopErrors
<1>4. PlacesTyped'
  BY <1>2, <1>3, BrokenType
  DEF Inv, PlacesTyped, WorkerStep, WorkerTakes, WorkerExits, SetupDone,
      SyncDone, ReadyFails
<1>5. FlagsTyped'
  BY <1>2 DEF Inv, FlagsTyped, WorkerStep, WorkerTakes, WorkerExits,
              SetupDone, SyncDone, ReadyFails
<1>6. QueueTyped'
  <2>1. CASE wsQueue' = wsQueue
    BY <1>2, <2>1 DEF Inv, QueueTyped
  <2>2. CASE wsQueue # <<>> /\ wsQueue' = Tail(wsQueue)
    BY <1>2, <2>2, CapAssumption DEF Inv, QueueTyped
  <2> QED
    BY <2>1, <2>2 DEF WorkerStep, WorkerTakes, WorkerExits, SetupDone,
                      SyncDone, ReadyFails
<1>7. CountersTyped' /\ RefusalsCounted' /\ PendingHeld'
  BY <1>2 DEF Inv, CountersTyped, RefusalsCounted, PendingHeld
<1>8. WorkerInLoop' /\ CancelledByDisconnect' /\ ErrorKept'
  BY <1>1, <1>2, <1>3
  DEF Inv, WorkerInLoop, CancelledByDisconnect, ErrorKept, InReadLoop
<1>9. NoStaleReady' /\ RefusalReported'
  BY <1>1, <1>2 DEF NoStaleReady, RefusalReported, InReadLoop
<1> QED
  BY <1>4, <1>5, <1>6, <1>7, <1>8, <1>9 DEF Inv

(* The pinger and Disconnect store an error only if there is none yet.     *)
LEMMA CloserInv == Inv /\ (PingerStops \/ CloseSocket) => Inv'
<1> SUFFICES ASSUME Inv, PingerStops \/ CloseSocket PROVE Inv'
  OBVIOUS
<1>1. closeErr' \in LoopErrors \cup {NoErr}
      /\ (closeErr # NoErr => closeErr' = closeErr)
  BY DEF Inv, PlacesTyped, PingerStops, CloseSocket, FirstError, LoopErrors
<1>2. /\ UNCHANGED <<loop, ctxDone, err, connacked, refused, events, wsQueue,
                     queueClosed, pending, worker, answered, canSend, prevConn,
                     app, attempts, badLogins>>
      /\ pinger' \in {pinger, FALSE}
      /\ disc' = disc \/ (disc = "cancelled" /\ disc' = "waiting")
      /\ conn' = conn \/ conn' = Broken
  BY DEF PingerStops, CloseSocket
<1>3. PlacesTyped'
  BY <1>1, <1>2, BrokenType DEF Inv, PlacesTyped
<1>4. FlagsTyped'
  BY <1>2 DEF Inv, FlagsTyped
<1>5. QueueTyped' /\ CountersTyped' /\ RefusalsCounted' /\ PendingHeld'
  BY <1>2 DEF Inv, QueueTyped, CountersTyped, RefusalsCounted, PendingHeld
<1>6. WorkerInLoop' /\ CancelledByDisconnect' /\ ErrorKept'
  BY <1>1, <1>2
  DEF Inv, WorkerInLoop, CancelledByDisconnect, ErrorKept, InReadLoop
<1>7. NoStaleReady' /\ RefusalReported'
  BY <1>2 DEF Inv, NoStaleReady, RefusalReported, InReadLoop
<1> QED
  BY <1>3, <1>4, <1>5, <1>6, <1>7 DEF Inv

(* Stuttering changes nothing.                                             *)
LEMMA StutterInv == Inv /\ UNCHANGED vars => Inv'
<1> SUFFICES ASSUME Inv, UNCHANGED vars PROVE Inv'
  OBVIOUS
<1>1. PlacesTyped' /\ FlagsTyped' /\ QueueTyped' /\ CountersTyped'
  BY DEF Inv, vars, PlacesTyped, FlagsTyped, QueueTyped, CountersTyped
<1>2. PendingHeld' /\ WorkerInLoop' /\ CancelledByDisconnect' /\ ErrorKept'
  BY DEF Inv, vars, PendingHeld, WorkerInLoop, CancelledByDisconnect,
         ErrorKept, InReadLoop
<1>3. NoStaleReady' /\ RefusalReported' /\ RefusalsCounted'
  BY DEF Inv, vars, NoStaleReady, RefusalReported, RefusalsCounted, InReadLoop
<1> QED
  BY <1>1, <1>2, <1>3 DEF Inv

-----------------------------------------------------------------------------
(* The invariant holds in every behaviour.                                 *)
LEMMA InvHolds == Spec => []Inv
<1>1. Inv /\ Next => Inv'
  BY OutsideInv, StartInv, AfterConnectInv, PushInv, ReadInv, PushDoneInv,
     ReturnInv, WorkerInv, CloserInv
  DEF Next, LoopStep, ServerSends, DisconnectStep, Outside
<1> QED
  BY InitInv, <1>1, StutterInv, PTL DEF Spec

(* The variables of the socket and of its three goroutines keep their      *)
(* types; the queue never holds more than its capacity.                    *)
THEOREM TypeCorrect == Spec => []TypeOK
<1>1. Inv => TypeOK
  BY TypeParts DEF Inv
<1> QED
  BY InvHolds, <1>1, PTL

(* No worker of an old connection sets canSendMessages or announces the    *)
(* connection once the loop has gone on to back off and dial again.        *)
THEOREM ReadyIsCurrent == Spec => []NoStaleReady
<1>1. Inv => NoStaleReady
  BY DEF Inv
<1> QED
  BY InvHolds, <1>1, PTL

(* Socket.Connect returns the refusal of a refused connection, whatever    *)
(* errors the ready handler, the pinger, Disconnect and the reader store.  *)
THEOREM RefusalIsReported == Spec => []RefusalReported
<1>1. Inv => RefusalReported
  BY DEF Inv
<1> QED
  BY InvHolds, <1>1, PTL

(* A password that is refused every time is tried at most one time more    *)
(* than the limit allows before the loop ends, for every limit.            *)
THEOREM BadLoginsEnd == Spec => []BadLoginsBounded
<1>1. Inv => BadLoginsBounded
  BY LimitAssumption
  DEF Inv, BadLoginsBounded, RefusalsCounted, CountersTyped, AttemptCap
<1> QED
  BY InvHolds, <1>1, PTL
=============================================================================
