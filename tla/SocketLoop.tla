----------------------------- MODULE SocketLoop -----------------------------
(***************************************************************************)
(* The life of the MQTT websocket: the connection loop of Client.Connect   *)
(* and Client.Disconnect (pkg/messagix/client.go), Socket.Connect and      *)
(* readLoop with its three goroutines - the reader, the queue worker and   *)
(* the pinger - and Disconnect (pkg/messagix/socket.go), and the worker's  *)
(* handleReadyEvent (pkg/messagix/events.go).                              *)
(*                                                                         *)
(* The reader is the connection loop's own goroutine, so "loop" says where *)
(* both are.  Requests are abstracted to "the answer came" or "it failed"  *)
(* (module ResponseHandler has the detail), payloads to their kind, times  *)
(* to choices: any timeout may pass, a connection may or may not have      *)
(* lasted the two minutes that reset the attempt counter.                  *)
(***************************************************************************)
EXTENDS Naturals, Sequences

CONSTANTS QueueCap,        \* capacity of wsQueue; 32 in the code
          MaxEvents,       \* bound: pushed events per connection
          ReconnectLimit,  \* reconnects allowed after a bad password; 5
          RefusalCodes     \* the ConnectionCodes a CONNACK may refuse with

ASSUME CapAssumption == QueueCap \in Nat \ {0}
ASSUME EventsAssumption == MaxEvents \in Nat
ASSUME LimitAssumption == ReconnectLimit \in Nat

(* Codes that make the error permanent at once.                            *)
PermanentCodes == {"unauthorized", "unavailable", "unknown24"}
Codes == PermanentCodes \cup {"badPassword", "other"}

ASSUME CodesAssumption == RefusalCodes \subseteq Codes

(* What readLoop and Connect return; a refusal is its code.                *)
LoopErrors == {"closedCleanly", "closedByServer", "readyFailed", "badData",
               "pingFailed", "pongTimeout", "readFailed"} \cup Codes
ConnectErrors == {"alreadyOpen", "dial", "sendConnect"} \cup LoopErrors
NoErr == "none"

VARIABLES
  loop,      \* connection loop goroutine
  conn,      \* Socket.conn: "nil", or whether what it holds is usable
  ctxDone,   \* the loop's context has been cancelled
  closeErr,  \* readLoop's closeErr
  err,       \* what Socket.Connect returned
  connacked, \* the CONNACK of this connection has arrived
  refused,   \* history: the refusal this connection received
  events,    \* pushed events read on this connection
  wsQueue, queueClosed,
  pending,   \* the item the reader is pushing
  worker,    \* queue worker goroutine
  answered,  \* the request the worker waits on has been answered
  pinger,    \* this connection's pinger goroutine is running
  canSend,   \* Client.canSendMessages
  prevConn,  \* Socket.previouslyConnected
  app,       \* last event passed to the event handler
  attempts,  \* connectionAttempts, capped one above the limit
  badLogins, \* history: reconnects in a row after a bad-password refusal
  disc       \* goroutine that calls Disconnect

connVars == <<closeErr, connacked, refused, events, queueClosed>>
vars == <<loop, conn, ctxDone, closeErr, err, connacked, refused, events,
          wsQueue, queueClosed, pending, worker, answered, pinger, canSend,
          prevConn, app, attempts, badLogins, disc>>

LoopStates == {"off", "top", "dialing", "connecting", "reading", "pushing",
               "sleeping", "draining", "returned", "backoff", "stopped"}
InReadLoop == loop \in {"reading", "pushing", "sleeping", "draining"}
AttemptCap == ReconnectLimit + 1
Items == {"ready", "event"}

TypeOK ==
  /\ loop \in LoopStates
  /\ conn \in {"nil", "open", "broken"}
  /\ ctxDone \in BOOLEAN
  /\ closeErr \in LoopErrors \cup {NoErr}
  /\ err \in ConnectErrors \cup {NoErr}
  /\ connacked \in BOOLEAN
  /\ refused \in Codes \cup {NoErr}
  /\ events \in 0..MaxEvents
  /\ wsQueue \in Seq(Items) /\ Len(wsQueue) <= QueueCap
  /\ queueClosed \in BOOLEAN
  /\ pending \in Items \cup {NoErr}
  /\ worker \in {"none", "idle", "setup", "sync", "exited"}
  /\ answered \in BOOLEAN
  /\ pinger \in BOOLEAN
  /\ canSend \in BOOLEAN
  /\ prevConn \in BOOLEAN
  /\ app \in {"none", "ready", "reconnected", "socketError", "permanentError"}
  /\ attempts \in 0..AttemptCap
  /\ badLogins \in 0..ReconnectLimit + 2
  /\ disc \in {"none", "cancelled", "waiting", "returned"}

(* A client starts fresh, or with the previouslyConnected of a loaded      *)
(* state.                                                                  *)
Init ==
  /\ loop = "off" /\ conn = "nil" /\ ctxDone = FALSE
  /\ closeErr = NoErr /\ err = NoErr /\ connacked = FALSE /\ refused = NoErr
  /\ events = 0 /\ wsQueue = <<>> /\ queueClosed = FALSE /\ pending = NoErr
  /\ worker = "none" /\ answered = FALSE /\ pinger = FALSE
  /\ canSend = FALSE /\ prevConn \in BOOLEAN /\ app = "none"
  /\ attempts = 0 /\ badLogins = 0 /\ disc = "none"

FirstError(e) == IF closeErr = NoErr THEN e ELSE closeErr
Broken == IF conn = "nil" THEN "nil" ELSE "broken"

-----------------------------------------------------------------------------
(* The connection loop outside readLoop.                                   *)

(* Client.Connect; CanConnect wants no connection.  The connector drops a  *)
(* client it has disconnected, and calls Connect again only on one whose   *)
(* loop has ended with a permanent error.                                  *)
Connect ==
  /\ \/ loop = "off"
     \/ loop = "stopped" /\ disc = "none"
  /\ conn = "nil"
  /\ loop' = "top" /\ ctxDone' = FALSE
  /\ attempts' = IF AttemptCap < 1 THEN AttemptCap ELSE 1
  /\ badLogins' = 0
  /\ UNCHANGED <<conn, connVars, err, wsQueue, pending, worker, answered,
                 pinger, canSend, prevConn, app, disc>>

(* canSendMessages.Clear, then CanConnect inside Socket.Connect, which     *)
(* refuses to dial while a connection is still recorded.                   *)
LoopTop ==
  /\ loop = "top"
  /\ canSend' = FALSE
  /\ IF conn = "nil" THEN loop' = "dialing" /\ UNCHANGED err
     ELSE loop' = "returned" /\ err' = "alreadyOpen"
  /\ UNCHANGED <<conn, ctxDone, connVars, wsQueue, pending, worker, answered,
                 pinger, prevConn, app, attempts, badLogins, disc>>

DialFails ==
  /\ loop = "dialing"
  /\ loop' = "returned" /\ err' = "dial"
  /\ UNCHANGED <<conn, ctxDone, connVars, wsQueue, pending, worker, answered,
                 pinger, canSend, prevConn, app, attempts, badLogins, disc>>

(* The dial may complete just as the context is cancelled.                 *)
DialOk ==
  /\ loop = "dialing"
  /\ loop' = "connecting" /\ conn' = "open"
  /\ UNCHANGED <<ctxDone, connVars, err, wsQueue, pending, worker, answered,
                 pinger, canSend, prevConn, app, attempts, badLogins, disc>>

(* sendConnectPacket fails: Connect returns and Socket.conn stays set.     *)
SendConnectFails ==
  /\ loop = "connecting"
  /\ loop' = "returned" /\ err' = "sendConnect" /\ conn' = "broken"
  /\ UNCHANGED <<ctxDone, connVars, wsQueue, pending, worker, answered,
                 pinger, canSend, prevConn, app, attempts, badLogins, disc>>

(* readLoop sets itself up: close handlers, worker and pinger.             *)
StartReadLoop ==
  /\ loop = "connecting"
  /\ loop' = "reading" /\ worker' = "idle" /\ pinger' = TRUE
  /\ closeErr' = NoErr /\ connacked' = FALSE /\ refused' = NoErr /\ events' = 0
  /\ wsQueue' = <<>> /\ queueClosed' = FALSE /\ answered' = FALSE
  /\ UNCHANGED <<conn, ctxDone, err, pending, canSend, prevConn, app, attempts,
                 badLogins, disc>>

(* After Socket.Connect has returned: canSendMessages.Clear, then stop on  *)
(* a cancelled context or a permanent refusal, else back off.  long says   *)
(* whether the connection lasted two minutes; a server that refuses one    *)
(* does not take that long.                                                *)
MutBadPasswordRetried == err \in PermanentCodes
Permanent == err \in PermanentCodes
               \/ (err = "badPassword" /\ attempts > ReconnectLimit)

LoopEnds ==
  /\ loop' = "stopped"
  /\ UNCHANGED <<attempts, badLogins>>

AfterConnect ==
  /\ loop = "returned"
  /\ canSend' = FALSE
  /\ \/ /\ ctxDone
        /\ LoopEnds
        /\ UNCHANGED app
     \/ /\ ~ctxDone /\ Permanent
        /\ LoopEnds
        /\ app' = "permanentError"
     \/ /\ ~ctxDone /\ ~Permanent
        /\ app' = "socketError"
        /\ loop' = "backoff"
        /\ \E long \in BOOLEAN :
             attempts' = IF long /\ err \in LoopErrors \ Codes THEN 0
                         ELSE IF attempts < AttemptCap THEN attempts + 1
                         ELSE attempts
        /\ badLogins' = IF err # "badPassword" THEN 0
                        ELSE IF badLogins < ReconnectLimit + 2
                        THEN badLogins + 1
                        ELSE badLogins
  /\ UNCHANGED <<conn, ctxDone, connVars, err, wsQueue, pending, worker,
                 answered, pinger, prevConn, disc>>

(* The wait for reconnectIn ends, or the context does.                     *)
BackoffEnds ==
  /\ loop = "backoff"
  /\ \/ loop' = "top"
     \/ ctxDone /\ loop' = "stopped"
  /\ UNCHANGED <<conn, ctxDone, connVars, err, wsQueue, pending, worker,
                 answered, pinger, canSend, prevConn, app, attempts, badLogins,
                 disc>>

-----------------------------------------------------------------------------
(* The reader.                                                             *)

(* Frames that were buffered before the connection broke can still be      *)
(* read.                                                                   *)
Reading == loop = "reading" /\ conn # "nil"

ReadUnchanged == UNCHANGED <<ctxDone, err, pinger, canSend, prevConn, app,
                             attempts, badLogins, disc, queueClosed,
                             worker>>

(* wsQueue <- evt: the reader blocks while the queue is full.  (The Mut*   *)
(* operators are faulty variants of the definition after them, used only   *)
(* to show that the properties notice the fault.)                          *)
Push(item) ==
  IF Len(wsQueue) < QueueCap
    THEN wsQueue' = Append(wsQueue, item) /\ UNCHANGED <<loop, pending>>
    ELSE loop' = "pushing" /\ pending' = item /\ UNCHANGED wsQueue

ReadAccepted ==
  /\ Reading /\ ~connacked
  /\ connacked' = TRUE
  /\ Push("ready")
  /\ ReadUnchanged /\ UNCHANGED <<conn, closeErr, refused, events, answered>>

(* A refusal overwrites whatever error was stored before it.               *)
MutRefusalKeepsFirst(code) ==
  /\ Reading /\ ~connacked
  /\ connacked' = TRUE
  /\ refused' = code /\ closeErr' = FirstError(code) /\ conn' = "broken"
  /\ ReadUnchanged /\ UNCHANGED <<loop, events, answered, wsQueue, pending>>
ReadRefused(code) ==
  /\ Reading /\ ~connacked
  /\ connacked' = TRUE
  /\ refused' = code /\ closeErr' = code /\ conn' = "broken"
  /\ ReadUnchanged /\ UNCHANGED <<loop, events, answered, wsQueue, pending>>

(* A publish with request ID 0 is queued for the worker.                   *)
ReadEvent ==
  /\ Reading /\ connacked /\ events < MaxEvents
  /\ events' = events + 1
  /\ Push("event")
  /\ ReadUnchanged
  /\ UNCHANGED <<conn, closeErr, connacked, refused, answered>>

(* An ACK or a response for the request the worker waits on.               *)
ReadAnswer ==
  /\ Reading /\ worker \in {"setup", "sync"}
  /\ answered' = TRUE
  /\ ReadUnchanged
  /\ UNCHANGED <<loop, conn, closeErr, connacked, refused, events, wsQueue,
                 pending>>

ReadBadData ==
  /\ Reading
  /\ closeErr' = FirstError("badData") /\ conn' = "broken"
  /\ ReadUnchanged
  /\ UNCHANGED <<loop, connacked, refused, events, answered, wsQueue, pending>>

(* The close handler runs inside ReadMessage, which then fails.            *)
ReadCloseFrame ==
  /\ Reading
  /\ closeErr' = FirstError("closedByServer") /\ conn' = "broken"
  /\ loop' = "sleeping"
  /\ ReadUnchanged
  /\ UNCHANGED <<connacked, refused, events, answered, wsQueue, pending>>

PushDone ==
  /\ loop = "pushing" /\ Len(wsQueue) < QueueCap
  /\ wsQueue' = Append(wsQueue, pending)
  /\ loop' = "reading" /\ pending' = NoErr
  /\ ReadUnchanged
  /\ UNCHANGED <<conn, closeErr, connacked, refused, events, answered>>

(* External: the connection breaks - the network fails, or the server      *)
(* drops a client that has stopped pinging.                                *)
ConnectionBreaks ==
  /\ conn = "open"
  /\ conn' = "broken"
  /\ UNCHANGED <<loop, ctxDone, connVars, err, wsQueue, pending, worker,
                 answered, pinger, canSend, prevConn, app, attempts, badLogins,
                 disc>>

(* ReadMessage fails; 100 ms for the ready handler to store a better error *)
ReadFails ==
  /\ loop = "reading" /\ conn = "broken"
  /\ closeErr' = FirstError("readFailed")
  /\ loop' = "sleeping"
  /\ ReadUnchanged
  /\ UNCHANGED <<conn, connacked, refused, events, answered, wsQueue, pending>>

(* The return value is fixed, then the deferred close(wsQueue) runs.       *)
MutWaitBeforeClose ==
  /\ loop = "sleeping"
  /\ err' = closeErr /\ loop' = "draining"
  /\ UNCHANGED <<conn, ctxDone, connVars, wsQueue, pending, worker, answered,
                 pinger, canSend, prevConn, app, attempts, badLogins, disc>>
CloseQueue ==
  /\ loop = "sleeping"
  /\ err' = closeErr /\ queueClosed' = TRUE
  /\ loop' = "draining"
  /\ UNCHANGED <<conn, ctxDone, closeErr, connacked, refused, events, wsQueue,
                 pending, worker, answered, pinger, canSend, prevConn, app,
                 attempts, badLogins, disc>>

(* loopWg.Wait returns, Socket.conn is reset and the requests cancelled.   *)
(* The pinger only ends with the context, or when it next tries to send.   *)
MutNoWorkerWait ==
  /\ loop = "draining"
  /\ loop' = "returned" /\ conn' = "nil"
  /\ UNCHANGED <<ctxDone, connVars, err, wsQueue, pending, worker, answered,
                 pinger, canSend, prevConn, app, attempts, badLogins, disc>>
ReadLoopReturns ==
  /\ loop = "draining" /\ worker = "exited"
  /\ loop' = "returned" /\ conn' = "nil"
  /\ UNCHANGED <<ctxDone, connVars, err, wsQueue, pending, worker, answered,
                 pinger, canSend, prevConn, app, attempts, badLogins, disc>>

-----------------------------------------------------------------------------
(* The queue worker.                                                       *)

WorkerUnchanged == UNCHANGED <<loop, ctxDone, err, connacked, refused, events,
                               queueClosed, pending, pinger, attempts,
                               badLogins, disc>>

(* It returns for good at the first item it takes after a cancellation.    *)
WorkerTakes ==
  /\ worker = "idle" /\ wsQueue # <<>>
  /\ wsQueue' = Tail(wsQueue)
  /\ \/ /\ ctxDone
        /\ worker' = "exited"
        /\ UNCHANGED canSend
     \/ /\ ~ctxDone /\ Head(wsQueue) = "event"
        /\ UNCHANGED <<worker, canSend>>
     \/ /\ ~ctxDone /\ Head(wsQueue) = "ready"
        /\ worker' = IF prevConn THEN "sync" ELSE "setup"
        /\ canSend' = (prevConn \/ canSend)
  /\ answered' = FALSE
  /\ WorkerUnchanged /\ UNCHANGED <<conn, closeErr, prevConn, app>>

WorkerExits ==
  /\ worker = "idle" /\ wsQueue = <<>> /\ queueClosed
  /\ worker' = "exited"
  /\ WorkerUnchanged
  /\ UNCHANGED <<conn, closeErr, wsQueue, answered, canSend, prevConn, app>>

(* First connection: app settings and subscriptions are acknowledged.      *)
SetupDone ==
  /\ worker = "setup" /\ answered
  /\ worker' = "sync" /\ answered' = FALSE /\ canSend' = TRUE
  /\ WorkerUnchanged /\ UNCHANGED <<conn, closeErr, wsQueue, prevConn, app>>

(* The databases are synced: tell the application.                         *)
SyncDone ==
  /\ worker = "sync" /\ answered
  /\ worker' = "idle" /\ answered' = FALSE /\ prevConn' = TRUE
  /\ app' = IF prevConn THEN "reconnected" ELSE "ready"
  /\ WorkerUnchanged /\ UNCHANGED <<conn, closeErr, wsQueue, canSend>>

(* A request fails: packetTimeout, context, closed connection.             *)
ReadyFails ==
  /\ worker \in {"setup", "sync"}
  /\ worker' = "idle"
  /\ closeErr' = FirstError("readyFailed") /\ conn' = Broken
  /\ WorkerUnchanged /\ UNCHANGED <<wsQueue, answered, canSend, prevConn, app>>

-----------------------------------------------------------------------------
(* The pinger.                                                             *)

PingerStops ==
  /\ pinger /\ InReadLoop
  /\ pinger' = FALSE
  /\ \/ /\ conn # "open"
        /\ closeErr' = FirstError("pingFailed") /\ conn' = Broken
     \/ closeErr' = FirstError("pongTimeout") /\ conn' = Broken
     \/ ctxDone /\ UNCHANGED <<closeErr, conn>>
  /\ UNCHANGED <<loop, ctxDone, err, connacked, refused, events, wsQueue,
                 queueClosed, pending, worker, answered, canSend, prevConn,
                 app, attempts, badLogins, disc>>

-----------------------------------------------------------------------------
(* Client.Disconnect: cancel, close the socket, wait for the loop.         *)

CancelContext ==
  /\ disc = "none" /\ loop # "off"
  /\ ctxDone' = TRUE /\ disc' = "cancelled"
  /\ UNCHANGED <<loop, conn, connVars, err, wsQueue, pending, worker, answered,
                 pinger, canSend, prevConn, app, attempts, badLogins>>

CloseSocket ==
  /\ disc = "cancelled"
  /\ closeErr' = IF InReadLoop THEN FirstError("closedCleanly") ELSE closeErr
  /\ conn' = Broken /\ disc' = "waiting"
  /\ UNCHANGED <<loop, ctxDone, err, connacked, refused, events, wsQueue,
                 queueClosed, pending, worker, answered, pinger, canSend,
                 prevConn, app, attempts, badLogins>>

(* The loop has stopped, or five seconds have passed.                      *)
DisconnectReturns ==
  /\ disc = "waiting"
  /\ disc' = "returned"
  /\ UNCHANGED <<loop, conn, ctxDone, connVars, err, wsQueue, pending, worker,
                 answered, pinger, canSend, prevConn, app, attempts,
                 badLogins>>

-----------------------------------------------------------------------------
LoopStep == \/ LoopTop \/ DialFails \/ DialOk \/ SendConnectFails
            \/ StartReadLoop \/ AfterConnect \/ BackoffEnds
            \/ ReadFails \/ CloseQueue \/ ReadLoopReturns \/ PushDone
ServerSends == \/ ReadAccepted \/ ReadEvent \/ ReadAnswer \/ ReadBadData
               \/ ReadCloseFrame
               \/ \E code \in RefusalCodes : ReadRefused(code)
WorkerStep == WorkerTakes \/ WorkerExits \/ SetupDone \/ SyncDone \/ ReadyFails
DisconnectStep == CancelContext \/ CloseSocket \/ DisconnectReturns

Next == \/ Connect \/ LoopStep \/ ServerSends \/ ConnectionBreaks
        \/ WorkerStep \/ PingerStops \/ DisconnectStep

Spec == Init /\ [][Next]_vars

(* A goroutine that can run does run: dials and waits are bounded by       *)
(* timeouts (HandshakeTimeout, packetTimeout, the back-off), and the       *)
(* server drops a client that has sent no ping for keepAliveTimeout.       *)
FairSpec ==
  /\ Spec
  /\ WF_vars(LoopStep)
  /\ WF_vars(WorkerStep)
  /\ WF_vars(CloseSocket)
  /\ WF_vars(~pinger /\ ConnectionBreaks)
  /\ WF_vars(ctxDone /\ PingerStops)

-----------------------------------------------------------------------------
(* Properties.                                                             *)

(* canSendMessages is set by the worker and cleared by the connection      *)
(* loop.  No worker of an old connection sets it, or tells the application *)
(* that the connection is ready, once the loop has gone on to back off and *)
(* dial again: WaitUntilCanSendMessages would return, and messages would   *)
(* be sent, before the new connection is set up.                           *)
NoStaleReady ==
  canSend \/ app \in {"ready", "reconnected"} =>
    InReadLoop \/ loop = "returned" \/ ctxDone

(* Socket.Connect returns the refusal of a refused connection, whatever    *)
(* other errors the ready handler, the pinger, Disconnect and the reader   *)
(* stored around it: the connection loop decides by it whether to stop.    *)
RefusalReported ==
  loop = "returned" /\ refused # NoErr /\ err \in LoopErrors => err = refused

(* After Disconnect the connection loop ends, except in one case: the      *)
(* worker has exited and the reader is stuck pushing into a full queue.    *)
StopsUnlessStuck ==
  ctxDone ~> loop = "stopped" \/ (loop = "pushing" /\ worker = "exited")

(* After Disconnect the connection loop ends ("Fixed deadlock on websocket *)
(* disconnect", CHANGELOG.md).  Refuted: see StopsUnlessStuck.             *)
DisconnectStopsLoop == ctxDone ~> loop = "stopped"

(* A loop that waits to reconnect dials again, unless it is stopped.       *)
(* Refuted: when sendConnectPacket fails, Socket.conn stays set and every  *)
(* later Connect is refused with ErrSocketAlreadyOpen.                     *)
DialsAgain == loop = "backoff" ~> loop = "dialing" \/ ctxDone

(* Bad-password refusals in a row end the loop: one reconnect more than    *)
(* the limit at most, although the client.go comment allows only "up to 5  *)
(* reconnects": a long connection restarts the attempt counter at 0, while *)
(* it starts out at 1.                                                     *)
BadLoginsBounded == badLogins <= ReconnectLimit + 1
=============================================================================
