---------------------------- MODULE TablePipeline ----------------------------
(***************************************************************************)
(* How updates get from the Meta server into the bridge, and what survives *)
(* a restart: the sync cursor (pkg/messagix/syncManager.go), the queue of  *)
(* parsed tables and its handler loop (pkg/connector/handlemeta.go), and   *)
(* the connection state that is dumped to and loaded from the database     *)
(* (DumpState, LoadState; saveConnectionState, Connect, Disconnect and     *)
(* FullReconnect of pkg/connector/client.go).                              *)
(*                                                                         *)
(* The server has updates 1..srv of database 1; cursor k stands for "the   *)
(* updates up to k have been applied".  A table is a range of updates.     *)
(* The connection itself is module SocketLoop; here it is ready or not.    *)
(* Three goroutines take part: the queue worker of the socket ("sync"),    *)
(* which syncs the database and then passes pushed tables on, the table    *)
(* loop ("handler"), and whoever connects and disconnects ("disc").        *)
(* CacheConnectionState is on.                                             *)
(***************************************************************************)
EXTENDS Naturals, Sequences

CONSTANTS MaxUpdates,  \* bound: updates the server ever has
          TableCap,    \* capacity of parsedTables; 16 in the code
          MaxStops,    \* bound: disconnects and restarts
          MayRefuse    \* whether the bridge may refuse an event

ASSUME UpdatesAssumption == MaxUpdates \in Nat \ {0}
ASSUME TableCapAssumption == TableCap \in Nat \ {0}
ASSUME StopsAssumption == MaxStops \in Nat /\ MayRefuse \in BOOLEAN

Updates == 1..MaxUpdates
Cursors == 0..MaxUpdates
NoState == MaxUpdates + 1    \* no saved state

(* A table with the updates lo..hi; its NextCursor is hi.                  *)
Tables == [lo : 1..MaxUpdates + 1, hi : Cursors, initial : BOOLEAN]
NoTable == [lo |-> 1, hi |-> 0, initial |-> FALSE]
Rows(t) == t.lo..t.hi

VARIABLES
  srv,            \* how many updates the server has
  sent,           \* how far the server has sent them on this connection
  client,         \* MetaClient.Client: "none", "on", or "closing" once
                  \* its event handler has been removed
  cursor,         \* LastAppliedCursor of database 1
  prevConn,       \* Socket.previouslyConnected
  initialTable,   \* MetaClient.initialTable
  initialHandled, \* MetaClient.initialTableHandled
  sync,           \* where the queue worker is
  asked,          \* the cursor its sync request was made with
  hand,           \* the table it is passing to the connector
  queue,          \* MetaClient.parsedTables
  loopOn,         \* the table loop runs
  handler, cur,   \* where the table loop is, and the table it handles
  stale,          \* a cancelled table loop has yet to return
  disc, dump,     \* where a disconnect is, and the state it dumped
  stops,          \* disconnects and restarts so far
  saved,          \* the state in the database, reduced to its cursor
  recent,         \* lastStateSave is less than a minute ago
  handled,        \* history: updates whose events the bridge has accepted
  dropped,        \* history: updates given up on at least once: their event
                  \* was refused, or a disconnect or a crash cut in
  skipped,        \* history: those of them whose event was refused, whose
                  \* handling a disconnect cut short while later tables
                  \* were waiting in the queue, or whose table a cancelled
                  \* table loop took
  synced          \* history: updates that came in an answer to a sync or in
                  \* the initial table, rather than as a push

connVars == <<client, prevConn, initialTable, initialHandled>>
syncVars == <<sync, asked, hand, sent>>
loopVars == <<loopOn, handler, cur, stale>>
storeVars == <<saved, recent>>
discVars == <<disc, dump, stops>>
histVars == <<handled, dropped, skipped>>
vars == <<srv, sent, client, cursor, prevConn, initialTable, initialHandled,
          sync, asked, hand, queue, loopOn, handler, cur, stale, disc, dump,
          stops, saved, recent, handled, dropped, skipped, synced>>

SyncStates == {"off", "ask", "request", "queueSync", "advance", "queueInit",
               "markPrev", "live", "queuePush"}

TypeOK ==
  /\ srv \in Cursors /\ sent \in Cursors
  /\ client \in {"none", "on", "closing"}
  /\ cursor \in Cursors
  /\ prevConn \in BOOLEAN
  /\ initialTable \in Tables
  /\ initialHandled \in BOOLEAN
  /\ sync \in SyncStates
  /\ asked \in Cursors
  /\ hand \in Tables
  /\ queue \in Seq(Tables) /\ Len(queue) <= TableCap
  /\ loopOn \in BOOLEAN /\ stale \in BOOLEAN
  /\ handler \in {"idle", "events", "post", "save", "exited"}
  /\ cur \in Tables
  /\ disc \in {"none", "cancel", "cancelFull", "store", "delete"}
  /\ dump \in Cursors \cup {NoState}
  /\ stops \in 0..MaxStops
  /\ saved \in Cursors \cup {NoState}
  /\ recent \in BOOLEAN
  /\ handled \in SUBSET Updates /\ dropped \in SUBSET Updates
  /\ skipped \in SUBSET Updates /\ synced \in SUBSET Updates

Init ==
  /\ srv = 1 /\ sent = 0
  /\ client = "none" /\ cursor = 0 /\ prevConn = FALSE
  /\ initialTable = NoTable /\ initialHandled = FALSE
  /\ sync = "off" /\ asked = 0 /\ hand = NoTable
  /\ queue = <<>> /\ loopOn = FALSE /\ handler = "idle" /\ cur = NoTable
  /\ stale = FALSE /\ disc = "none" /\ dump = NoState /\ stops = 0
  /\ saved = NoState /\ recent = FALSE
  /\ handled = {} /\ dropped = {} /\ skipped = {} /\ synced = {}

(* The loop's context is cancelled as part of a disconnect.                *)
ctxDone == client = "closing"

-----------------------------------------------------------------------------
(* External: somebody sends a message.                                     *)
NewUpdate ==
  /\ srv < MaxUpdates
  /\ srv' = srv + 1
  /\ UNCHANGED <<cursor, connVars, syncVars, queue, loopVars, discVars,
                 storeVars, histVars, synced>>

(* connectWithRetry without a usable state: LoadMessagesPage makes a fresh *)
(* sync manager, takes the cursor from the page and keeps the table.       *)
ConnectFresh ==
  /\ client = "none" /\ disc = "none"
  /\ client' = "on" /\ loopOn' = TRUE /\ prevConn' = FALSE
  /\ cursor' = srv
  /\ initialTable' = [lo |-> 1, hi |-> srv, initial |-> TRUE]
  /\ initialHandled' = FALSE
  /\ synced' = synced \cup 1..srv
  /\ UNCHANGED <<srv, syncVars, queue, handler, cur, stale, discVars,
                 storeVars, histVars>>

(* LoadState and connectWithCache.                                         *)
ConnectCached ==
  /\ client = "none" /\ disc = "none" /\ saved # NoState
  /\ client' = "on" /\ loopOn' = TRUE /\ prevConn' = TRUE
  /\ cursor' = saved
  /\ initialHandled' = TRUE
  /\ UNCHANGED <<srv, initialTable, syncVars, queue, handler, cur, stale,
                 discVars, storeVars, synced, histVars>>

-----------------------------------------------------------------------------
(* The queue worker.                                                       *)

WorkerUnchanged == UNCHANGED <<srv, skipped, client, initialHandled, loopVars,
                               discVars, storeVars, handled>>

(* The socket is connected and the CONNACK has arrived.                    *)
SocketReady ==
  /\ client = "on" /\ sync = "off"
  /\ sync' = "ask"
  /\ WorkerUnchanged
  /\ UNCHANGED <<cursor, prevConn, initialTable, asked, hand, sent, queue,
                 dropped, synced>>

(* The connection is lost, or the context is cancelled.                    *)
ConnectionLost ==
  /\ client \in {"on", "closing"} /\ sync \in {"ask", "request", "live"}
  /\ sync' = "off" /\ asked' = 0 /\ hand' = NoTable /\ sent' = 0
  /\ WorkerUnchanged
  /\ UNCHANGED <<cursor, prevConn, initialTable, queue, dropped, synced>>

(* SyncSocketData sends the last applied cursor ...                        *)
SyncRequest ==
  /\ sync = "ask"
  /\ sync' = "request" /\ asked' = cursor
  /\ WorkerUnchanged
  /\ UNCHANGED <<cursor, prevConn, initialTable, hand, sent, queue, dropped,
                 synced>>

(* ... and the server answers with updates after it, and will push what    *)
(* follows them.  HandleEvent does nothing once disconnect has removed the *)
(* event handler.                                                          *)
SyncAnswer(hi) ==
  /\ sync = "request" /\ hi >= asked
  /\ hand' = [lo |-> asked + 1, hi |-> hi, initial |-> FALSE]
  /\ sent' = hi
  /\ sync' = IF client = "on" THEN "queueSync" ELSE "advance"
  /\ dropped' = IF client = "on" THEN dropped ELSE dropped \cup Rows(hand')
  /\ synced' = synced \cup Rows(hand')
  /\ WorkerUnchanged /\ UNCHANGED <<cursor, prevConn, initialTable, asked,
                                    queue>>

(* parseAndQueueTable waits for room in the queue, or for the context.     *)
Queueing == sync \in {"queueSync", "queueInit", "queuePush"}
AfterQueue == CASE sync = "queueSync" -> "advance"
                [] sync = "queueInit" -> "markPrev"
                [] sync = "queuePush" -> "live"
                [] OTHER -> sync
HandAfterQueue == IF sync = "queueSync" THEN hand ELSE NoTable

MutDropWhenFull ==
  /\ Queueing
  /\ queue' = IF Len(queue) < TableCap THEN Append(queue, hand) ELSE queue
  /\ sync' = AfterQueue /\ hand' = HandAfterQueue
  /\ WorkerUnchanged
  /\ UNCHANGED <<cursor, prevConn, initialTable, asked, sent, synced, dropped>>
(* (The Mut* operators are faulty variants of the definition after them,   *)
(* used only to show that the properties notice the fault.)                *)
parseAndQueueTable ==
  /\ Queueing
  /\ \/ /\ Len(queue) < TableCap
        /\ queue' = Append(queue, hand)
        /\ UNCHANGED dropped
     \/ /\ Len(queue) = TableCap /\ ctxDone
        /\ dropped' = dropped \cup Rows(hand)
        /\ UNCHANGED queue
  /\ sync' = AfterQueue /\ hand' = HandAfterQueue
  /\ WorkerUnchanged
  /\ UNCHANGED <<cursor, prevConn, initialTable, asked, sent, synced>>

(* Back from HandleEvent.  If the answer brought something new, the cursor *)
(* advances and SyncSocketData asks again.  Otherwise the sync is done:    *)
(* the first connection is reported as Event_Ready, for which the          *)
(* connector queues the initial table; later ones as Event_Reconnected.    *)
SyncAdvance ==
  /\ sync = "advance"
  /\ \/ /\ hand.hi # asked
        /\ cursor' = hand.hi /\ sync' = "ask" /\ hand' = NoTable
        /\ UNCHANGED initialTable
     \/ /\ hand.hi = asked /\ ~prevConn /\ client = "on"
        /\ initialTable # NoTable
        /\ sync' = "queueInit"
        /\ hand' = initialTable /\ initialTable' = NoTable
        /\ UNCHANGED cursor
     \/ /\ hand.hi = asked
        /\ prevConn \/ client # "on" \/ initialTable = NoTable
        /\ sync' = (IF prevConn THEN "live" ELSE "markPrev")
        /\ hand' = NoTable
        /\ UNCHANGED <<cursor, initialTable>>
  /\ asked' = 0
  /\ WorkerUnchanged
  /\ UNCHANGED <<prevConn, sent, queue, dropped, synced>>

MarkConnected ==
  /\ sync = "markPrev"
  /\ sync' = "live" /\ prevConn' = TRUE
  /\ WorkerUnchanged
  /\ UNCHANGED <<cursor, initialTable, asked, hand, sent, queue, dropped,
                 synced>>

(* The worker takes a pushed table from the websocket queue.               *)
TakePush ==
  /\ sync = "live" /\ sent < srv
  /\ sent' = sent + 1
  /\ IF client = "on"
       THEN /\ hand' = [lo |-> sent + 1, hi |-> sent + 1, initial |-> FALSE]
            /\ sync' = "queuePush" /\ UNCHANGED dropped
       ELSE dropped' = dropped \cup {sent + 1} /\ UNCHANGED <<sync, hand>>
  /\ WorkerUnchanged
  /\ UNCHANGED <<cursor, prevConn, initialTable, asked, queue, synced>>

-----------------------------------------------------------------------------
(* handleTableLoop and handleParsedTable.                                  *)

HandlerUnchanged == UNCHANGED <<srv, client, prevConn, initialTable, syncVars,
                                loopOn, stale, discVars, synced>>

MutPostFirst ==
  /\ loopOn /\ handler = "idle" /\ queue # <<>>
  /\ cur' = Head(queue) /\ queue' = Tail(queue)
  /\ cursor' = IF client # "none" THEN Head(queue).hi ELSE cursor
  /\ handler' = "events"
  /\ HandlerUnchanged
  /\ UNCHANGED <<initialHandled, storeVars, histVars>>
TakeTable ==
  /\ loopOn /\ handler = "idle" /\ queue # <<>>
  /\ cur' = Head(queue) /\ queue' = Tail(queue)
  /\ handler' = "events"
  /\ HandlerUnchanged
  /\ UNCHANGED <<cursor, initialHandled, storeVars, histVars>>

(* Every event of the table is accepted by the bridge.                     *)
QueueEvents ==
  /\ handler = "events"
  /\ handled' = handled \cup Rows(cur)
  /\ handler' = "post"
  /\ HandlerUnchanged
  /\ UNCHANGED <<skipped, cursor, initialHandled, queue, cur, storeVars,
                 dropped>>

(* QueueRemoteEvent refuses an event: the rest of the table is skipped.    *)
EventRefused ==
  /\ MayRefuse /\ handler = "events"
  /\ dropped' = dropped \cup Rows(cur)
  /\ skipped' = skipped \cup Rows(cur)
  /\ handler' = "save"
  /\ HandlerUnchanged
  /\ UNCHANGED <<cursor, initialHandled, queue, cur, storeVars, handled>>

(* initialTableHandled or PostHandlePublishResponse (a nil client ignores  *)
(* it).                                                                    *)
PostHandle ==
  /\ handler = "post"
  /\ IF cur.initial THEN initialHandled' = TRUE /\ UNCHANGED cursor
     ELSE /\ cursor' = IF client # "none" THEN cur.hi ELSE cursor
          /\ UNCHANGED initialHandled
  /\ handler' = "save"
  /\ HandlerUnchanged
  /\ UNCHANGED <<queue, cur, storeVars, histVars>>

(* DumpState gives nothing without a client that has been connected.       *)
DumpState == IF client # "none" /\ prevConn THEN cursor ELSE NoState

(* saveConnectionState(ctx, nil) saves when the last save, or the last     *)
(* call that did not save, was less than a minute ago.                     *)
saveConnectionState ==
  /\ handler = "save"
  /\ saved' = IF recent /\ DumpState # NoState THEN DumpState ELSE saved
  /\ recent' = TRUE
  /\ handler' = "idle" /\ cur' = NoTable
  /\ HandlerUnchanged
  /\ UNCHANGED <<cursor, initialHandled, queue, histVars>>

MinutePasses ==
  /\ recent
  /\ recent' = FALSE
  /\ UNCHANGED <<srv, cursor, connVars, syncVars, queue, loopVars, discVars,
                 saved, synced, histVars>>

(* The select of a cancelled table loop may pick the queue rather than     *)
(* ctx.Done, even after the next client has started a loop of its own:     *)
(* handleParsedTable gives the table up at its first look at the context,  *)
(* and the save that follows fails for the same reason.                    *)
CancelledLoopTakes ==
  /\ stale /\ queue # <<>>
  /\ queue' = Tail(queue)
  /\ dropped' = dropped \cup Rows(Head(queue))
  /\ skipped' = skipped \cup Rows(Head(queue))
  /\ recent' = TRUE
  /\ UNCHANGED <<srv, cursor, connVars, syncVars, loopVars, discVars, saved,
                 handled, synced>>

CancelledLoopReturns ==
  /\ stale
  /\ stale' = FALSE
  /\ UNCHANGED <<srv, cursor, connVars, syncVars, queue, loopOn, handler, cur,
                 discVars, storeVars, synced, histVars>>

-----------------------------------------------------------------------------
(* Disconnect (full = FALSE) and FullReconnect (full = TRUE): remove the   *)
(* event handler and cancel the connection loop ...                        *)
StartDisconnect(full) ==
  /\ client = "on" /\ disc = "none" /\ stops < MaxStops
  /\ client' = "closing" /\ stops' = stops + 1
  /\ disc' = IF full THEN "cancelFull" ELSE "cancel"
  /\ UNCHANGED <<srv, cursor, prevConn, initialTable, initialHandled,
                 syncVars, queue, loopVars, dump, storeVars, synced,
                 histVars>>

(* ... dump the state once the loop has stopped, forget the client and     *)
(* stop the table loop, which skips the rest of its table ...              *)
StopClient ==
  /\ disc \in {"cancel", "cancelFull"} /\ sync = "off"
  /\ dump' = IF disc = "cancel" THEN DumpState ELSE NoState
  /\ disc' = IF disc = "cancel" THEN "store" ELSE "delete"
  /\ client' = "none" /\ cursor' = 0 /\ prevConn' = FALSE /\ loopOn' = FALSE
  /\ handler' = "idle" /\ cur' = NoTable /\ stale' = TRUE
  /\ dropped' = IF handler = "events" THEN dropped \cup Rows(cur) ELSE dropped
  /\ skipped' = IF handler = "events" /\ queue # <<>>
                THEN skipped \cup Rows(cur) ELSE skipped
  /\ UNCHANGED <<srv, initialTable, initialHandled, syncVars, queue, stops,
                 storeVars, handled, synced>>

(* ... and save the dumped state, if the initial table has been handled,   *)
(* or delete what was saved before a full reconnect.                       *)
StoreState ==
  /\ disc \in {"store", "delete"}
  /\ disc' = "none" /\ dump' = NoState
  /\ IF disc = "delete" THEN saved' = NoState /\ UNCHANGED recent
     ELSE IF initialHandled /\ dump # NoState
     THEN saved' = dump /\ recent' = TRUE
     ELSE UNCHANGED <<saved, recent>>
  /\ UNCHANGED <<srv, cursor, connVars, syncVars, queue, loopVars, stops,
                 synced, histVars>>

InFlight ==
  {i \in Updates : \/ i \in Rows(initialTable) \/ i \in Rows(cur)
                   \/ Queueing /\ i \in Rows(hand)
                   \/ \E n \in 1..Len(queue) : i \in Rows(queue[n])}

(* The process ends; the database and what the bridge accepted stay.       *)
ProcessRestarts ==
  /\ stops < MaxStops
  /\ stops' = stops + 1
  /\ client' = "none" /\ cursor' = 0 /\ prevConn' = FALSE
  /\ initialTable' = NoTable /\ initialHandled' = FALSE
  /\ sync' = "off" /\ asked' = 0 /\ hand' = NoTable /\ sent' = 0
  /\ queue' = <<>> /\ loopOn' = FALSE /\ handler' = "idle" /\ cur' = NoTable
  /\ stale' = FALSE /\ disc' = "none" /\ dump' = NoState /\ recent' = FALSE
  /\ dropped' = dropped \cup InFlight
  /\ UNCHANGED <<srv, skipped, saved, handled, synced>>

-----------------------------------------------------------------------------
WorkerStep == \/ SyncRequest \/ (\E hi \in 0..srv : SyncAnswer(hi))
              \/ parseAndQueueTable \/ SyncAdvance \/ MarkConnected \/ TakePush
HandlerStep == \/ TakeTable \/ QueueEvents \/ EventRefused \/ PostHandle
               \/ saveConnectionState
DisconnectStep == \/ (\E full \in BOOLEAN : StartDisconnect(full))
                  \/ StopClient \/ StoreState
Next == \/ NewUpdate \/ ConnectFresh \/ ConnectCached \/ SocketReady
        \/ ConnectionLost \/ WorkerStep \/ HandlerStep \/ MinutePasses
        \/ CancelledLoopTakes \/ CancelledLoopReturns
        \/ DisconnectStep \/ ProcessRestarts

Spec == Init /\ [][Next]_vars

-----------------------------------------------------------------------------
(* Properties.                                                             *)

(* The cursor covers no update that has silently vanished: each is         *)
(* handled, on its way through initialTable, worker, queue or table loop,  *)
(* or was given up on for a known reason (refused event, disconnect,       *)
(* crash).  The next sync asks only for what follows the cursor.           *)
NoSilentLoss ==
  client # "none" => 1..cursor \subseteq handled \cup InFlight \cup dropped

(* handleParsedTable moves the cursor last, so a saved state never covers  *)
(* a pushed update whose events the bridge has not accepted, whatever the  *)
(* interleaving of saves, reconnects, disconnects and crashes, unless the  *)
(* bridge refused one of them, a disconnect cut the table short while      *)
(* later tables were queued (those stay queued for the next client, whose  *)
(* cursor they move past the one that was cut short), or a cancelled table *)
(* loop took the table.                                                    *)
PushedUpdatesSafe ==
  saved # NoState => 1..saved \subseteq handled \cup skipped \cup synced

(* The state of a connection whose initial table was not handled is not    *)
(* saved ("Initial table wasn't handled before disconnect, not saving      *)
(* reconnection state", client.go).  Refuted: the table loop's own saves   *)
(* do not look at initialTableHandled.                                     *)
InitialHandledBeforeSave ==
  [][saved' # saved /\ saved' # NoState => initialHandled]_vars

(* A saved state covers only updates that have been applied ("Update the   *)
(* last applied cursor to the next cursor", syncManager.go) or have been   *)
(* given up on, apart from the initial table (InitialHandledBeforeSave).   *)
(* Refuted: SyncSocketData moves the cursor as soon as the table is        *)
(* queued, and a save can follow before it is handled.                     *)
SavedUpdatesApplied ==
  saved # NoState /\ initialHandled => 1..saved \subseteq handled \cup dropped

(* What is durable of the pipeline: the cursor that is in use, also while  *)
(* a disconnect holds it to save it, and the updates that are excused.     *)
CursorInUse == IF client # "none" THEN cursor ELSE dump
Excused == skipped \cup synced

Log == INSTANCE DurableCursor WITH Last <- MaxUpdates, NoCursor <- NoState,
                                   at <- CursorInUse, excused <- Excused

(* The pipeline treats the cursor the way DurableCursor says: whatever     *)
(* interleaves, it moves to, saves and resumes from a cursor only once     *)
(* what the cursor covers has reached the bridge or is excused, accepted   *)
(* updates stay accepted, and a crash loses only the cursor in use.        *)
KeepsCursor == Log!Spec
=============================================================================
