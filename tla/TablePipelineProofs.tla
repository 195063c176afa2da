------------------------- MODULE TablePipelineProofs ------------------------
(***************************************************************************)
(* Proofs about TablePipeline, for any number of updates, any capacity of  *)
(* the table queue and any number of disconnects and restarts; then about  *)
(* what the table handler does with a table: RemoteEvents, for any rows,   *)
(* and ChatState, for any sequence of updates of a chat.                   *)
(***************************************************************************)
EXTENDS TablePipeline, TLAPS

CONSTANTS Self,       \* the user whose login this is
          Split,      \* whether every portal has a receiver
          Types       \* the type of each thread
VARIABLES acc,        \* the accumulator of parseTable
          at, seen,   \* the operation it is at, and the rows handled so far
          chat,       \* a chat's type, and the server its JID is on
          cache       \* the cache of Instagram users and its database

RE == INSTANCE RemoteEvents
CS == INSTANCE ChatState

(* The parts of TypeOK: cursors, tables, places, flags, histories.         *)
CursorsTyped ==
  /\ srv \in Cursors /\ sent \in Cursors /\ cursor \in Cursors
  /\ asked \in Cursors /\ dump \in Cursors \cup {NoState}
  /\ saved \in Cursors \cup {NoState} /\ stops \in 0..MaxStops
TablesTyped ==
  /\ initialTable \in Tables /\ hand \in Tables /\ cur \in Tables
  /\ queue \in Seq(Tables)
PlacesTyped ==
  /\ client \in {"none", "on", "closing"} /\ sync \in SyncStates
  /\ handler \in {"idle", "events", "post", "save", "exited"}
  /\ disc \in {"none", "cancel", "cancelFull", "store", "delete"}
FlagsTyped ==
  /\ prevConn \in BOOLEAN /\ initialHandled \in BOOLEAN
  /\ loopOn \in BOOLEAN /\ stale \in BOOLEAN /\ recent \in BOOLEAN
HistoryTyped ==
  /\ handled \in SUBSET Updates /\ dropped \in SUBSET Updates
  /\ skipped \in SUBSET Updates /\ synced \in SUBSET Updates
Typed == /\ CursorsTyped /\ TablesTyped /\ PlacesTyped /\ FlagsTyped
         /\ HistoryTyped /\ Len(queue) <= TableCap

(* The parts make up TypeOK.                                               *)
LEMMA TypeParts == Typed => TypeOK
BY DEF Typed, CursorsTyped, TablesTyped, PlacesTyped, FlagsTyped,
       HistoryTyped, TypeOK

-----------------------------------------------------------------------------
(* Tables and queues of tables.                                            *)

(* The updates in the first n tables of a queue, and in all of them; the   *)
(* cursors its tables lead to.                                             *)
RowsTo(q, n) == {i \in Updates : \E m \in 1..n : i \in Rows(q[m])}
QueueRows(q) == RowsTo(q, Len(q))
Ends(q) == {q[n].hi : n \in 1..Len(q)}

(* A table brings updates and leads to a cursor; no table brings none.     *)
LEMMA TableFacts ==
  /\ NoTable \in Tables /\ Rows(NoTable) = {} /\ NoTable.hi = 0
  /\ \A t \in Tables : Rows(t) \subseteq Updates /\ t.hi \in Cursors
  /\ \A n \in Cursors : 1..n \subseteq Updates
BY UpdatesAssumption DEF Tables, NoTable, Rows, Updates, Cursors

(* What a table adds at the end of a queue.                                *)
LEMMA AppendFacts ==
  ASSUME NEW q \in Seq(Tables), NEW t \in Tables
  PROVE  /\ Append(q, t) \in Seq(Tables) /\ Len(Append(q, t)) = Len(q) + 1
         /\ QueueRows(Append(q, t)) = QueueRows(q) \cup Rows(t)
         /\ Ends(Append(q, t)) = Ends(q) \cup {t.hi}
<1>1. /\ Append(q, t) \in Seq(Tables) /\ Len(Append(q, t)) = Len(q) + 1
      /\ \A m \in 1..Len(q) : Append(q, t)[m] = q[m]
      /\ Append(q, t)[Len(q) + 1] = t /\ Len(q) \in Nat
  OBVIOUS
<1>2. QueueRows(Append(q, t)) = QueueRows(q) \cup Rows(t)
  <2>1. Rows(t) \subseteq Updates
    BY TableFacts
  <2> QED
    BY <1>1, <2>1 DEF QueueRows, RowsTo
<1>3. Ends(Append(q, t)) = Ends(q) \cup {t.hi}
  BY <1>1 DEF Ends
<1> QED
  BY <1>1, <1>2, <1>3

(* What the first table takes with it when it leaves a queue.              *)
LEMMA TailFacts ==
  ASSUME NEW q \in Seq(Tables), q # <<>>
  PROVE  /\ Head(q) \in Tables /\ Tail(q) \in Seq(Tables)
         /\ Len(q) \in Nat \ {0} /\ Len(Tail(q)) = Len(q) - 1
         /\ QueueRows(q) = Rows(Head(q)) \cup QueueRows(Tail(q))
         /\ RowsTo(q, 1) = Rows(Head(q)) /\ q[1] = Head(q)
         /\ \A n \in 1..Len(Tail(q)) :
              /\ Tail(q)[n] = q[n + 1] /\ n + 1 \in 1..Len(q)
              /\ RowsTo(q, n + 1) = Rows(Head(q)) \cup RowsTo(Tail(q), n)
         /\ Ends(q) = Ends(Tail(q)) \cup {Head(q).hi}
<1>1. /\ Head(q) \in Tables /\ Tail(q) \in Seq(Tables) /\ Head(q) = q[1]
      /\ Len(q) \in Nat \ {0} /\ Len(Tail(q)) = Len(q) - 1
      /\ \A n \in 1..Len(Tail(q)) :
           Tail(q)[n] = q[n + 1] /\ n + 1 \in 1..Len(q)
  OBVIOUS
<1>2. Rows(Head(q)) \subseteq Updates
  BY <1>1, TableFacts
<1>3. ASSUME NEW n \in 0..Len(Tail(q))
      PROVE  RowsTo(q, n + 1) = Rows(Head(q)) \cup RowsTo(Tail(q), n)
  <2>1. \A m \in 1..n : Tail(q)[m] = q[m + 1]
    BY <1>1
  <2>2. \A m \in 1..n + 1 : m = 1 \/ (m - 1 \in 1..n /\ q[m] = Tail(q)[m - 1])
    BY <1>1
  <2> QED
    BY <1>1, <1>2, <2>1, <2>2 DEF RowsTo
<1>4. QueueRows(q) = Rows(Head(q)) \cup QueueRows(Tail(q))
  <2>1. Len(Tail(q)) \in 0..Len(Tail(q)) /\ Len(Tail(q)) + 1 = Len(q)
    BY <1>1
  <2>2. RowsTo(q, Len(Tail(q)) + 1)
          = Rows(Head(q)) \cup RowsTo(Tail(q), Len(Tail(q)))
    BY <1>3, <2>1
  <2> QED
    BY <2>1, <2>2 DEF QueueRows
<1>5. Ends(q) = Ends(Tail(q)) \cup {Head(q).hi}
  <2>1. \A m \in 1..Len(q) :
          m = 1 \/ (m - 1 \in 1..Len(Tail(q)) /\ q[m] = Tail(q)[m - 1])
    BY <1>1
  <2> QED
    BY <1>1, <2>1 DEF Ends
<1>6. RowsTo(q, 1) = Rows(Head(q))
  BY <1>1, <1>2 DEF RowsTo
<1> QED
  BY <1>1, <1>3, <1>4, <1>5, <1>6

-----------------------------------------------------------------------------
(* The invariant behind NoSilentLoss.  Covered are the updates that the    *)
(* bridge has, is about to get or gave up on, and Known all the cursors    *)
(* there are: those in use, those on their way with a table, those saved.  *)
(* No step takes anything out of Covered, and a step makes a new cursor    *)
(* only for updates that it puts into Covered.                             *)
HandRows == IF Queueing THEN Rows(hand) ELSE {}
Covered == handled \cup dropped \cup InFlight
Known == {cursor, asked, sent, initialTable.hi, hand.hi, cur.hi}
           \cup Ends(queue) \cup ({saved, dump} \ {NoState})

LossInv ==
  /\ \A k \in Known : 1..k \subseteq Covered
  /\ handler # "events" => Rows(cur) \subseteq handled \cup dropped
  /\ initialTable.hi <= srv

(* The invariant behind PushedUpdatesSafe.  Safe are the updates a saved   *)
(* state may cover.  A cursor that is in use, or about to be, covers only  *)
(* those; the cursor of a table in the pipeline may also cover what the    *)
(* table itself and the tables ahead of it bring, because the table loop   *)
(* takes them in order and moves the cursor after the events of each.      *)
Safe == handled \cup skipped \cup synced
CurRows == IF handler = "events" THEN Rows(cur) ELSE {}
InUse == {cursor, asked, initialTable.hi} \cup ({saved, dump} \ {NoState})
           \cup (IF sync \in {"queueSync", "advance"} THEN {hand.hi} ELSE {})
           \cup (IF handler = "post" THEN {cur.hi} ELSE {})

InUseSafe == \A k \in InUse : 1..k \subseteq Safe
CurInOrder == handler = "events" => 1..cur.hi \subseteq Safe \cup Rows(cur)
QueueInOrder ==
  \A n \in 1..Len(queue) :
    1..queue[n].hi \subseteq Safe \cup CurRows \cup RowsTo(queue, n)
HandInOrder ==
  sync \in {"queueInit", "queuePush"} =>
    1..hand.hi \subseteq
      Safe \cup CurRows \cup QueueRows(queue) \cup Rows(hand)
SentInOrder ==
  client = "on" =>
    1..sent \subseteq Safe \cup CurRows \cup QueueRows(queue) \cup HandRows

(* Nothing has been sent on a connection that is not there.                *)
OffIsFresh ==
  (client = "none" => sync = "off") /\ (sync = "off" => sent = 0)

SafeInv == /\ InUseSafe /\ CurInOrder /\ QueueInOrder /\ HandInOrder
           /\ SentInOrder /\ OffIsFresh

-----------------------------------------------------------------------------
(* Types.                                                                  *)

(* The pipeline starts out well typed.                                     *)
LEMMA InitTyped == Init => Typed
<1> SUFFICES ASSUME Init PROVE Typed
  OBVIOUS
<1>1. CursorsTyped
  BY UpdatesAssumption, StopsAssumption
  DEF Init, CursorsTyped, Cursors, NoState
<1>2. TablesTyped /\ Len(queue) <= TableCap
  BY TableFacts, TableCapAssumption DEF Init, TablesTyped
<1>3. PlacesTyped
  BY DEF Init, PlacesTyped, SyncStates
<1>4. FlagsTyped /\ HistoryTyped
  BY DEF Init, FlagsTyped, HistoryTyped
<1> QED
  BY <1>1, <1>2, <1>3, <1>4 DEF Typed

(* The steps that leave the queue alone.                                   *)
Apart == \/ NewUpdate \/ ConnectFresh \/ ConnectCached \/ SocketReady
         \/ ConnectionLost \/ SyncRequest \/ SyncAdvance \/ MarkConnected
         \/ TakePush \/ QueueEvents \/ EventRefused \/ PostHandle
         \/ saveConnectionState \/ MinutePasses \/ CancelledLoopReturns
         \/ (\E full \in BOOLEAN : StartDisconnect(full))
         \/ StopClient \/ StoreState
         \/ (\E hi \in 0..srv : SyncAnswer(hi))

(* The steps that leave the queue alone keep the types.                    *)
LEMMA ApartTyped == Typed /\ Apart => Typed'
<1> SUFFICES ASSUME Typed, Apart PROVE Typed'
  OBVIOUS
<1>1. /\ hand.hi \in Cursors /\ cur.hi \in Cursors /\ 0 \in Cursors
      /\ Rows(cur) \subseteq Updates /\ 1..srv \subseteq Updates
      /\ (sent < srv => sent + 1 \in Updates /\ sent + 1 \in Cursors)
      /\ NoState \notin Cursors
  BY TableFacts, UpdatesAssumption
  DEF Typed, TablesTyped, CursorsTyped, Cursors, Updates, NoState
<1>2. /\ [lo |-> 1, hi |-> srv, initial |-> TRUE] \in Tables
      /\ \A hi \in 0..srv : /\ hi \in Cursors
           /\ [lo |-> asked + 1, hi |-> hi, initial |-> FALSE] \in Tables
      /\ sent < srv =>
           [lo |-> sent + 1, hi |-> sent + 1, initial |-> FALSE] \in Tables
  BY UpdatesAssumption DEF Typed, CursorsTyped, Cursors, Tables
<1> USE DEF Typed, Apart, NewUpdate, ConnectFresh, ConnectCached, SocketReady,
            ConnectionLost, SyncRequest, SyncAdvance, MarkConnected, TakePush,
            QueueEvents, EventRefused, PostHandle, saveConnectionState,
            MinutePasses, CancelledLoopReturns, StartDisconnect, StopClient,
            StoreState, SyncAnswer, connVars, syncVars, loopVars, storeVars,
            discVars, histVars, WorkerUnchanged, HandlerUnchanged
<1>3. CursorsTyped'
  <2>1. srv' \in Cursors /\ srv <= srv'
    BY UpdatesAssumption DEF CursorsTyped, Cursors
  <2>2. sent' \in Cursors
    BY <1>1, <1>2 DEF CursorsTyped
  <2>3. cursor' \in Cursors /\ asked' \in Cursors
    BY <1>1 DEF CursorsTyped
  <2>4. saved' \in Cursors \cup {NoState} /\ dump' \in Cursors \cup {NoState}
    BY <1>1 DEF CursorsTyped, DumpState
  <2>5. stops' \in 0..MaxStops
    BY StopsAssumption DEF CursorsTyped
  <2> QED
    BY <2>1, <2>2, <2>3, <2>4, <2>5 DEF CursorsTyped
<1>4. TablesTyped'
  <2>1. initialTable' \in Tables
    BY <1>2, TableFacts DEF TablesTyped
  <2>2. hand' \in Tables
    BY <1>2, TableFacts DEF TablesTyped
  <2>3. cur' \in Tables /\ queue' \in Seq(Tables)
    BY TableFacts DEF TablesTyped
  <2> QED
    BY <2>1, <2>2, <2>3 DEF TablesTyped
<1>5. PlacesTyped'
  BY DEF PlacesTyped, SyncStates
<1>6. FlagsTyped'
  BY DEF FlagsTyped
<1>7. HistoryTyped'
  <2>1. Rows(hand') \subseteq Updates
    BY <1>4, TableFacts DEF TablesTyped
  <2> QED
    BY <1>1, <2>1 DEF HistoryTyped
<1>8. Len(queue)' <= TableCap
  OBVIOUS
<1> QED
  BY <1>3, <1>4, <1>5, <1>6, <1>7, <1>8

(* The steps that put tables into the queue or take them out.              *)
LEMMA QueueTyped ==
  Typed /\ (parseAndQueueTable \/ TakeTable \/ CancelledLoopTakes
           \/ ProcessRestarts) => Typed'
<1> SUFFICES ASSUME Typed, \/ parseAndQueueTable \/ TakeTable
                           \/ CancelledLoopTakes \/ ProcessRestarts
             PROVE Typed'
  OBVIOUS
<1>1. /\ hand \in Tables /\ queue \in Seq(Tables) /\ NoTable \in Tables
      /\ Rows(hand) \subseteq Updates /\ Len(queue) \in Nat
      /\ Len(queue) <= TableCap /\ TableCap \in Nat
  BY TableFacts, TableCapAssumption DEF Typed, TablesTyped
<1>2. TablesTyped' /\ Len(queue') <= TableCap
  <2>1. CASE parseAndQueueTable
    <3>1. /\ Append(queue, hand) \in Seq(Tables)
          /\ Len(Append(queue, hand)) = Len(queue) + 1
      BY <1>1, AppendFacts
    <3> QED
      BY <1>1, <2>1, <3>1
      DEF parseAndQueueTable, HandAfterQueue, Typed, TablesTyped,
          WorkerUnchanged, loopVars
  <2>2. CASE TakeTable \/ CancelledLoopTakes
    <3>1. /\ queue # <<>> /\ queue' = Tail(queue)
          /\ Head(queue) \in Tables /\ Tail(queue) \in Seq(Tables)
          /\ Len(Tail(queue)) = Len(queue) - 1
      BY <1>1, <2>2, TailFacts DEF TakeTable, CancelledLoopTakes
    <3> QED
      BY <1>1, <2>2, <3>1
      DEF TakeTable, CancelledLoopTakes, HandlerUnchanged, Typed, TablesTyped,
          connVars, syncVars, loopVars
  <2>3. CASE ProcessRestarts
    BY <1>1, <2>3 DEF ProcessRestarts, Typed, TablesTyped
  <2> QED
    BY <2>1, <2>2, <2>3
<1>3. Rows(Head(queue)) \subseteq Updates \/ queue = <<>>
  BY <1>1, TailFacts, TableFacts
<1> USE DEF Typed, parseAndQueueTable, TakeTable, CancelledLoopTakes,
            ProcessRestarts, WorkerUnchanged, HandlerUnchanged, connVars,
            syncVars, loopVars, storeVars, discVars, histVars
<1>4. CursorsTyped'
  BY StopsAssumption, UpdatesAssumption DEF CursorsTyped, Cursors
<1>5. PlacesTyped'
  BY DEF PlacesTyped, SyncStates, AfterQueue, Queueing
<1>6. FlagsTyped'
  BY DEF FlagsTyped
<1>7. HistoryTyped'
  BY <1>1, <1>3 DEF HistoryTyped, InFlight
<1> QED
  BY <1>2, <1>4, <1>5, <1>6, <1>7

(* Stuttering changes nothing.                                             *)
LEMMA StutterTyped == Typed /\ UNCHANGED vars => Typed'
BY DEF Typed, vars, CursorsTyped, TablesTyped, PlacesTyped, FlagsTyped,
       HistoryTyped

(* Every step keeps the types.                                             *)
LEMMA NextTyped == Typed /\ [Next]_vars => Typed'
BY ApartTyped, QueueTyped, StutterTyped
DEF Next, WorkerStep, HandlerStep, DisconnectStep, Apart

(* The variables of the pipeline keep their types, and parsedTables never  *)
(* holds more tables than its capacity.                                    *)
THEOREM TypeCorrect == Spec => []TypeOK
<1>1. Spec => []Typed
  BY InitTyped, NextTyped, PTL DEF Spec
<1> QED
  BY <1>1, TypeParts, PTL

-----------------------------------------------------------------------------
(* No update is lost silently.                                             *)

(* InFlight by its four places.                                            *)
LEMMA CoveredIs ==
  Typed => Covered = handled \cup dropped \cup Rows(initialTable)
                       \cup Rows(cur) \cup HandRows \cup QueueRows(queue)
BY TableFacts
DEF Typed, TablesTyped, Covered, InFlight, HandRows, QueueRows, RowsTo

(* Covered after a step, with the queue spelt out.                         *)
LEMMA CoveredNext ==
  Typed' => Covered' = handled' \cup dropped' \cup Rows(initialTable')
                       \cup Rows(cur') \cup HandRows' \cup QueueRows(queue')
BY TableFacts
DEF Typed, TablesTyped, Covered, InFlight, HandRows, QueueRows, RowsTo

(* What a step has to show for the cursors.                                *)
LEMMA CursorsKept ==
  ASSUME LossInv, Covered \subseteq Covered',
         \A k \in Known' : k \in Known \cup {0} \/ 1..k \subseteq Covered'
  PROVE  \A k \in Known' : 1..k \subseteq Covered'
BY DEF LossInv

(* The steps that make no cursor and leave the queue alone.                *)
Quiet == \/ NewUpdate \/ ConnectCached \/ SocketReady
         \/ ConnectionLost \/ SyncRequest \/ SyncAdvance \/ MarkConnected
         \/ QueueEvents \/ EventRefused \/ PostHandle
         \/ saveConnectionState \/ MinutePasses \/ CancelledLoopReturns
         \/ (\E full \in BOOLEAN : StartDisconnect(full))
         \/ StopClient \/ StoreState

(* A step that makes no cursor moves updates only within Covered.          *)
LEMMA QuietKeeps == Typed /\ Typed' /\ LossInv /\ Quiet => LossInv'
<1> SUFFICES ASSUME Typed, Typed', LossInv, Quiet PROVE LossInv'
  OBVIOUS
<1>1. /\ Rows(NoTable) = {} /\ NoTable.hi = 0
      /\ Covered = handled \cup dropped \cup Rows(initialTable)
                     \cup Rows(cur) \cup HandRows \cup QueueRows(queue)
      /\ Covered' = handled' \cup dropped' \cup Rows(initialTable')
                     \cup Rows(cur') \cup HandRows' \cup QueueRows(queue')
  BY CoveredIs, CoveredNext, TableFacts
<1> USE DEF Quiet, NewUpdate, ConnectCached, SocketReady,
            ConnectionLost, SyncRequest, SyncAdvance, MarkConnected,
            QueueEvents, EventRefused, PostHandle, saveConnectionState,
            MinutePasses, CancelledLoopReturns, StartDisconnect, StopClient,
            StoreState, connVars, syncVars, loopVars, storeVars,
            discVars, histVars, WorkerUnchanged, HandlerUnchanged
<1>2. queue' = queue
  OBVIOUS
<1>3. Rows(initialTable) \subseteq Rows(initialTable') \cup HandRows'
  BY DEF HandRows, Queueing
<1>4. HandRows \subseteq HandRows'
  BY <1>1 DEF HandRows, Queueing
<1>5. /\ handled \subseteq handled' /\ dropped \subseteq dropped'
      /\ Rows(cur) \subseteq Rows(cur') \cup handled' \cup dropped'
  BY <1>1 DEF LossInv
<1>6. Covered \subseteq Covered'
  BY <1>1, <1>2, <1>3, <1>4, <1>5
<1>7. Known' \subseteq Known \cup {0}
  <2>1. {initialTable.hi, hand.hi, cur.hi}'
          \subseteq {initialTable.hi, hand.hi, cur.hi, 0}
    BY <1>1
  <2>2. cursor' \in {cursor, hand.hi, cur.hi, 0}
                      \cup ({saved, dump} \ {NoState})
    OBVIOUS
  <2>3. asked' \in {asked, cursor, 0} /\ sent' \in {sent, 0}
    OBVIOUS
  <2>4. {saved, dump}' \ {NoState}
          \subseteq {cursor} \cup ({saved, dump} \ {NoState})
    BY DEF DumpState
  <2> QED
    BY <1>2, <2>1, <2>2, <2>3, <2>4 DEF Known
<1>8. handler' # "events" => Rows(cur') \subseteq handled' \cup dropped'
  BY <1>1 DEF LossInv
<1>9. initialTable'.hi <= srv'
  <2>1. initialTable' \in {initialTable, NoTable} /\ srv' \in {srv, srv + 1}
    OBVIOUS
  <2>2. srv \in Nat /\ initialTable.hi \in Nat /\ initialTable.hi <= srv
    BY TableFacts, UpdatesAssumption
    DEF LossInv, Typed, CursorsTyped, TablesTyped, Cursors
  <2> HIDE DEF Quiet
  <2> QED
    BY <1>1, <2>1, <2>2
<1> QED
  BY <1>6, <1>7, <1>8, <1>9, CursorsKept DEF LossInv

(* LoadMessagesPage: the new cursor and the new initial table are one, and *)
(* what an initial table that was never queued had is in the new one.      *)
LEMMA FreshKeeps == Typed /\ Typed' /\ LossInv /\ ConnectFresh => LossInv'
<1> SUFFICES ASSUME Typed, Typed', LossInv, ConnectFresh PROVE LossInv'
  OBVIOUS
<1> USE DEF ConnectFresh, syncVars, storeVars, discVars, histVars
<1>1. /\ handled' = handled /\ dropped' = dropped /\ cur' = cur
      /\ queue' = queue /\ HandRows' = HandRows /\ srv' = srv
      /\ handler' = handler
  BY DEF HandRows, Queueing
<1>2. Rows(initialTable') = 1..srv /\ initialTable'.hi = srv
  BY DEF Rows
<1>3. Rows(initialTable) \subseteq 1..srv
  BY UpdatesAssumption
  DEF Typed, TablesTyped, CursorsTyped, Tables, Cursors, Rows, LossInv
<1>4. Covered \subseteq Covered' /\ 1..srv \subseteq Covered'
  BY <1>1, <1>2, <1>3, CoveredIs, CoveredNext
<1>5. Known' \subseteq Known \cup {srv}
  BY <1>1, <1>2 DEF Known
<1>6. srv <= srv
  BY DEF Typed, CursorsTyped, Cursors
<1> QED
  BY <1>1, <1>2, <1>4, <1>5, <1>6, CursorsKept DEF LossInv

(* An answer of the server continues the cursor it was asked with.         *)
LEMMA AnswerKeeps ==
  ASSUME Typed, Typed', LossInv, NEW hi \in 0..srv, SyncAnswer(hi)
  PROVE  LossInv'
<1> USE DEF SyncAnswer, WorkerUnchanged, loopVars, storeVars, discVars
<1>1. /\ handled' = handled /\ dropped \subseteq dropped' /\ cur' = cur
      /\ queue' = queue /\ initialTable' = initialTable /\ HandRows = {}
      /\ Rows(hand') \subseteq dropped' \cup HandRows'
      /\ srv' = srv /\ handler' = handler
  BY DEF HandRows, Queueing
<1>2. Rows(hand') = asked + 1..hi /\ hand'.hi = hi
  BY DEF Rows
<1>3. 1..asked \subseteq Covered
  BY DEF LossInv, Known
<1>4. Covered \subseteq Covered' /\ Rows(hand') \subseteq Covered'
  BY <1>1, CoveredIs, CoveredNext
<1>5. 1..hi \subseteq Covered'
  <2>1. asked \in Nat /\ hi \in Nat /\ srv \in Nat
    BY UpdatesAssumption DEF Typed, CursorsTyped, Cursors
  <2>2. 1..hi \subseteq 1..asked \cup (asked + 1..hi)
    BY <2>1
  <2> QED
    BY <1>2, <1>3, <1>4, <2>2
<1>6. Known' \subseteq Known \cup {hi}
  BY <1>1, <1>2 DEF Known
<1>7. \A k \in Known' : 1..k \subseteq Covered'
  BY <1>4, <1>5, <1>6, CursorsKept
<1> QED
  BY <1>1, <1>7 DEF LossInv

(* A pushed table continues what the server sent before it.                *)
LEMMA PushKeeps == Typed /\ Typed' /\ LossInv /\ TakePush => LossInv'
<1> SUFFICES ASSUME Typed, Typed', LossInv, TakePush PROVE LossInv'
  OBVIOUS
<1> USE DEF TakePush, WorkerUnchanged, loopVars, storeVars, discVars
<1>0. sent \in Nat
  BY UpdatesAssumption DEF Typed, CursorsTyped, Cursors
<1>1. /\ handled' = handled /\ dropped \subseteq dropped' /\ cur' = cur
      /\ queue' = queue /\ initialTable' = initialTable /\ HandRows = {}
      /\ srv' = srv /\ handler' = handler
  BY DEF HandRows, Queueing
<1>2. sent + 1 \in dropped' \cup HandRows' /\ hand'.hi \in {hand.hi, sent + 1}
  BY <1>0 DEF HandRows, Queueing, Rows
<1>3. 1..sent \subseteq Covered
  BY DEF LossInv, Known
<1>4. Covered \subseteq Covered' /\ sent + 1 \in Covered'
  BY <1>1, <1>2, CoveredIs, CoveredNext
<1>5. 1..sent + 1 \subseteq Covered'
  <2>1. 1..sent + 1 \subseteq 1..sent \cup {sent + 1}
    BY <1>0
  <2> QED
    BY <1>3, <1>4, <2>1
<1>6. Known' \subseteq Known \cup {sent + 1}
  BY <1>1, <1>2 DEF Known
<1>7. \A k \in Known' : 1..k \subseteq Covered'
  BY <1>4, <1>5, <1>6, CursorsKept
<1> QED
  BY <1>1, <1>7 DEF LossInv

(* A table moves from the worker's hand into the queue, or is given up.    *)
LEMMA PutKeeps == Typed /\ Typed' /\ LossInv /\ parseAndQueueTable => LossInv'
<1> SUFFICES ASSUME Typed, Typed', LossInv, parseAndQueueTable PROVE LossInv'
  OBVIOUS
<1>1. /\ QueueRows(Append(queue, hand)) = QueueRows(queue) \cup Rows(hand)
      /\ Ends(Append(queue, hand)) = Ends(queue) \cup {hand.hi}
      /\ NoTable.hi = 0
  BY AppendFacts, TableFacts DEF Typed, TablesTyped
<1> USE DEF parseAndQueueTable, WorkerUnchanged, loopVars, storeVars, discVars
<1>2. /\ handled' = handled /\ dropped \subseteq dropped' /\ cur' = cur
      /\ initialTable' = initialTable /\ HandRows = Rows(hand)
      /\ srv' = srv /\ handler' = handler
      /\ QueueRows(queue) \subseteq QueueRows(queue')
      /\ Rows(hand) \subseteq dropped' \cup QueueRows(queue')
      /\ Ends(queue') \subseteq Ends(queue) \cup {hand.hi}
      /\ hand'.hi \in {hand.hi, 0}
  BY <1>1 DEF HandRows, HandAfterQueue
<1>3. Covered \subseteq Covered'
  BY <1>2, CoveredIs, CoveredNext
<1>4. Known' \subseteq Known \cup {0}
  BY <1>2 DEF Known
<1>5. \A k \in Known' : 1..k \subseteq Covered'
  BY <1>3, <1>4, CursorsKept
<1> QED
  BY <1>2, <1>5 DEF LossInv

(* A table moves from the queue to a table loop, which may give it up.     *)
LEMMA GetKeeps ==
  Typed /\ Typed' /\ LossInv /\ (TakeTable \/ CancelledLoopTakes) => LossInv'
<1> SUFFICES ASSUME Typed, Typed', LossInv, TakeTable \/ CancelledLoopTakes
             PROVE LossInv'
  OBVIOUS
<1>1. /\ QueueRows(queue) = Rows(Head(queue)) \cup QueueRows(Tail(queue))
      /\ Ends(queue) = Ends(Tail(queue)) \cup {Head(queue).hi}
  BY TailFacts DEF Typed, TablesTyped, TakeTable, CancelledLoopTakes
<1> USE DEF TakeTable, CancelledLoopTakes, HandlerUnchanged, connVars,
            syncVars, loopVars, storeVars, discVars, histVars
<1>2. /\ handled' = handled /\ dropped \subseteq dropped'
      /\ initialTable' = initialTable /\ HandRows' = HandRows /\ srv' = srv
      /\ Ends(queue) = Ends(queue') \cup {Head(queue).hi}
      /\ QueueRows(queue) = Rows(Head(queue)) \cup QueueRows(queue')
  BY <1>1 DEF HandRows, Queueing
<1>3. /\ Rows(Head(queue)) \subseteq dropped' \cup Rows(cur')
      /\ Rows(cur) \subseteq handled' \cup dropped' \cup Rows(cur')
      /\ cur' \in {cur, Head(queue)}
      /\ handler' # "events" => cur' = cur /\ handler' = handler
  BY DEF LossInv
<1>4. Covered \subseteq Covered'
  BY <1>2, <1>3, CoveredIs, CoveredNext
<1>5. Known' \subseteq Known
  <2>1. /\ cur'.hi \in {cur.hi} \cup Ends(queue)
        /\ Ends(queue') \subseteq Ends(queue)
    BY <1>2, <1>3
  <2> QED
    BY <1>2, <2>1 DEF Known
<1>6. \A k \in Known' : 1..k \subseteq Covered'
  BY <1>4, <1>5, CursorsKept
<1> QED
  BY <1>2, <1>3, <1>6 DEF LossInv

(* A crash gives up what is in flight.                                     *)
LEMMA RestartKeeps ==
  Typed /\ Typed' /\ LossInv /\ ProcessRestarts => LossInv'
<1> SUFFICES ASSUME Typed, Typed', LossInv, ProcessRestarts PROVE LossInv'
  OBVIOUS
<1>1. Covered \subseteq Covered'
  BY DEF ProcessRestarts, Covered
<1>2. NoTable.hi = 0 /\ Rows(NoTable) = {} /\ srv \in Nat
  BY TableFacts, UpdatesAssumption DEF Typed, CursorsTyped, Cursors
<1>3. Known' \subseteq Known \cup {0}
  <2>1. Ends(queue') = {}
    BY DEF ProcessRestarts, Ends
  <2> QED
    BY <1>2, <2>1 DEF ProcessRestarts, Known
<1>4. \A k \in Known' : 1..k \subseteq Covered'
  BY <1>1, <1>3, CursorsKept
<1> QED
  BY <1>2, <1>4 DEF ProcessRestarts, LossInv

(* Stuttering changes nothing.                                             *)
LEMMA StutterKeeps == LossInv /\ UNCHANGED vars => LossInv'
BY DEF vars, LossInv, Known, Ends, Covered, InFlight, Queueing

(* At first every cursor is 0 and covers nothing.                          *)
LEMMA InitLoss == Init => LossInv
<1> SUFFICES ASSUME Init PROVE LossInv
  OBVIOUS
<1>1. NoTable.hi = 0 /\ Rows(NoTable) = {} /\ Ends(<<>>) = {}
  BY TableFacts DEF Ends
<1>2. Known = {0}
  BY <1>1 DEF Init, Known
<1> QED
  BY <1>1, <1>2 DEF Init, LossInv

(* The cursor, whatever moved it (page, sync or table loop, save and       *)
(* reconnect), covers no update that has vanished without a reason.        *)
THEOREM NothingLostSilently == Spec => []NoSilentLoss
<1>1. Init => Typed /\ LossInv
  BY InitTyped, InitLoss
<1>2. Typed /\ LossInv /\ [Next]_vars => (Typed /\ LossInv)'
  <2> SUFFICES ASSUME Typed, LossInv, [Next]_vars PROVE (Typed /\ LossInv)'
    OBVIOUS
  <2>1. Typed'
    BY NextTyped
  <2> QED
    BY <2>1, QuietKeeps, FreshKeeps, AnswerKeeps, PushKeeps, PutKeeps,
       GetKeeps, RestartKeeps, StutterKeeps
    DEF Next, WorkerStep, HandlerStep, DisconnectStep, Quiet
<1>3. LossInv => NoSilentLoss
  BY DEF LossInv, Known, Covered, NoSilentLoss
<1> QED
  BY <1>1, <1>2, <1>3, PTL DEF Spec

-----------------------------------------------------------------------------
(* A saved state is safe.                                                  *)

(* Every way to lose the connection forgets what was sent on it.           *)
LEMMA NextFresh == OffIsFresh /\ [Next]_vars => OffIsFresh'
<1> SUFFICES ASSUME OffIsFresh, [Next]_vars PROVE OffIsFresh'
  OBVIOUS
<1> USE DEF OffIsFresh, connVars, syncVars, WorkerUnchanged, HandlerUnchanged
<1>1. CASE NewUpdate \/ ConnectFresh \/ ConnectCached \/ MinutePasses
           \/ CancelledLoopTakes \/ CancelledLoopReturns \/ ProcessRestarts
           \/ UNCHANGED vars
  BY <1>1 DEF NewUpdate, ConnectFresh, ConnectCached, MinutePasses,
              CancelledLoopTakes, CancelledLoopReturns, ProcessRestarts, vars
<1>2. CASE SocketReady \/ ConnectionLost \/ WorkerStep
  BY <1>2 DEF SocketReady, ConnectionLost, WorkerStep, SyncRequest,
              SyncAnswer, parseAndQueueTable, Queueing, AfterQueue,
              SyncAdvance, MarkConnected, TakePush
<1>3. CASE HandlerStep \/ DisconnectStep
  BY <1>3 DEF HandlerStep, TakeTable, QueueEvents, EventRefused, PostHandle,
              saveConnectionState, DisconnectStep, StartDisconnect,
              StopClient, StoreState
<1> QED
  BY <1>1, <1>2, <1>3 DEF Next

(* The steps that make no cursor and leave the queue alone.                *)
LEMMA QuietSafe ==
  Typed /\ OffIsFresh' /\ SafeInv /\ Quiet => SafeInv'
<1> SUFFICES ASSUME Typed, OffIsFresh', SafeInv, Quiet PROVE SafeInv'
  OBVIOUS
<1>1. NoTable.hi = 0
  BY TableFacts
<1> USE DEF Quiet, NewUpdate, ConnectCached, SocketReady,
            ConnectionLost, SyncRequest, SyncAdvance, MarkConnected,
            QueueEvents, EventRefused, PostHandle, saveConnectionState,
            MinutePasses, CancelledLoopReturns, StartDisconnect, StopClient,
            StoreState, connVars, syncVars, loopVars, storeVars,
            discVars, histVars, WorkerUnchanged, HandlerUnchanged
<1>2. queue' = queue /\ Safe \subseteq Safe'
  BY DEF Safe
<1>3. \/ Safe \cup CurRows \subseteq Safe' \cup CurRows'
      \/ queue = <<>> /\ client' = "none" /\ sync' = "off"
  BY DEF Safe, CurRows
<1>4. handler' = "events" => handler = "events" /\ cur' = cur
  OBVIOUS
<1>5. sync' \in {"queueInit", "queuePush"} =>
        hand' = initialTable \/ (sync' = sync /\ hand' = hand)
  OBVIOUS
<1>6. client' = "on" => sent' = 0 \/ (client = "on" /\ sent' = sent)
  <2>1. /\ client = "none" => sent = 0
        /\ client \in {"none", "on", "closing"}
    BY DEF SafeInv, OffIsFresh, Typed, PlacesTyped
  <2> QED
    BY <2>1
<1>7. HandRows \subseteq HandRows'
  BY DEF HandRows, Queueing
<1>8. InUse' \subseteq
        InUse \cup {0} \cup (IF QueueEvents THEN {cur.hi} ELSE {})
  <2>1. /\ cursor' \in InUse \cup {0} /\ asked' \in InUse \cup {0}
        /\ initialTable'.hi \in InUse \cup {0}
    BY <1>1 DEF InUse
  <2>2. {saved, dump}' \ {NoState} \subseteq InUse
    BY DEF InUse, DumpState
  <2>3. sync' \in {"queueSync", "advance"} =>
          sync \in {"queueSync", "advance"} /\ hand' = hand
    OBVIOUS
  <2>4. handler' = "post" =>
          (handler = "post" \/ QueueEvents) /\ cur' = cur
    OBVIOUS
  <2> HIDE DEF Quiet, QueueEvents
  <2> QED
    BY <2>1, <2>2, <2>3, <2>4 DEF InUse
<1>9. QueueEvents => 1..cur.hi \subseteq Safe'
  BY DEF SafeInv, CurInOrder, Safe
<1> HIDE DEF Quiet, QueueEvents
<1>10. InUseSafe'
  BY <1>2, <1>8, <1>9 DEF SafeInv, InUseSafe
<1>11. CurInOrder'
  BY <1>2, <1>4 DEF SafeInv, CurInOrder
<1>12. QueueInOrder'
  BY <1>2, <1>3 DEF SafeInv, QueueInOrder
<1>13. HandInOrder'
  <2>1. 1..initialTable.hi \subseteq Safe
    BY DEF SafeInv, InUseSafe, InUse
  <2> QED
    BY <1>2, <1>3, <1>5, <2>1 DEF SafeInv, HandInOrder
<1>14. SentInOrder'
  BY <1>2, <1>3, <1>6, <1>7 DEF SafeInv, SentInOrder
<1> QED
  BY <1>10, <1>11, <1>12, <1>13, <1>14 DEF SafeInv

(* What the page of a fresh connection covers counts as synced.            *)
LEMMA FreshSafe == Typed /\ OffIsFresh' /\ SafeInv /\ ConnectFresh => SafeInv'
<1> SUFFICES ASSUME Typed, OffIsFresh', SafeInv, ConnectFresh PROVE SafeInv'
  OBVIOUS
<1> USE DEF ConnectFresh, syncVars, storeVars, discVars, histVars
<1>1. /\ queue' = queue /\ Safe' = Safe \cup 1..srv /\ CurRows' = CurRows
      /\ handler' = handler /\ cur' = cur /\ sync' = sync /\ hand' = hand
      /\ sent' = 0
  BY DEF Safe, CurRows, SafeInv, OffIsFresh
<1>2. InUse' \subseteq InUse \cup {srv}
  BY DEF InUse
<1> HIDE DEF ConnectFresh
<1>3. InUseSafe'
  BY <1>1, <1>2 DEF SafeInv, InUseSafe
<1>4. CurInOrder' /\ QueueInOrder' /\ HandInOrder' /\ SentInOrder'
  BY <1>1 DEF SafeInv, CurInOrder, QueueInOrder, HandInOrder, SentInOrder
<1> QED
  BY <1>3, <1>4 DEF SafeInv

(* An answer to a sync brings updates that count as synced.                *)
LEMMA AnswerSafe ==
  ASSUME Typed, OffIsFresh', SafeInv, NEW hi \in 0..srv, SyncAnswer(hi)
  PROVE  SafeInv'
<1> USE DEF SyncAnswer, WorkerUnchanged, loopVars, storeVars, discVars
<1>1. /\ queue' = queue /\ Safe' = Safe \cup Rows(hand') /\ CurRows' = CurRows
      /\ handler' = handler /\ cur' = cur
      /\ sync' \notin {"queueInit", "queuePush"} /\ sent' = hi
  BY DEF Safe, CurRows
<1>2. Rows(hand') = asked + 1..hi /\ hand'.hi = hi
  BY DEF Rows
<1>3. 1..hi \subseteq Safe'
  <2>1. asked \in Nat /\ hi \in Nat /\ srv \in Nat
    BY UpdatesAssumption DEF Typed, CursorsTyped, Cursors
  <2>2. 1..hi \subseteq 1..asked \cup (asked + 1..hi)
    BY <2>1
  <2>3. 1..asked \subseteq Safe
    BY DEF SafeInv, InUseSafe, InUse
  <2> HIDE DEF SyncAnswer
  <2> QED
    BY <1>1, <1>2, <2>2, <2>3
<1>4. InUse' \subseteq InUse \cup {hi}
  BY <1>2 DEF InUse
<1> HIDE DEF SyncAnswer
<1>5. InUseSafe'
  BY <1>1, <1>3, <1>4 DEF SafeInv, InUseSafe
<1>6. CurInOrder' /\ QueueInOrder' /\ HandInOrder' /\ SentInOrder'
  BY <1>1, <1>3
  DEF SafeInv, CurInOrder, QueueInOrder, HandInOrder, SentInOrder
<1> QED
  BY <1>5, <1>6 DEF SafeInv

(* A pushed table continues what was sent before it.                       *)
LEMMA PushSafe == Typed /\ OffIsFresh' /\ SafeInv /\ TakePush => SafeInv'
<1> SUFFICES ASSUME Typed, OffIsFresh', SafeInv, TakePush PROVE SafeInv'
  OBVIOUS
<1>0. sent \in Nat /\ 1..sent + 1 \subseteq 1..sent \cup {sent + 1}
  BY UpdatesAssumption DEF Typed, CursorsTyped, Cursors
<1> USE DEF TakePush, WorkerUnchanged, loopVars, storeVars, discVars
<1>1. /\ queue' = queue /\ Safe' = Safe /\ CurRows' = CurRows
      /\ handler' = handler /\ cur' = cur /\ client' = client
      /\ HandRows = {} /\ sync' \in {"live", "queuePush"}
      /\ InUse' \subseteq InUse
  BY DEF Safe, CurRows, HandRows, Queueing, InUse
<1>2. client = "on" => /\ hand'.hi = sent + 1 /\ sent + 1 \in Rows(hand')
                       /\ HandRows' = Rows(hand') /\ sent' = sent + 1
  BY <1>0 DEF Rows, HandRows, Queueing
<1>3. client # "on" => sync' = "live"
  OBVIOUS
<1> HIDE DEF TakePush
<1>4. InUseSafe' /\ CurInOrder' /\ QueueInOrder'
  BY <1>1 DEF SafeInv, InUseSafe, CurInOrder, QueueInOrder
<1>5. client = "on" =>
        1..sent + 1 \subseteq
          Safe \cup CurRows \cup QueueRows(queue) \cup Rows(hand')
  BY <1>0, <1>1, <1>2 DEF SafeInv, SentInOrder
<1>6. HandInOrder' /\ SentInOrder'
  BY <1>1, <1>2, <1>3, <1>5 DEF HandInOrder, SentInOrder
<1> QED
  BY <1>4, <1>6 DEF SafeInv

(* A table goes to the end of the queue behind all it builds on.           *)
LEMMA PutSafe ==
  Typed /\ OffIsFresh' /\ SafeInv /\ parseAndQueueTable => SafeInv'
<1> SUFFICES ASSUME Typed, OffIsFresh', SafeInv, parseAndQueueTable
             PROVE SafeInv'
  OBVIOUS
<1>0. /\ hand \in Tables /\ queue \in Seq(Tables) /\ Len(queue) \in Nat
      /\ NoTable.hi = 0
  BY TableFacts DEF Typed, TablesTyped
<1> USE DEF parseAndQueueTable, WorkerUnchanged, loopVars, storeVars, discVars
<1>1. /\ Safe' = Safe /\ CurRows' = CurRows /\ handler' = handler
      /\ cur' = cur /\ client' = client /\ sent' = sent
      /\ HandRows = Rows(hand)
      /\ sync' \notin {"queueSync", "queueInit", "queuePush"}
  BY DEF Safe, CurRows, HandRows, Queueing, AfterQueue
<1>2. InUse' \subseteq InUse
  BY DEF InUse, Queueing, AfterQueue, HandAfterQueue
<1>3. \/ queue' = Append(queue, hand)
      \/ queue' = queue /\ client # "on"
  BY DEF ctxDone
<1>4. sync \in {"queueSync", "queueInit", "queuePush"}
  BY DEF Queueing
<1> HIDE DEF parseAndQueueTable
<1>5. InUseSafe' /\ CurInOrder' /\ HandInOrder'
  BY <1>1, <1>2 DEF SafeInv, InUseSafe, CurInOrder, HandInOrder
<1>6. CASE queue' = Append(queue, hand)
  <2>1. /\ Len(queue') = Len(queue) + 1 /\ queue'[Len(queue) + 1] = hand
        /\ \A m \in 1..Len(queue) : queue'[m] = queue[m]
        /\ QueueRows(queue') = QueueRows(queue) \cup Rows(hand)
    BY <1>0, <1>6, AppendFacts
  <2>2. 1..hand.hi \subseteq Safe \cup CurRows \cup QueueRows(queue')
    <3>1. CASE sync = "queueSync"
      BY <3>1 DEF SafeInv, InUseSafe, InUse
    <3>2. CASE sync # "queueSync"
      BY <1>4, <2>1, <3>2 DEF SafeInv, HandInOrder
    <3> QED
      BY <3>1, <3>2
  <2>3. ASSUME NEW n \in 1..Len(queue')
        PROVE  1..queue'[n].hi \subseteq
                 Safe \cup CurRows \cup RowsTo(queue', n)
    <3>1. CASE n = Len(queue) + 1
      BY <2>1, <2>2, <3>1 DEF QueueRows
    <3>2. CASE n # Len(queue) + 1
      <4>1. n \in 1..Len(queue) /\ queue'[n] = queue[n]
        BY <1>0, <2>1, <3>2
      <4>2. RowsTo(queue', n) = RowsTo(queue, n)
        BY <1>0, <2>1, <4>1 DEF RowsTo
      <4> QED
        BY <4>1, <4>2 DEF SafeInv, QueueInOrder
    <3> QED
      BY <3>1, <3>2
  <2>4. QueueInOrder'
    BY <1>1, <2>3 DEF QueueInOrder
  <2>5. SentInOrder'
    BY <1>1, <2>1 DEF SafeInv, SentInOrder
  <2> QED
    BY <1>5, <2>4, <2>5 DEF SafeInv
<1>7. CASE queue' = queue /\ client # "on"
  BY <1>1, <1>5, <1>7 DEF SafeInv, QueueInOrder, SentInOrder
<1> QED
  BY <1>3, <1>6, <1>7

(* The table loop takes the tables in the order of the queue; one that a   *)
(* cancelled loop takes is skipped.                                        *)
LEMMA GetSafe ==
  Typed /\ OffIsFresh' /\ SafeInv /\ (TakeTable \/ CancelledLoopTakes)
    => SafeInv'
<1> SUFFICES ASSUME Typed, OffIsFresh', SafeInv,
                    TakeTable \/ CancelledLoopTakes
             PROVE SafeInv'
  OBVIOUS
<1>1. /\ queue \in Seq(Tables) /\ queue # <<>> /\ queue' = Tail(queue)
  BY DEF Typed, TablesTyped, TakeTable, CancelledLoopTakes
<1>2. /\ QueueRows(queue) = Rows(Head(queue)) \cup QueueRows(queue')
      /\ RowsTo(queue, 1) = Rows(Head(queue)) /\ queue[1] = Head(queue)
      /\ \A n \in 1..Len(queue') :
           /\ queue'[n] = queue[n + 1] /\ n + 1 \in 1..Len(queue)
           /\ RowsTo(queue, n + 1) = Rows(Head(queue)) \cup RowsTo(queue', n)
      /\ 1 \in 1..Len(queue)
  BY <1>1, TailFacts
<1> USE DEF TakeTable, CancelledLoopTakes, HandlerUnchanged, connVars,
            syncVars, loopVars, storeVars, discVars, histVars
<1>3. /\ Safe \subseteq Safe' /\ CurRows \subseteq CurRows'
      /\ Rows(Head(queue)) \subseteq Safe' \cup CurRows'
  BY DEF Safe, CurRows
<1>4. /\ sync' = sync /\ hand' = hand /\ client' = client /\ sent' = sent
      /\ HandRows' = HandRows
  BY DEF HandRows, Queueing
<1>5. InUse' \subseteq InUse
  BY DEF InUse
<1>6. handler' = "events" =>
        \/ handler = "events" /\ cur' = cur
        \/ handler = "idle" /\ cur' = Head(queue)
  OBVIOUS
<1>7. handler' = "events" => CurRows' = Rows(cur')
  BY DEF CurRows
<1> HIDE DEF TakeTable, CancelledLoopTakes
<1>8. InUseSafe'
  BY <1>3, <1>5 DEF SafeInv, InUseSafe
<1>9. CurInOrder'
  <2>1. 1..Head(queue).hi \subseteq Safe \cup CurRows \cup Rows(Head(queue))
    BY <1>2 DEF SafeInv, QueueInOrder
  <2> QED
    BY <1>3, <1>6, <1>7, <2>1 DEF SafeInv, CurInOrder, CurRows
<1>10. QueueInOrder'
  <2>1. ASSUME NEW n \in 1..Len(queue')
        PROVE  1..queue'[n].hi \subseteq
                 Safe' \cup CurRows' \cup RowsTo(queue', n)
    <3>1. 1..queue[n + 1].hi \subseteq
            Safe \cup CurRows \cup RowsTo(queue, n + 1)
      BY <1>2 DEF SafeInv, QueueInOrder
    <3> QED
      BY <1>2, <1>3, <3>1
  <2> QED
    BY <2>1 DEF QueueInOrder
<1>11. HandInOrder' /\ SentInOrder'
  BY <1>2, <1>3, <1>4 DEF SafeInv, HandInOrder, SentInOrder
<1> QED
  BY <1>8, <1>9, <1>10, <1>11 DEF SafeInv

(* A crash leaves the saved state only, which was safe.                    *)
LEMMA RestartSafe ==
  Typed /\ OffIsFresh' /\ SafeInv /\ ProcessRestarts => SafeInv'
<1> SUFFICES ASSUME Typed, OffIsFresh', SafeInv, ProcessRestarts
             PROVE SafeInv'
  OBVIOUS
<1>1. NoTable.hi = 0
  BY TableFacts
<1>2. Safe' = Safe /\ InUse' \subseteq InUse \cup {0}
  BY <1>1 DEF ProcessRestarts, Safe, InUse
<1>3. InUseSafe'
  BY <1>2 DEF SafeInv, InUseSafe
<1>4. CurInOrder' /\ QueueInOrder' /\ HandInOrder' /\ SentInOrder'
  BY DEF ProcessRestarts, CurInOrder, QueueInOrder, HandInOrder, SentInOrder
<1> QED
  BY <1>3, <1>4 DEF SafeInv

(* Stuttering changes nothing.                                             *)
LEMMA StutterSafe == SafeInv /\ UNCHANGED vars => SafeInv'
<1> SUFFICES ASSUME SafeInv, UNCHANGED vars PROVE SafeInv'
  OBVIOUS
<1>1. /\ Safe' = Safe /\ CurRows' = CurRows /\ HandRows' = HandRows
      /\ InUse' = InUse
  BY DEF vars, Safe, CurRows, HandRows, Queueing, InUse
<1> QED
  BY <1>1 DEF vars, SafeInv, InUseSafe, CurInOrder, QueueInOrder, HandInOrder,
              SentInOrder, OffIsFresh

(* At first every cursor is 0 and covers nothing.                          *)
LEMMA InitSafe == Init => SafeInv
<1> SUFFICES ASSUME Init PROVE SafeInv
  OBVIOUS
<1>1. InUse = {0}
  BY TableFacts DEF Init, InUse
<1> QED
  BY <1>1 DEF Init, SafeInv, InUseSafe, CurInOrder, QueueInOrder, HandInOrder,
              SentInOrder, OffIsFresh

(* Every step keeps what makes a saved state safe.                         *)
LEMMA NextSafe == Typed /\ SafeInv /\ [Next]_vars => SafeInv'
<1> SUFFICES ASSUME Typed, SafeInv, [Next]_vars PROVE SafeInv'
  OBVIOUS
<1>1. OffIsFresh'
  BY NextFresh DEF SafeInv
<1> QED
  BY <1>1, QuietSafe, FreshSafe, AnswerSafe, PushSafe, PutSafe, GetSafe,
     RestartSafe, StutterSafe
  DEF Next, WorkerStep, HandlerStep, DisconnectStep, Quiet

(* The database never holds a cursor past a pushed update that the bridge  *)
(* neither accepted nor skipped for one of the known reasons, however      *)
(* saves, reconnects, disconnects and crashes interleave.                  *)
THEOREM SavedIsSafe == Spec => []PushedUpdatesSafe
<1>1. Init => Typed /\ SafeInv
  BY InitTyped, InitSafe
<1>2. Typed /\ SafeInv /\ [Next]_vars => (Typed /\ SafeInv)'
  BY NextTyped, NextSafe
<1>3. SafeInv => PushedUpdatesSafe
  BY DEF SafeInv, InUseSafe, InUse, Safe, PushedUpdatesSafe
<1> QED
  BY <1>1, <1>2, <1>3, PTL DEF Spec

-----------------------------------------------------------------------------
(* The pipeline implements DurableCursor.                                  *)

(* A disconnect holds a cursor to save only after it forgot the client.    *)
DumpFits == /\ disc # "store" => dump = NoState
            /\ disc \in {"store", "delete"} => client = "none"

(* Only StopClient dumps a state, and StoreState or a crash consumes it.   *)
LEMMA NextDump == DumpFits /\ [Next]_vars => DumpFits'
<1> SUFFICES ASSUME DumpFits, [Next]_vars PROVE DumpFits'
  OBVIOUS
<1> USE DEF DumpFits, connVars, discVars, WorkerUnchanged, HandlerUnchanged
<1>1. CASE NewUpdate \/ ConnectFresh \/ ConnectCached \/ MinutePasses
           \/ CancelledLoopTakes \/ CancelledLoopReturns \/ ProcessRestarts
           \/ UNCHANGED vars
  BY <1>1 DEF NewUpdate, ConnectFresh, ConnectCached, MinutePasses,
              CancelledLoopTakes, CancelledLoopReturns, ProcessRestarts, vars
<1>2. CASE SocketReady \/ ConnectionLost \/ WorkerStep
  BY <1>2 DEF SocketReady, ConnectionLost, WorkerStep, SyncRequest,
              SyncAnswer, parseAndQueueTable, SyncAdvance, MarkConnected,
              TakePush
<1>3. CASE HandlerStep \/ DisconnectStep
  BY <1>3 DEF HandlerStep, TakeTable, QueueEvents, EventRefused, PostHandle,
              saveConnectionState, DisconnectStep, StartDisconnect,
              StopClient, StoreState
<1> QED
  BY <1>1, <1>2, <1>3 DEF Next

(* What the steps of DurableCursor are about.                              *)
logVars == <<CursorInUse, saved, handled, Excused>>

(* The steps that neither use a new cursor nor save one, and that neither  *)
(* accept nor excuse an update.                                            *)
Silent == \/ NewUpdate \/ SocketReady \/ ConnectionLost \/ SyncRequest
          \/ parseAndQueueTable \/ MarkConnected \/ TakePush \/ TakeTable
          \/ MinutePasses \/ CancelledLoopReturns
          \/ (\E full \in BOOLEAN : StartDisconnect(full))
          \/ UNCHANGED vars

(* They do not show in DurableCursor.                                      *)
LEMMA SilentStutters == Silent => UNCHANGED logVars
<1> SUFFICES ASSUME Silent PROVE UNCHANGED logVars
  OBVIOUS
<1>1. /\ (client' = client \/ (client = "on" /\ client' = "closing"))
      /\ cursor' = cursor /\ dump' = dump /\ saved' = saved
      /\ handled' = handled /\ skipped' = skipped /\ synced' = synced
  BY DEF Silent, NewUpdate, SocketReady, ConnectionLost, SyncRequest,
         parseAndQueueTable, MarkConnected, TakePush, TakeTable,
         MinutePasses, CancelledLoopReturns, StartDisconnect, connVars,
         syncVars, loopVars, storeVars, discVars, histVars, vars,
         WorkerUnchanged, HandlerUnchanged
<1> QED
  BY <1>1 DEF logVars, CursorInUse, Excused

(* A fresh connection takes the cursor of the page, one from the cache the *)
(* saved one.                                                              *)
LEMMA ConnectStarts ==
  Typed /\ DumpFits /\ (ConnectFresh \/ ConnectCached) => Log!Next
<1> SUFFICES ASSUME Typed, DumpFits, ConnectFresh \/ ConnectCached
             PROVE Log!Next
  OBVIOUS
<1>1. CursorInUse = NoState
  BY DEF ConnectFresh, ConnectCached, DumpFits, CursorInUse
<1>2. CASE ConnectFresh
  <2>1. /\ CursorInUse' = srv /\ Excused' = Excused \cup 1..srv
        /\ saved' = saved /\ handled' = handled
    BY <1>2 DEF ConnectFresh, CursorInUse, Excused, storeVars, histVars
  <2>2. srv \in Log!Cursors
    BY DEF Typed, CursorsTyped, Cursors, Log!Cursors
  <2> QED
    BY <1>1, <2>1, <2>2 DEF Log!Next, Log!StartFresh
<1>3. CASE ConnectCached
  BY <1>1, <1>3
  DEF ConnectCached, CursorInUse, Excused, storeVars, histVars, Log!Next,
      Log!Resume
<1> QED
  BY <1>2, <1>3

(* Tables that are accepted by the bridge, or that it need not get.        *)
LEMMA UpdatesCount ==
  ASSUME Typed, Typed',
         \/ QueueEvents \/ EventRefused \/ CancelledLoopTakes
         \/ (\E hi \in 0..srv : SyncAnswer(hi))
  PROVE  Log!Next
<1>1. /\ Rows(cur) \in SUBSET Log!Updates
      /\ Rows(hand') \in SUBSET Log!Updates
      /\ (queue # <<>> => Rows(Head(queue)) \in SUBSET Log!Updates)
  BY TableFacts, TailFacts DEF Typed, TablesTyped, Updates, Log!Updates
<1>2. UNCHANGED <<CursorInUse, saved>>
  BY DEF CursorInUse, QueueEvents, EventRefused, CancelledLoopTakes,
         SyncAnswer, HandlerUnchanged, WorkerUnchanged, connVars, syncVars,
         storeVars, discVars
<1>3. CASE QueueEvents
  BY <1>1, <1>2, <1>3
  DEF QueueEvents, HandlerUnchanged, Excused, Log!Next, Log!Accept
<1>4. CASE EventRefused
  <2>1. Excused' = Excused \cup Rows(cur) /\ handled' = handled
    BY <1>4 DEF EventRefused, HandlerUnchanged, Excused
  <2> QED
    BY <1>1, <1>2, <2>1 DEF Log!Next, Log!Excuse
<1>5. CASE CancelledLoopTakes
  <2>1. /\ Excused' = Excused \cup Rows(Head(queue)) /\ handled' = handled
        /\ queue # <<>>
    BY <1>5 DEF CancelledLoopTakes, Excused
  <2> QED
    BY <1>1, <1>2, <2>1 DEF Log!Next, Log!Excuse
<1>6. ASSUME NEW hi \in 0..srv, SyncAnswer(hi) PROVE Log!Next
  <2>1. Excused' = Excused \cup Rows(hand') /\ handled' = handled
    BY <1>6 DEF SyncAnswer, WorkerUnchanged, Excused
  <2> QED
    BY <1>1, <1>2, <2>1 DEF Log!Next, Log!Excuse
<1> QED
  BY <1>3, <1>4, <1>5, <1>6

(* The cursor moves to one that may be used: what an answer led to, or a   *)
(* table whose events were accepted.                                       *)
LEMMA CursorMoves ==
  ASSUME Typed, SafeInv, SyncAdvance \/ PostHandle
  PROVE  Log!Next \/ UNCHANGED logVars
<1>1. /\ client' = client /\ dump' = dump /\ saved' = saved
      /\ handled' = handled /\ skipped' = skipped /\ synced' = synced
  BY DEF SyncAdvance, PostHandle, WorkerUnchanged, HandlerUnchanged,
         storeVars, discVars, histVars
<1>2. CASE cursor' = cursor
  BY <1>1, <1>2 DEF logVars, CursorInUse, Excused
<1>3. CASE cursor' # cursor
  <2>1. client # "none" /\ 1..cursor' \subseteq Safe
    BY <1>3 DEF SyncAdvance, PostHandle, SafeInv, InUseSafe, InUse, OffIsFresh
  <2>2. cursor \in Cursors /\ cursor' \in Cursors
    BY TableFacts
    DEF SyncAdvance, PostHandle, Typed, CursorsTyped, TablesTyped
  <2>3. cursor # NoState /\ cursor' \in Log!Cursors
    BY <2>2, UpdatesAssumption DEF Cursors, NoState, Log!Cursors
  <2> QED
    BY <1>1, <2>1, <2>3
    DEF CursorInUse, Excused, Safe, Log!Next, Log!Move, Log!Covers
<1> QED
  BY <1>2, <1>3

(* What is saved is the cursor in use.                                     *)
LEMMA CursorSaved ==
  ASSUME Typed, DumpFits, saveConnectionState \/ StoreState
  PROVE  Log!Next \/ UNCHANGED logVars
<1>1. /\ client' = client /\ cursor' = cursor
      /\ handled' = handled /\ Excused' = Excused
  BY DEF saveConnectionState, StoreState, HandlerUnchanged, Excused,
         connVars, histVars
<1>2. CASE saveConnectionState
  <2>1. dump' = dump
    BY <1>2 DEF saveConnectionState, HandlerUnchanged, discVars
  <2>2. CASE saved' = saved
    BY <1>1, <2>1, <2>2 DEF logVars, CursorInUse
  <2>3. CASE saved' # saved
    <3>1. saved' = CursorInUse /\ CursorInUse # NoState
      BY <1>2, <2>3 DEF saveConnectionState, DumpState, CursorInUse
    <3> QED
      BY <1>1, <2>1, <3>1 DEF CursorInUse, Log!Next, Log!Save
  <2> QED
    BY <2>2, <2>3
<1>3. CASE StoreState
  <2>1. CursorInUse = dump /\ CursorInUse' = NoState
    BY <1>1, <1>3 DEF StoreState, DumpFits, CursorInUse
  <2>2. CASE disc = "delete"
    <3>1. dump = NoState /\ saved' = NoState
      BY <1>3, <2>2 DEF StoreState, DumpFits
    <3> QED
      BY <1>1, <2>1, <3>1 DEF Log!Next, Log!Forget
  <2>3. CASE disc # "delete" /\ initialHandled /\ dump # NoState
    <3>1. saved' = dump
      BY <1>3, <2>3 DEF StoreState
    <3> QED
      BY <1>1, <2>1, <2>3, <3>1 DEF Log!Next, Log!SaveAndStop
  <2>4. CASE disc # "delete" /\ ~(initialHandled /\ dump # NoState)
    <3>1. saved' = saved
      BY <1>3, <2>4 DEF StoreState
    <3>2. {} \in SUBSET Log!Updates /\ Excused' = Excused \cup {}
      BY <1>1
    <3> QED
      BY <1>1, <2>1, <3>1, <3>2 DEF Log!Next, Log!Stop
  <2> QED
    BY <2>2, <2>3, <2>4
<1> QED
  BY <1>2, <1>3

(* A disconnect keeps the cursor to save it or drops it, and may cut a     *)
(* table short; a crash drops it.                                          *)
LEMMA CursorDropped ==
  ASSUME Typed, DumpFits, StopClient \/ ProcessRestarts
  PROVE  Log!Next
<1>1. saved' = saved /\ handled' = handled
  BY DEF StopClient, ProcessRestarts, storeVars
<1>2. CASE StopClient
  <2>1. /\ CursorInUse' = dump' /\ dump = NoState
        /\ dump' \in {NoState, DumpState}
    BY <1>2 DEF StopClient, CursorInUse, DumpFits
  <2>2. CursorInUse' \in {NoState, CursorInUse}
    BY <2>1 DEF DumpState, CursorInUse
  <2>3. PICK rows \in {{}, Rows(cur)} : skipped' = skipped \cup rows
    <3>1. skipped' \in {skipped, skipped \cup Rows(cur)}
      BY <1>2 DEF StopClient
    <3> QED
      BY <3>1
  <2>4. rows \in SUBSET Log!Updates
    BY TableFacts DEF Typed, TablesTyped, Updates, Log!Updates
  <2>5. Excused' = Excused \cup rows
    BY <1>2, <2>3 DEF StopClient, Excused
  <2> QED
    BY <1>1, <2>2, <2>4, <2>5 DEF Log!Next, Log!Stop, Log!Excuse
<1>3. CASE ProcessRestarts
  <2>1. CursorInUse' = NoState /\ Excused' = Excused \cup {}
    BY <1>3 DEF ProcessRestarts, CursorInUse, Excused
  <2>2. {} \in SUBSET Log!Updates
    OBVIOUS
  <2> QED
    BY <1>1, <2>1, <2>2 DEF Log!Next, Log!Stop
<1> QED
  BY <1>2, <1>3

(* Every step of the pipeline is a step of DurableCursor, or does not show *)
(* in it.                                                                  *)
LEMMA StepKeepsCursor ==
  ASSUME Typed, Typed', SafeInv, DumpFits, [Next]_vars
  PROVE  Log!Next \/ UNCHANGED logVars
BY SilentStutters, ConnectStarts, UpdatesCount, CursorMoves, CursorSaved,
   CursorDropped
DEF Next, WorkerStep, HandlerStep, DisconnectStep, Silent

(* Refinement: sync manager, table queue, table loop and the saves around  *)
(* them treat the cursor the way DurableCursor promises.                   *)
THEOREM Refinement == Spec => KeepsCursor
<1>1. Init => Typed /\ SafeInv /\ DumpFits
  BY InitTyped, InitSafe DEF Init, DumpFits
<1>2. Typed /\ SafeInv /\ DumpFits /\ [Next]_vars
        => (Typed /\ SafeInv /\ DumpFits)'
  BY NextTyped, NextSafe, NextDump
<1>3. Init => Log!Init
  BY DEF Init, Log!Init, CursorInUse, Excused
<1>4. Typed /\ Typed' /\ SafeInv /\ DumpFits /\ [Next]_vars
        => [Log!Next]_(Log!vars)
  BY StepKeepsCursor DEF logVars, Log!vars
<1> QED
  BY <1>1, <1>2, <1>3, <1>4, PTL DEF Spec, KeepsCursor, Log!Spec

(* DurableCursor keeps its promise: resuming from the database, or going   *)
(* on with the cursor in use, skips no update.                             *)
THEOREM ResumingSkipsNothing == Log!Spec => []Log!NothingSkipped
<1>1. Log!Init => Log!NothingSkipped
  BY DEF Log!Init, Log!NothingSkipped
<1>2. Log!NothingSkipped /\ [Log!Next]_(Log!vars) => Log!NothingSkipped'
  <2> SUFFICES ASSUME Log!NothingSkipped, [Log!Next]_(Log!vars)
               PROVE Log!NothingSkipped'
    OBVIOUS
  <2> USE DEF Log!NothingSkipped, Log!Covers
  <2>1. ASSUME NEW rows \in SUBSET Log!Updates,
               Log!Accept(rows) \/ Log!Excuse(rows) \/ Log!Stop(rows)
        PROVE  Log!NothingSkipped'
    BY <2>1 DEF Log!Accept, Log!Excuse, Log!Stop
  <2>2. ASSUME NEW k \in Log!Cursors, Log!StartFresh(k) \/ Log!Move(k)
        PROVE  Log!NothingSkipped'
    BY <2>2 DEF Log!StartFresh, Log!Move
  <2>3. CASE Log!Resume \/ Log!Save \/ Log!SaveAndStop \/ Log!Forget
    BY <2>3 DEF Log!Resume, Log!Save, Log!SaveAndStop, Log!Forget
  <2>4. CASE UNCHANGED Log!vars
    BY <2>4 DEF Log!vars
  <2> QED
    BY <2>1, <2>2, <2>3, <2>4 DEF Log!Next
<1> QED
  BY <1>1, <1>2, PTL DEF Log!Spec
-----------------------------------------------------------------------------
(* RemoteEvents: the events of a table.                                    *)

(* The rows of an operation, and the operations of a table.                *)
RowOp(op) == IF op = "selfLeave" THEN "removeParticipant" ELSE op
TableOps ==
  {"folder", "deleteThread", "selfLeave", "verifyExists", "addParticipant",
   "mute", "moveToE2EE", "range", "thread", "insertMessage", "edit", "name",
   "image", "readReceipt", "markRead", "typing", "deleteMessage",
   "deleteThenInsert", "reaction", "deleteReaction", "removeParticipant"}

(* The accumulator of parseTable is a record with these fields, an entry   *)
(* of its threadResyncs one with these, and its lists are sequences.       *)
IsAcc(a) ==
  a = [queue |-> a.queue, tbl |-> a.tbl, db |-> a.db, stored |-> a.stored,
       collecting |-> a.collecting, collected |-> a.collected,
       ignored |-> a.ignored, privateMeta |-> a.privateMeta,
       vtes |-> a.vtes, syncs |-> a.syncs]
IsSync(s) == s = [row |-> s.row, merged |-> s.merged]
IsSeq(q) == \E S : q \in Seq(S)

(* The rows that say of a thread that it exists, or bring it up to date,   *)
(* agree on its type (Types); that stays so, and the threads to bring up   *)
(* to date stay those of the table.                                        *)
Agreed(a) ==
  /\ \A k \in DOMAIN a.vtes : a.vtes[k].type = Types[k]
  /\ \A k \in DOMAIN a.syncs : a.syncs[k].row.type = Types[k]
TypesAgree(a) ==
  /\ \A k \in DOMAIN a.vtes : a.vtes[k].type = Types[k]
  /\ a.syncs = [k \in DOMAIN a.syncs |-> a.syncs[k]]
  /\ \A k \in DOMAIN a.syncs :
       IsSync(a.syncs[k]) /\ a.syncs[k].row.type = Types[k]
  /\ RE!Keys(RE!Rows(a.tbl, "thread")) = DOMAIN a.syncs

(* parseTable as a process: from its start it goes through the operations  *)
(* in their order (at) and handles rows of them, each at most once (seen). *)
(* parseTable's folds make these steps, in the order of the table, when no *)
(* two rows of a table are the same.                                       *)
tableVars == <<acc, at, seen>>
TableInit ==
  /\ \E tbl, state : acc = RE!parseStart(tbl, state)
  /\ Agreed(acc) /\ at = 1 /\ seen = {}
NextOp ==
  at < 21 /\ at' = at + 1 /\ UNCHANGED <<acc, seen>>
HandleRow(row) ==
  LET op == RE!Order[at]
  IN /\ row \in RE!ToSet(RE!RowsOf(acc.tbl, op)) /\ row.op = RowOp(op)
     /\ <<op, row>> \notin seen /\ seen' = seen \cup {<<op, row>>}
     /\ acc' = RE!Handle(acc, op, row, Split) /\ UNCHANGED at
TableNext == NextOp \/ \E row : HandleRow(row)
TableSpec == TableInit /\ [][TableNext]_tableVars

(* The portal of a thread of known type.                                   *)
PortalOf(k) == [id |-> k, receiver |-> Split \/ Types[k] \in RE!OneToOne]

(* What holds of each event in the queue: a chat that is deleted is not    *)
(* active in the table, one that is brought up to date is, and the key is  *)
(* that of the thread's portal unless it is marked as uncertain.           *)
Fine(e, tbl) ==
  /\ e.ev = "chatDelete" => e.row.k \notin RE!activeThreads(tbl)
  /\ e.ev = "resync" /\ e.row.op # "folder" =>
       e.key.id \in RE!activeThreads(tbl)
  /\ e.uncertain \/ e.ev = "edit" \/ e.row.op = "folder"
       \/ e.key = PortalOf(e.key.id)
AllFine(q, tbl) ==
  IsSeq(q) /\ \A i \in 1..Len(q) : Fine(q[i], tbl)

(* parseTable starts with nothing queued, merged or collected.             *)
LEMMA StartGood ==
  ASSUME NEW tbl, NEW state, NEW a, a = RE!parseStart(tbl, state), Agreed(a)
  PROVE  /\ IsAcc(a) /\ TypesAgree(a)
         /\ a.queue = <<>> /\ a.collected = <<>> /\ a.ignored = <<>>
         /\ \A k \in DOMAIN a.syncs : a.syncs[k].merged = <<>>
<1> DEFINE threads == RE!Keys(RE!Rows(tbl, "thread"))
           Entry(k) == [row |-> RE!ByKey(RE!Rows(tbl, "thread"))[k],
                        merged |-> <<>>]
           syncs == [k \in threads |-> Entry(k)]
           vtes == RE!ByKey(RE!Rows(tbl, "verifyExists"))
<1>1. a = [queue |-> <<>>, tbl |-> tbl, db |-> state.db,
           stored |-> state.stored, collecting |-> state.collecting,
           collected |-> <<>>, ignored |-> <<>>,
           privateMeta |-> state.privateMeta,
           vtes |-> vtes, syncs |-> syncs]
  BY DEF RE!parseStart
<1>2. \A k : IsSync(Entry(k)) /\ Entry(k).merged = <<>>
  BY DEF IsSync
<1>3. DOMAIN syncs = RE!Keys(RE!Rows(tbl, "thread"))
      /\ \A k \in DOMAIN syncs : syncs[k] = Entry(k)
  OBVIOUS
<1>4. syncs = [k \in DOMAIN syncs |-> syncs[k]]
  OBVIOUS
<1> HIDE DEF threads, Entry, syncs, vtes
<1>5. /\ a.queue = <<>> /\ a.tbl = tbl /\ a.collected = <<>>
      /\ a.ignored = <<>> /\ a.vtes = vtes /\ a.syncs = syncs /\ IsAcc(a)
  BY <1>1 DEF IsAcc
<1> QED
  BY <1>2, <1>3, <1>4, <1>5 DEF Agreed, TypesAgree

(* One more event of that kind.                                            *)
LEMMA AppendFine ==
  ASSUME NEW q, NEW tbl, NEW e, AllFine(q, tbl), Fine(e, tbl)
  PROVE  AllFine(Append(q, e), tbl)
<1>1. PICK S : q \in Seq(S)
  BY DEF AllFine, IsSeq
<1>2. q \in Seq(S \cup {e})
  BY <1>1
<1>3. /\ Append(q, e) \in Seq(S \cup {e}) /\ Len(Append(q, e)) = Len(q) + 1
      /\ \A i \in 1..Len(q) : Append(q, e)[i] = q[i]
      /\ Append(q, e)[Len(q) + 1] = e /\ Len(q) \in Nat
  BY <1>2
<1>4. \A i \in 1..Len(Append(q, e)) : Fine(Append(q, e)[i], tbl)
  BY <1>3 DEF AllFine
<1> QED
  BY <1>3, <1>4 DEF AllFine, IsSeq

(* The accumulator in good order.                                          *)
Good(a) == IsAcc(a) /\ AllFine(a.queue, a.tbl) /\ TypesAgree(a)

(* Queueing such an event keeps the accumulator in good order.             *)
LEMMA EmitGood ==
  ASSUME NEW a, Good(a), NEW e, Fine(e, a.tbl)
  PROVE  Good(RE!Emit(a, e))
<1>1. RE!Emit(a, e) =
        [queue |-> Append(a.queue, e), tbl |-> a.tbl, db |-> a.db,
         stored |-> a.stored, collecting |-> a.collecting,
         collected |-> a.collected, ignored |-> a.ignored,
         privateMeta |-> a.privateMeta,
         vtes |-> a.vtes, syncs |-> a.syncs]
  BY DEF Good, IsAcc, RE!Emit
<1>2. /\ RE!Emit(a, e).queue = Append(a.queue, e)
      /\ RE!Emit(a, e).tbl = a.tbl /\ RE!Emit(a, e).vtes = a.vtes
      /\ RE!Emit(a, e).syncs = a.syncs /\ IsAcc(RE!Emit(a, e))
  BY <1>1 DEF IsAcc
<1>3. AllFine(Append(a.queue, e), a.tbl)
  BY AppendFine DEF Good
<1> QED
  BY <1>2, <1>3 DEF Good, TypesAgree

(* makeFBPortalKey gives the thread's portal, or the receiver is           *)
(* uncertain.                                                              *)
LEMMA KeyGood ==
  ASSUME NEW k, NEW type, type = Types[k] \/ type = RE!Unknown
  PROVE  \/ RE!IsUncertainReceiver(type)
         \/ RE!makeFBPortalKey(k, type, Split) = PortalOf(k)
BY DEF RE!IsUncertainReceiver, RE!makeFBPortalKey, PortalOf, RE!Unknown,
       RE!OneToOne

(* The fields of an event.                                                 *)
LEMMA EventFields ==
  ASSUME NEW ev, NEW k, NEW type, NEW row, NEW root
  PROVE  LET e == RE!Event(ev, k, type, row, root, Split)
         IN /\ e.ev = ev /\ e.row = row /\ e.key.id = k
            /\ e.key = RE!makeFBPortalKey(k, type, Split)
            /\ e.uncertain = RE!IsUncertainReceiver(type)
BY DEF RE!Event, RE!makeFBPortalKey, RE!IsUncertainReceiver

(* collectPortalEvents knows the type of the thread or says that it does   *)
(* not.                                                                    *)
LEMMA Params ==
  ASSUME NEW a, Good(a), NEW k
  PROVE  LET tk == RE!handlerParams(a, k)
         IN \/ tk.type = RE!Unknown
            \/ tk.type = Types[k] /\ tk.id = k
<1> USE DEF RE!handlerParams, Good, TypesAgree
<1>1. CASE {s \in a.db : s.sub = k} = {}
  BY <1>1
<1>2. CASE {s \in a.db : s.sub = k} # {}
  BY <1>2
<1> QED
  BY <1>1, <1>2

(* An event made from a thread's own type, or from none, is fine.          *)
LEMMA EventGood ==
  ASSUME NEW ev, NEW k, NEW type, NEW row, NEW root, NEW tbl,
         type = Types[k] \/ type = RE!Unknown \/ row.op = "folder",
         ev = "chatDelete" => row.k \notin RE!activeThreads(tbl),
         ev = "resync" /\ row.op # "folder" => k \in RE!activeThreads(tbl)
  PROVE  Fine(RE!Event(ev, k, type, row, root, Split), tbl)
<1> DEFINE e == RE!Event(ev, k, type, row, root, Split)
<1>1. /\ e.ev = ev /\ e.row = row /\ e.key.id = k
      /\ e.key = RE!makeFBPortalKey(k, type, Split)
      /\ e.uncertain = RE!IsUncertainReceiver(type)
  BY EventFields
<1> HIDE DEF e
<1>2. e.uncertain \/ e.row.op = "folder" \/ e.key = PortalOf(e.key.id)
  BY <1>1, KeyGood
<1>3. Fine(e, tbl)
  BY <1>1, <1>2 DEF Fine
<1> QED
  BY <1>3 DEF e

(* A handler that queues nothing and keeps the types keeps good order.     *)
LEMMA SameEvents ==
  ASSUME NEW a, Good(a), NEW b, IsAcc(b), b.queue = a.queue, b.tbl = a.tbl,
         \A k \in DOMAIN b.vtes : b.vtes[k].type = Types[k],
         b.syncs = [k \in DOMAIN b.syncs |-> b.syncs[k]],
         DOMAIN b.syncs = DOMAIN a.syncs,
         \A k \in DOMAIN b.syncs :
           IsSync(b.syncs[k]) /\ b.syncs[k].row.type = Types[k]
  PROVE  Good(b)
BY DEF Good, TypesAgree

(* A row that joins the resync of its thread.                              *)
AddRow(syncs, k, x) ==
  [j \in DOMAIN syncs |->
     IF j = k
     THEN [row |-> syncs[j].row, merged |-> Append(syncs[j].merged, x)]
     ELSE syncs[j]]

(* What Merge does to the accumulator, field by field.                     *)
LEMMA RowAdded ==
  ASSUME NEW a, Good(a), NEW k \in DOMAIN a.syncs, NEW x
  PROVE  [a EXCEPT !.syncs[k].merged = Append(@, x)] =
           [queue |-> a.queue, tbl |-> a.tbl, db |-> a.db,
            stored |-> a.stored, collecting |-> a.collecting,
            collected |-> a.collected, ignored |-> a.ignored,
            privateMeta |-> a.privateMeta,
            vtes |-> a.vtes, syncs |-> AddRow(a.syncs, k, x)]
<1> DEFINE f == a.syncs
           y == Append(f[k].merged, x)
           s == [row |-> f[k].row, merged |-> y]
<1>1. a = [queue |-> a.queue, tbl |-> a.tbl, db |-> a.db,
           stored |-> a.stored, collecting |-> a.collecting,
           collected |-> a.collected, ignored |-> a.ignored,
           privateMeta |-> a.privateMeta,
           vtes |-> a.vtes, syncs |-> f]
      /\ f = [j \in DOMAIN f |-> f[j]] /\ k \in DOMAIN f /\ IsSync(f[k])
  BY DEF Good, IsAcc, TypesAgree
<1>2. [f[k] EXCEPT !.merged = y] = s
  <2> HIDE DEF f, y
  <2> QED
    BY <1>1 DEF IsSync
<1>3. [f EXCEPT ![k] = [f[k] EXCEPT !.merged = y]] = AddRow(f, k, x)
  <2>1. AddRow(f, k, x) = [j \in DOMAIN f |-> IF j = k THEN s ELSE f[j]]
    BY DEF AddRow
  <2> HIDE DEF s, f, y
  <2> QED
    BY <1>1, <1>2, <2>1
<1> HIDE DEF s, f, y
<1>4. [a EXCEPT !.syncs[k].merged = y] =
        [queue |-> a.queue, tbl |-> a.tbl, db |-> a.db,
         stored |-> a.stored, collecting |-> a.collecting,
         collected |-> a.collected, ignored |-> a.ignored,
         privateMeta |-> a.privateMeta,
         vtes |-> a.vtes,
         syncs |-> [f EXCEPT ![k] = [f[k] EXCEPT !.merged = y]]]
  BY <1>1
<1> QED
  BY <1>3, <1>4 DEF y, f

(* The changes that handlers make besides queueing events.                 *)
LEMMA ChangesGood ==
  ASSUME NEW a, Good(a), NEW k, NEW x
  PROVE  /\ Good([a EXCEPT !.vtes = RE!Without(@, k)])
         /\ Good([a EXCEPT !.db = x])
         /\ k \in DOMAIN a.syncs =>
              Good([a EXCEPT !.syncs[k].merged = Append(@, x)])
<1>0. /\ \A j \in DOMAIN a.vtes : a.vtes[j].type = Types[j]
      /\ a.syncs = [j \in DOMAIN a.syncs |-> a.syncs[j]]
      /\ \A j \in DOMAIN a.syncs :
           IsSync(a.syncs[j]) /\ a.syncs[j].row.type = Types[j]
  BY DEF Good, TypesAgree
<1>1. Good([a EXCEPT !.vtes = RE!Without(@, k)])
  <2> DEFINE vtes == RE!Without(a.vtes, k)
  <2>1. [a EXCEPT !.vtes = RE!Without(@, k)] =
          [queue |-> a.queue, tbl |-> a.tbl, db |-> a.db,
           stored |-> a.stored, collecting |-> a.collecting,
           collected |-> a.collected, ignored |-> a.ignored,
           privateMeta |-> a.privateMeta,
           vtes |-> vtes, syncs |-> a.syncs]
    BY DEF Good, IsAcc
  <2>2. \A j \in DOMAIN vtes : vtes[j].type = Types[j]
    BY <1>0 DEF RE!Without
  <2> DEFINE b == [a EXCEPT !.vtes = RE!Without(@, k)]
  <2> HIDE DEF vtes, b
  <2>3. /\ b.queue = a.queue /\ b.tbl = a.tbl /\ b.vtes = vtes
        /\ b.syncs = a.syncs /\ IsAcc(b)
    BY <2>1 DEF b, IsAcc
  <2>4. Good(b)
    BY <1>0, <2>2, <2>3, SameEvents
  <2> QED
    BY <2>4 DEF b
<1>2. Good([a EXCEPT !.db = x])
  <2>1. [a EXCEPT !.db = x] =
          [queue |-> a.queue, tbl |-> a.tbl, db |-> x,
           stored |-> a.stored, collecting |-> a.collecting,
           collected |-> a.collected, ignored |-> a.ignored,
           privateMeta |-> a.privateMeta,
           vtes |-> a.vtes, syncs |-> a.syncs]
    BY DEF Good, IsAcc
  <2> DEFINE b == [a EXCEPT !.db = x]
  <2> HIDE DEF b
  <2>2. /\ b.queue = a.queue /\ b.tbl = a.tbl /\ b.vtes = a.vtes
        /\ b.syncs = a.syncs /\ IsAcc(b)
    BY <2>1 DEF b, IsAcc
  <2>3. Good(b)
    BY <1>0, <2>2, SameEvents
  <2> QED
    BY <2>3 DEF b
<1>3. ASSUME k \in DOMAIN a.syncs
      PROVE  Good([a EXCEPT !.syncs[k].merged = Append(@, x)])
  <2> DEFINE syncs == AddRow(a.syncs, k, x)
  <2>1. [a EXCEPT !.syncs[k].merged = Append(@, x)] =
          [queue |-> a.queue, tbl |-> a.tbl, db |-> a.db,
           stored |-> a.stored, collecting |-> a.collecting,
           collected |-> a.collected, ignored |-> a.ignored,
           privateMeta |-> a.privateMeta,
           vtes |-> a.vtes, syncs |-> syncs]
    BY <1>3, RowAdded
  <2>2. /\ \A j \in DOMAIN syncs :
             IsSync(syncs[j]) /\ syncs[j].row.type = Types[j]
        /\ syncs = [j \in DOMAIN syncs |-> syncs[j]]
        /\ DOMAIN syncs = DOMAIN a.syncs
    BY <1>0 DEF AddRow, IsSync
  <2> DEFINE b == [a EXCEPT !.syncs[k].merged = Append(@, x)]
  <2> HIDE DEF syncs, b
  <2>3. /\ b.queue = a.queue /\ b.tbl = a.tbl /\ b.vtes = a.vtes
        /\ b.syncs = syncs /\ IsAcc(b)
    BY <2>1 DEF b, IsAcc
  <2>4. Good(b)
    BY <1>0, <2>2, <2>3, SameEvents
  <2> QED
    BY <2>4 DEF b
<1> QED
  BY <1>1, <1>2, <1>3

(* A thread with such a row is active in the table.                        *)
LEMMA ActiveRow ==
  ASSUME NEW tbl, NEW op \in {"verifyExists", "thread"},
         NEW row \in RE!ToSet(RE!Rows(tbl, op))
  PROVE  row.k \in RE!activeThreads(tbl)
BY DEF RE!activeThreads, RE!Keys

(* Events that neither delete a chat nor bring it up to date.              *)
LEMMA PlainGood ==
  ASSUME NEW a, Good(a), NEW row, NEW ev, ev \notin {"chatDelete", "resync"},
         NEW root
  PROVE  LET tk == RE!handlerParams(a, row.k)
         IN /\ Good(RE!Emit(a, RE!Event(ev, tk.id, tk.type, row, root, Split)))
            /\ Good(RE!Emit(a, RE!Event(ev, row.k, tk.type, row, root, Split)))
<1> DEFINE tk == RE!handlerParams(a, row.k)
<1>1. tk.type = RE!Unknown \/ (tk.type = Types[row.k] /\ tk.id = row.k)
  BY Params
<1> HIDE DEF tk
<1>2. /\ Fine(RE!Event(ev, tk.id, tk.type, row, root, Split), a.tbl)
      /\ Fine(RE!Event(ev, row.k, tk.type, row, root, Split), a.tbl)
  BY <1>1, EventGood
<1>3. /\ Good(RE!Emit(a, RE!Event(ev, tk.id, tk.type, row, root, Split)))
      /\ Good(RE!Emit(a, RE!Event(ev, row.k, tk.type, row, root, Split)))
  BY <1>2, EmitGood
<1> QED
  BY <1>3 DEF tk

(* handleDeleteThreadKey keeps good order.                                 *)
LEMMA DeleteGood ==
  ASSUME NEW a, Good(a), NEW row
  PROVE  Good(RE!handleDeleteThreadKey(a, RE!handlerParams(a, row.k), row,
                                       Split))
<1> DEFINE tk == RE!handlerParams(a, row.k)
           e == RE!Event("chatDelete", tk.id, tk.type, row, 0, Split)
           b == [a EXCEPT !.vtes = RE!Without(@, row.k)]
<1>1. CASE row.k \in RE!activeThreads(a.tbl)
  BY <1>1 DEF RE!handleDeleteThreadKey
<1>2. CASE row.k \notin RE!activeThreads(a.tbl)
  <2>1. tk.type = RE!Unknown \/ (tk.type = Types[row.k] /\ tk.id = row.k)
    BY Params
  <2>2. Good(b) /\ b.tbl = a.tbl
    <3>1. Good(b)
      BY ChangesGood
    <3>2. b.tbl = a.tbl
      BY DEF Good, IsAcc
    <3> QED
      BY <3>1, <3>2
  <2>3. RE!handleDeleteThreadKey(a, tk, row, Split) = RE!Emit(b, e)
    BY <1>2 DEF RE!handleDeleteThreadKey
  <2> HIDE DEF tk, b
  <2>4. Fine(e, b.tbl)
    BY <1>2, <2>1, <2>2, EventGood
  <2> HIDE DEF e
  <2> QED
    BY <2>2, <2>3, <2>4, EmitGood DEF tk
<1> QED
  BY <1>1, <1>2

(* What Collect does to the accumulator, field by field.                   *)
LEMMA CollectIs ==
  ASSUME NEW a, IsAcc(a), NEW id, NEW row
  PROVE  LET b == RE!Collect(a, id, row)
         IN /\ b.queue = a.queue /\ b.tbl = a.tbl /\ b.syncs = a.syncs
            /\ b.vtes = a.vtes /\ IsAcc(b)
            /\ \/ /\ b.collected = Append(a.collected, row)
                  /\ b.ignored = a.ignored
               \/ /\ b.ignored = Append(a.ignored, row)
                  /\ b.collected = a.collected
<1> DEFINE b == RE!Collect(a, id, row)
           joined == RE!Joined(a.collecting, id, row.bundle)
<1>1. CASE row.bundle.template > a.collecting[id]
  <2>1. b = [queue |-> a.queue, tbl |-> a.tbl, db |-> a.db,
             stored |-> a.stored, collecting |-> a.collecting,
             collected |-> a.collected, ignored |-> Append(a.ignored, row),
             privateMeta |-> a.privateMeta,
             vtes |-> a.vtes, syncs |-> a.syncs]
    BY <1>1 DEF RE!Collect, IsAcc
  <2> HIDE DEF b
  <2>2. /\ b.queue = a.queue /\ b.tbl = a.tbl /\ b.syncs = a.syncs
        /\ b.vtes = a.vtes /\ IsAcc(b) /\ b.collected = a.collected
        /\ b.ignored = Append(a.ignored, row)
    BY <2>1 DEF IsAcc
  <2> QED
    BY <2>2 DEF b
<1>2. CASE ~(row.bundle.template > a.collecting[id])
  <2>1. b = [queue |-> a.queue, tbl |-> a.tbl, db |-> a.db,
             stored |-> a.stored, collecting |-> joined,
             collected |-> Append(a.collected, row), ignored |-> a.ignored,
             privateMeta |-> a.privateMeta,
             vtes |-> a.vtes, syncs |-> a.syncs]
    <3> HIDE DEF joined
    <3>1. b = [a EXCEPT !.collected = Append(a.collected, row),
                        !.collecting = joined]
      BY <1>2 DEF RE!Collect, joined
    <3> QED
      BY <3>1 DEF IsAcc
  <2> HIDE DEF b, joined
  <2>2. /\ b.queue = a.queue /\ b.tbl = a.tbl /\ b.syncs = a.syncs
        /\ b.vtes = a.vtes /\ IsAcc(b) /\ b.ignored = a.ignored
        /\ b.collected = Append(a.collected, row)
    BY <2>1 DEF IsAcc
  <2> QED
    BY <2>2 DEF b
<1> QED
  BY <1>1, <1>2

(* Merge keeps good order.                                                 *)
LEMMA MergeGood ==
  ASSUME NEW a, Good(a), NEW row
  PROVE  Good(RE!Merge(a, RE!handlerParams(a, row.k), row, Split))
<1> DEFINE tk == RE!handlerParams(a, row.k)
<1>1. CASE row.op = "range" /\ tk.id \in DOMAIN a.collecting
  <2> DEFINE b == RE!Collect(a, tk.id, row)
  <2>1. IsAcc(a) /\ TypesAgree(a)
    BY DEF Good
  <2>2. /\ b.queue = a.queue /\ b.tbl = a.tbl /\ b.syncs = a.syncs
        /\ b.vtes = a.vtes /\ IsAcc(b)
    BY <2>1, CollectIs
  <2>3. RE!Merge(a, tk, row, Split) = b
    BY <1>1 DEF RE!Merge
  <2> HIDE DEF b
  <2>4. Good(b)
    BY <2>1, <2>2, SameEvents DEF TypesAgree
  <2> QED
    BY <2>3, <2>4
<1>2. CASE ~(row.op = "range" /\ tk.id \in DOMAIN a.collecting) /\ tk.sync
  <2>1. row.k \in DOMAIN a.syncs
    BY <1>2 DEF RE!handlerParams
  <2>2. Good([a EXCEPT !.syncs[row.k].merged = Append(@, row)])
    BY <2>1, ChangesGood
  <2> QED
    BY <1>2, <2>2 DEF RE!Merge
<1>3. CASE ~(row.op = "range" /\ tk.id \in DOMAIN a.collecting) /\ ~tk.sync
  <2> DEFINE ev == IF row.op = "range" THEN "backfill" ELSE "info"
  <2>1. ev \notin {"chatDelete", "resync"}
    OBVIOUS
  <2> HIDE DEF ev
  <2>2. /\ Good(RE!Emit(a, RE!Event(ev, tk.id, tk.type, row, 0, Split)))
        /\ Good(RE!Emit(a, RE!Event(ev, row.k, tk.type, row, 0, Split)))
    BY <2>1, PlainGood
  <2>3. RE!Merge(a, tk, row, Split) =
          RE!Emit(a, RE!Event(ev, IF row.op = "addParticipant" THEN row.k
                                  ELSE tk.id, tk.type, row, 0, Split))
    BY <1>3 DEF RE!Merge, ev
  <2> QED
    BY <2>2, <2>3
<1> QED
  BY <1>1, <1>2, <1>3

(* So does queueing the resync of an active thread.                        *)
LEMMA ResyncGood ==
  ASSUME NEW a, Good(a), NEW op \in {"verifyExists", "thread"},
         NEW row \in RE!ToSet(RE!Rows(a.tbl, op)), row.type = Types[row.k]
  PROVE  Good(RE!Emit(a, RE!Event("resync", row.k, row.type, row, 0, Split)))
<1>1. row.k \in RE!activeThreads(a.tbl)
  BY ActiveRow
<1>2. Fine(RE!Event("resync", row.k, row.type, row, 0, Split), a.tbl)
  BY <1>1, EventGood
<1> QED
  BY <1>2, EmitGood

(* Every handler keeps good order.                                         *)
LEMMA HandleGood ==
  ASSUME NEW a, Good(a), NEW op \in TableOps,
         NEW row \in RE!ToSet(RE!RowsOf(a.tbl, op)), row.op = RowOp(op)
  PROVE  Good(RE!Handle(a, op, row, Split))
<1> DEFINE tk == RE!handlerParams(a, row.k)
           Plain(ev) == RE!Emit(a, RE!Event(ev, tk.id, tk.type, row, 0, Split))
<1>1. CASE op = "folder"
  <2>1. row.op = "folder"
    BY <1>1 DEF RowOp
  <2>2. Fine(RE!Event("resync", row.k, "folder", row, 0, Split), a.tbl)
    BY <2>1, EventGood
  <2>3. RE!Handle(a, op, row, Split) =
          RE!Emit(a, RE!Event("resync", row.k, "folder", row, 0, Split))
    BY <1>1 DEF RE!Handle
  <2> QED
    BY <2>2, <2>3, EmitGood
<1>2. CASE op = "deleteThread"
  <2>1. RE!Handle(a, op, row, Split) =
          RE!handleDeleteThreadKey(a, tk, row, Split)
    BY <1>2 DEF RE!Handle
  <2> QED
    BY <2>1, DeleteGood
<1>3. CASE op = "selfLeave"
  <2>1. RE!Handle(a, op, row, Split) =
          RE!handleSelfLeaveThread(a, tk, row, Split)
    BY <1>3 DEF RE!Handle
  <2> QED
    BY <2>1, DeleteGood DEF RE!handleSelfLeaveThread
<1>4. CASE op = "verifyExists"
  <2>1. RE!Handle(a, op, row, Split) =
          IF row.k \notin DOMAIN a.vtes \/ a.vtes[row.k] # row
               \/ row.k \in DOMAIN a.syncs
               \/ row.k \in RE!Keys(RE!Rows(a.tbl, "folder"))
          THEN a
          ELSE RE!Emit(a, RE!Event("resync", row.k, row.type, row, 0, Split))
    BY <1>4 DEF RE!Handle
  <2>2. row \in RE!ToSet(RE!Rows(a.tbl, "verifyExists"))
    BY <1>4 DEF RE!RowsOf
  <2>3. row.k \in DOMAIN a.vtes /\ a.vtes[row.k] = row =>
          row.type = Types[row.k]
    BY DEF Good, TypesAgree
  <2> QED
    BY <2>1, <2>2, <2>3, ResyncGood
<1>5. CASE op \in {"addParticipant", "mute", "moveToE2EE", "range"}
  <2>1. RE!Handle(a, op, row, Split) \in {a, RE!Merge(a, tk, row, Split)}
    BY <1>5 DEF RE!Handle
  <2> QED
    BY <2>1, MergeGood
<1>6. CASE op = "thread"
  <2>1. RE!Handle(a, op, row, Split) =
          IF a.syncs[row.k].row # row THEN a
          ELSE RE!Emit(a, RE!Event("resync", row.k, row.type, row, 0, Split))
    BY <1>6 DEF RE!Handle
  <2>2. row \in RE!ToSet(RE!Rows(a.tbl, "thread"))
    BY <1>6 DEF RE!RowsOf
  <2>3. row.k \in DOMAIN a.syncs
    BY <2>2 DEF Good, TypesAgree, RE!Keys
  <2>4. a.syncs[row.k].row = row => row.type = Types[row.k]
    BY <2>3 DEF Good, TypesAgree
  <2> QED
    BY <2>1, <2>2, <2>4, ResyncGood
<1>7. CASE op = "insertMessage"
  <2> DEFINE b == [a EXCEPT !.db = RE!handleSubthread(@, row)]
             e == RE!Event("message", tk.id, tk.type, row, tk.root, Split)
  <2>1. RE!Handle(a, op, row, Split) = RE!Emit(b, e)
    BY <1>7 DEF RE!Handle, RE!handleMessageInsert
  <2>2. Good(b) /\ b.tbl = a.tbl
    <3>1. Good(b)
      BY ChangesGood
    <3>2. b.tbl = a.tbl
      BY DEF Good, IsAcc
    <3> QED
      BY <3>1, <3>2
  <2>3. tk.type = RE!Unknown \/ (tk.type = Types[row.k] /\ tk.id = row.k)
    BY Params
  <2> HIDE DEF tk, b
  <2>4. Fine(e, b.tbl)
    BY <2>3, EventGood
  <2> HIDE DEF e
  <2> QED
    BY <2>1, <2>2, <2>4, EmitGood
<1>8. CASE op = "edit"
  <2> DEFINE e == [ev |-> "edit", key |-> [id |-> row.k, receiver |-> FALSE],
                   uncertain |-> FALSE, row |-> row, root |-> 0]
  <2>1. RE!Handle(a, op, row, Split) =
          IF row.id \notin a.stored THEN a ELSE RE!Emit(a, e)
    BY <1>8 DEF RE!Handle, RE!handleEdit
  <2>2. Fine(e, a.tbl)
    BY DEF Fine
  <2> HIDE DEF e
  <2> QED
    BY <2>1, <2>2, EmitGood
<1>9. CASE op \in {"name", "image"}
  <2>1. RE!Handle(a, op, row, Split) \in {a, Plain("info")}
    BY <1>9 DEF RE!Handle, RE!handleChatMeta
  <2>2. Good(Plain("info"))
    BY PlainGood
  <2> QED
    BY <2>1, <2>2
<1>10. CASE op = "deleteThenInsert"
  <2>1. RE!Handle(a, op, row, Split) \in {a, Plain("remove")}
    BY <1>10 DEF RE!Handle, RE!handleDeleteThenInsertMessage
  <2>2. Good(Plain("remove"))
    BY PlainGood
  <2> QED
    BY <2>1, <2>2
<1>11. CASE op \in {"markRead", "readReceipt", "typing", "deleteMessage",
                    "reaction", "deleteReaction"}
  <2>1. RE!Handle(a, op, row, Split) \in
          {Plain("read"), Plain("typing"), Plain("remove"),
           Plain("reaction")}
    BY <1>11 DEF RE!Handle
  <2>2. /\ Good(Plain("read")) /\ Good(Plain("typing"))
        /\ Good(Plain("remove")) /\ Good(Plain("reaction"))
    BY PlainGood
  <2> QED
    BY <2>1, <2>2
<1>12. CASE op = "removeParticipant"
  <2>1. RE!Handle(a, op, row, Split) =
          RE!Emit(a, RE!Event("info", row.k, tk.type, row, 0, Split))
    BY <1>12 DEF RE!Handle
  <2> QED
    BY <2>1, PlainGood
<1> QED
  BY <1>1, <1>2, <1>3, <1>4, <1>5, <1>6, <1>7, <1>8, <1>9, <1>10, <1>11,
     <1>12
  DEF TableOps

-----------------------------------------------------------------------------
(* The rows that become part of a resync if there is one.                  *)
MergeOps == {"addParticipant", "mute", "moveToE2EE", "range"}

(* The event that a row leads to.                                          *)
EventOf(e, a, op, row) ==
  /\ e.row = row
  /\ e.ev = "resync" => op \in {"folder", "verifyExists", "thread"}
  /\ op \in {"deleteThread", "selfLeave"} => e.ev = "chatDelete"
  /\ op = "thread" => e.ev = "resync" /\ a.syncs[row.k].row = row
  /\ op \in MergeOps \cup {"verifyExists"} => row.k \notin DOMAIN a.syncs

(* What a handler makes of a row: nothing, an event of its own, history    *)
(* that a collector takes or ignores, or a part of a resync.               *)
Kept(a, b) ==
  /\ b.queue = a.queue /\ b.syncs = a.syncs /\ b.collected = a.collected
  /\ b.ignored = a.ignored
Skipped(a, b, op, row) ==
  /\ Kept(a, b)
  /\ op \in MergeOps =>
       op = "range" /\ RE!ByKey(RE!Rows(a.tbl, "range"))[row.k] # row
Emitted(a, b, op, row) ==
  /\ \E e : b.queue = Append(a.queue, e) /\ EventOf(e, a, op, row)
  /\ b.syncs = a.syncs /\ b.collected = a.collected
  /\ b.ignored = a.ignored
Collected(a, b, op, row) ==
  /\ b.queue = a.queue /\ b.syncs = a.syncs /\ op = "range"
  /\ b.collected = Append(a.collected, row) /\ b.ignored = a.ignored
Ignored(a, b, op, row) ==
  /\ b.queue = a.queue /\ b.syncs = a.syncs /\ op = "range"
  /\ b.collected = a.collected /\ b.ignored = Append(a.ignored, row)
Merged(a, b, op, row) ==
  /\ b.queue = a.queue /\ b.collected = a.collected /\ op \in MergeOps
  /\ b.ignored = a.ignored
  /\ row.k \in DOMAIN a.syncs
  /\ b.syncs = AddRow(a.syncs, row.k, row)
Outcome(a, b, op, row) ==
  /\ b.tbl = a.tbl
  /\ \/ Skipped(a, b, op, row) \/ Emitted(a, b, op, row)
     \/ Collected(a, b, op, row) \/ Ignored(a, b, op, row)
     \/ Merged(a, b, op, row)

(* Emit appends to the queue and changes nothing else.                     *)
LEMMA EmitOutcome ==
  ASSUME NEW a, IsAcc(a), NEW e
  PROVE  /\ RE!Emit(a, e).queue = Append(a.queue, e)
         /\ RE!Emit(a, e).syncs = a.syncs /\ RE!Emit(a, e).tbl = a.tbl
         /\ RE!Emit(a, e).collected = a.collected
         /\ RE!Emit(a, e).ignored = a.ignored
BY DEF IsAcc, RE!Emit

(* handleDeleteThreadKey skips the row or queues the deletion.             *)
LEMMA DeleteOutcome ==
  ASSUME NEW a, IsAcc(a), NEW row, NEW op \in {"deleteThread", "selfLeave"}
  PROVE  Outcome(a, RE!handleDeleteThreadKey(a, RE!handlerParams(a, row.k),
                                             row, Split), op, row)
<1> DEFINE tk == RE!handlerParams(a, row.k)
           e == RE!Event("chatDelete", tk.id, tk.type, row, 0, Split)
           b == [a EXCEPT !.vtes = RE!Without(@, row.k)]
           c == RE!handleDeleteThreadKey(a, tk, row, Split)
<1>1. CASE c = a
  BY <1>1 DEF Outcome, Skipped, Kept, MergeOps
<1>2. CASE c = RE!Emit(b, e)
  <2>1. /\ IsAcc(b) /\ b.queue = a.queue /\ b.syncs = a.syncs
        /\ b.tbl = a.tbl /\ b.collected = a.collected
        /\ b.ignored = a.ignored
    BY DEF IsAcc
  <2>2. e.ev = "chatDelete" /\ e.row = row
    BY EventFields
  <2> HIDE DEF b, e
  <2>3. EventOf(e, a, op, row)
    BY <2>2 DEF EventOf, MergeOps
  <2> HIDE DEF c
  <2>4. /\ c.queue = Append(a.queue, e) /\ c.syncs = a.syncs
        /\ c.tbl = a.tbl /\ c.collected = a.collected
        /\ c.ignored = a.ignored
    BY <1>2, <2>1, EmitOutcome
  <2>5. Outcome(a, c, op, row)
    BY <2>3, <2>4 DEF Outcome, Emitted
  <2> QED
    BY <2>5 DEF c
<1> QED
  BY <1>1, <1>2 DEF RE!handleDeleteThreadKey

(* An event for the row alone.                                             *)
LEMMA EmittedOutcome ==
  ASSUME NEW a, IsAcc(a), NEW op, NEW row, NEW ev, NEW k, NEW type, NEW root,
         ev = "resync" => op \in {"folder", "verifyExists", "thread"},
         op \notin {"deleteThread", "selfLeave"},
         op = "thread" => ev = "resync" /\ a.syncs[row.k].row = row,
         op \in MergeOps \cup {"verifyExists"} => row.k \notin DOMAIN a.syncs
  PROVE  Outcome(a, RE!Emit(a, RE!Event(ev, k, type, row, root, Split)),
                 op, row)
<1> DEFINE e == RE!Event(ev, k, type, row, root, Split)
<1>1. e.ev = ev /\ e.row = row
  BY EventFields
<1> HIDE DEF e
<1>2. EventOf(e, a, op, row)
  BY <1>1 DEF EventOf
<1>3. Outcome(a, RE!Emit(a, e), op, row)
  BY <1>2, EmitOutcome DEF Outcome, Emitted
<1> QED
  BY <1>3 DEF e

(* Merge does not lose its row.                                            *)
LEMMA MergeOutcome ==
  ASSUME NEW a, Good(a), NEW row, NEW op \in MergeOps, row.op = op
  PROVE  Outcome(a, RE!Merge(a, RE!handlerParams(a, row.k), row, Split), op,
                 row)
<1> DEFINE tk == RE!handlerParams(a, row.k)
           b == RE!Merge(a, tk, row, Split)
<1>0. IsAcc(a)
  BY DEF Good
<1>1. CASE row.op = "range" /\ tk.id \in DOMAIN a.collecting
  <2>1. b = RE!Collect(a, tk.id, row)
    BY <1>1 DEF RE!Merge
  <2> HIDE DEF b
  <2>2. /\ b.queue = a.queue /\ b.syncs = a.syncs /\ b.tbl = a.tbl
        /\ \/ /\ b.collected = Append(a.collected, row)
              /\ b.ignored = a.ignored
           \/ /\ b.ignored = Append(a.ignored, row)
              /\ b.collected = a.collected
    <3> HIDE DEF tk
    <3> QED
      BY <1>0, <2>1, CollectIs
  <2>3. Outcome(a, b, op, row)
    BY <1>1, <2>2 DEF Outcome, Collected, Ignored
  <2> QED
    BY <2>3 DEF b
<1>2. CASE ~(row.op = "range" /\ tk.id \in DOMAIN a.collecting) /\ tk.sync
  <2>1. row.k \in DOMAIN a.syncs
    BY <1>2 DEF RE!handlerParams
  <2>2. b = [a EXCEPT !.syncs[row.k].merged = Append(@, row)]
    BY <1>2 DEF RE!Merge
  <2>3. /\ b.queue = a.queue /\ b.collected = a.collected /\ b.tbl = a.tbl
        /\ b.syncs = AddRow(a.syncs, row.k, row) /\ b.ignored = a.ignored
    <3> HIDE DEF b
    <3>1. b = [queue |-> a.queue, tbl |-> a.tbl, db |-> a.db,
               stored |-> a.stored, collecting |-> a.collecting,
               collected |-> a.collected, ignored |-> a.ignored,
               privateMeta |-> a.privateMeta,
               vtes |-> a.vtes, syncs |-> AddRow(a.syncs, row.k, row)]
      BY <2>1, <2>2, RowAdded
    <3> QED
      BY <3>1
  <2> HIDE DEF b
  <2>4. Outcome(a, b, op, row)
    BY <2>1, <2>3 DEF Outcome, Merged
  <2> QED
    BY <2>4 DEF b
<1>3. CASE ~(row.op = "range" /\ tk.id \in DOMAIN a.collecting) /\ ~tk.sync
  <2> DEFINE ev == IF row.op = "range" THEN "backfill" ELSE "info"
             k == IF row.op = "addParticipant" THEN row.k ELSE tk.id
  <2>1. ev # "resync" /\ op # "thread"
        /\ op \notin {"deleteThread", "selfLeave"}
    BY DEF MergeOps
  <2>2. row.k \notin DOMAIN a.syncs
    BY <1>3 DEF RE!handlerParams
  <2>3. b = RE!Emit(a, RE!Event(ev, k, tk.type, row, 0, Split))
    BY <1>3 DEF RE!Merge
  <2> HIDE DEF ev, k, tk, b
  <2>4. Outcome(a, b, op, row)
    BY <1>0, <2>1, <2>2, <2>3, EmittedOutcome
  <2> QED
    BY <2>4 DEF b, tk
<1> QED
  BY <1>1, <1>2, <1>3

(* Every handler has one of the five outcomes.                             *)
LEMMA HandleOutcome ==
  ASSUME NEW a, Good(a), NEW op \in TableOps, NEW row, row.op = RowOp(op),
         row \in RE!ToSet(RE!RowsOf(a.tbl, op))
  PROVE  Outcome(a, RE!Handle(a, op, row, Split), op, row)
<1> DEFINE tk == RE!handlerParams(a, row.k)
           b == RE!Handle(a, op, row, Split)
           Plain(ev) == RE!Emit(a, RE!Event(ev, tk.id, tk.type, row, 0, Split))
<1>0. IsAcc(a)
  BY DEF Good
<1>00. op \notin MergeOps => Outcome(a, a, op, row)
  BY DEF Outcome, Skipped, Kept
<1>1. CASE op = "folder"
  <2>1. b = RE!Emit(a, RE!Event("resync", row.k, "folder", row, 0, Split))
    BY <1>1 DEF RE!Handle
  <2> HIDE DEF b
  <2>2. Outcome(a, b, op, row)
    BY <1>0, <1>1, <2>1, EmittedOutcome DEF MergeOps
  <2> QED
    BY <2>2 DEF b
<1>2. CASE op = "deleteThread"
  <2>1. b = RE!handleDeleteThreadKey(a, tk, row, Split)
    BY <1>2 DEF RE!Handle
  <2> QED
    BY <1>0, <1>2, <2>1, DeleteOutcome
<1>3. CASE op = "selfLeave"
  <2>1. b = RE!handleSelfLeaveThread(a, tk, row, Split)
    BY <1>3 DEF RE!Handle
  <2>2. b = a \/ b = RE!handleDeleteThreadKey(a, tk, row, Split)
    BY <2>1 DEF RE!handleSelfLeaveThread
  <2>3. op \notin MergeOps /\ op \in {"deleteThread", "selfLeave"}
    BY <1>3 DEF MergeOps
  <2> QED
    BY <1>0, <1>00, <2>2, <2>3, DeleteOutcome
<1>4. CASE op = "verifyExists"
  <2> DEFINE skip == \/ row.k \notin DOMAIN a.vtes \/ a.vtes[row.k] # row
                     \/ row.k \in DOMAIN a.syncs
                     \/ row.k \in RE!Keys(RE!Rows(a.tbl, "folder"))
             c == RE!Emit(a, RE!Event("resync", row.k, row.type, row, 0,
                                      Split))
  <2>1. b = IF skip THEN a ELSE c
    BY <1>4 DEF RE!Handle
  <2>2. op \notin MergeOps
    BY <1>4 DEF MergeOps
  <2>3. ~skip => Outcome(a, c, op, row)
    BY <1>0, <1>4, EmittedOutcome
  <2> QED
    BY <1>00, <2>1, <2>2, <2>3
<1>5. CASE op \in MergeOps
  <2> DEFINE old == /\ op = "range"
                    /\ RE!ByKey(RE!Rows(a.tbl, op))[row.k] # row
  <2>1. b = IF old THEN a ELSE RE!Merge(a, tk, row, Split)
    BY <1>5 DEF RE!Handle, MergeOps
  <2>2. row.op = op
    BY <1>5 DEF RowOp, MergeOps
  <2>3. old => Outcome(a, a, op, row)
    BY DEF Outcome, Skipped, Kept
  <2>4. Outcome(a, RE!Merge(a, tk, row, Split), op, row)
    BY <1>5, <2>2, MergeOutcome
  <2> QED
    BY <2>1, <2>3, <2>4
<1>6. CASE op = "thread"
  <2> DEFINE c == RE!Emit(a, RE!Event("resync", row.k, row.type, row, 0,
                                      Split))
  <2>1. b = IF a.syncs[row.k].row # row THEN a ELSE c
    BY <1>6 DEF RE!Handle
  <2>2. op \notin MergeOps \cup {"verifyExists"}
    BY <1>6 DEF MergeOps
  <2>3. a.syncs[row.k].row = row => Outcome(a, c, op, row)
    BY <1>0, <1>6, <2>2, EmittedOutcome
  <2> QED
    BY <1>00, <2>1, <2>2, <2>3
<1>7. CASE op = "insertMessage"
  <2> DEFINE c == [a EXCEPT !.db = RE!handleSubthread(@, row)]
             e == RE!Event("message", tk.id, tk.type, row, tk.root, Split)
  <2>1. b = RE!Emit(c, e)
    BY <1>7 DEF RE!Handle, RE!handleMessageInsert
  <2>2. /\ IsAcc(c) /\ c.queue = a.queue /\ c.syncs = a.syncs
        /\ c.tbl = a.tbl /\ c.collected = a.collected
        /\ c.ignored = a.ignored
    BY <1>0 DEF IsAcc
  <2>3. e.ev = "message" /\ e.row = row
    BY EventFields
  <2> HIDE DEF c, e, b
  <2>4. /\ b.queue = Append(a.queue, e) /\ b.syncs = a.syncs
        /\ b.tbl = a.tbl /\ b.collected = a.collected
        /\ b.ignored = a.ignored
    BY <2>1, <2>2, EmitOutcome
  <2>5. EventOf(e, a, op, row)
    BY <1>7, <2>3 DEF EventOf, MergeOps
  <2>6. Outcome(a, b, op, row)
    BY <2>4, <2>5 DEF Outcome, Emitted
  <2> QED
    BY <2>6 DEF b
<1>8. CASE op = "edit"
  <2> DEFINE e == [ev |-> "edit", key |-> [id |-> row.k, receiver |-> FALSE],
                   uncertain |-> FALSE, row |-> row, root |-> 0]
  <2>1. b = IF row.id \notin a.stored THEN a ELSE RE!Emit(a, e)
    BY <1>8 DEF RE!Handle, RE!handleEdit
  <2>2. EventOf(e, a, op, row)
    BY <1>8 DEF EventOf, MergeOps
  <2>3. op \notin MergeOps
    BY <1>8 DEF MergeOps
  <2> HIDE DEF e
  <2>4. Outcome(a, RE!Emit(a, e), op, row)
    BY <1>0, <2>2, EmitOutcome DEF Outcome, Emitted
  <2> QED
    BY <1>00, <2>1, <2>3, <2>4
<1>9. CASE op \in {"name", "image", "deleteThenInsert", "markRead",
                   "readReceipt", "typing", "deleteMessage", "reaction",
                   "deleteReaction"}
  <2>1. b \in {a, Plain("read"), Plain("typing"), Plain("remove"),
               Plain("reaction"), Plain("info")}
    BY <1>9 DEF RE!Handle, RE!handleChatMeta,
                RE!handleDeleteThenInsertMessage
  <2>2. op \notin MergeOps \cup {"deleteThread", "selfLeave", "folder",
                                "thread", "verifyExists"}
    BY <1>9 DEF MergeOps
  <2>3. ASSUME NEW ev, ev # "resync" PROVE Outcome(a, Plain(ev), op, row)
    BY <1>0, <2>2, <2>3, EmittedOutcome
  <2> HIDE DEF Plain, b
  <2>4. Outcome(a, b, op, row)
    BY <1>00, <2>1, <2>2, <2>3
  <2> QED
    BY <2>4 DEF b
<1>10. CASE op = "removeParticipant"
  <2>1. b = RE!Emit(a, RE!Event("info", row.k, tk.type, row, 0, Split))
    BY <1>10 DEF RE!Handle
  <2>2. op \notin MergeOps \cup {"deleteThread", "selfLeave", "folder",
                                "thread", "verifyExists"}
    BY <1>10 DEF MergeOps
  <2> HIDE DEF b, tk
  <2>3. Outcome(a, b, op, row)
    BY <1>0, <2>1, <2>2, EmittedOutcome
  <2> QED
    BY <2>3 DEF b
<1> QED
  BY <1>1, <1>2, <1>3, <1>4, <1>5, <1>6, <1>7, <1>8, <1>9, <1>10
  DEF TableOps, MergeOps

-----------------------------------------------------------------------------
(* Where a row may have gone.                                              *)
Own(a, r) == \E i \in 1..Len(a.queue) : a.queue[i].row = r
InSync(a, r) == \E k \in DOMAIN a.syncs : r \in RE!ToSet(a.syncs[k].merged)
InCollected(a, r) == r \in RE!ToSet(a.collected)
InIgnored(a, r) == r \in RE!ToSet(a.ignored)
Seqs(a) ==
  /\ IsSeq(a.queue) /\ IsSeq(a.collected) /\ IsSeq(a.ignored)
  /\ \A k \in DOMAIN a.syncs : IsSeq(a.syncs[k].merged)

(* What Append does to a sequence and to its elements.                     *)
LEMMA Appended ==
  ASSUME NEW q, IsSeq(q), NEW e
  PROVE  /\ IsSeq(Append(q, e)) /\ Len(Append(q, e)) = Len(q) + 1
         /\ \A i \in 1..Len(q) : Append(q, e)[i] = q[i]
         /\ Append(q, e)[Len(q) + 1] = e /\ Len(q) \in Nat
         /\ RE!ToSet(Append(q, e)) = RE!ToSet(q) \cup {e}
<1>1. PICK S : q \in Seq(S)
  BY DEF IsSeq
<1>2. q \in Seq(S \cup {e})
  BY <1>1
<1>3. /\ Append(q, e) \in Seq(S \cup {e}) /\ Len(Append(q, e)) = Len(q) + 1
      /\ \A i \in 1..Len(q) : Append(q, e)[i] = q[i]
      /\ Append(q, e)[Len(q) + 1] = e /\ Len(q) \in Nat
      /\ DOMAIN q = 1..Len(q)
      /\ DOMAIN Append(q, e) = 1..(Len(q) + 1)
  BY <1>2
<1> DEFINE p == Append(q, e)
<1> HIDE DEF p
<1>4. RE!ToSet(p) = RE!ToSet(q) \cup {e}
  <2>1. /\ Len(q) \in Nat /\ DOMAIN q = 1..Len(q)
        /\ DOMAIN p = 1..(Len(q) + 1) /\ p[Len(q) + 1] = e
        /\ \A i \in 1..Len(q) : p[i] = q[i]
    BY <1>3 DEF p
  <2>2. /\ RE!ToSet(p) = {p[i] : i \in 1..(Len(q) + 1)}
        /\ RE!ToSet(q) = {q[i] : i \in 1..Len(q)}
    BY <2>1 DEF RE!ToSet
  <2> QED
    BY <2>1, <2>2
<1> QED
  BY <1>3, <1>4 DEF IsSeq, p

(* Two accumulators have a row in the same places.                         *)
SameBut(a, b, r, place) ==
  /\ place # "own" => Own(b, r) = Own(a, r)
  /\ place # "sync" => InSync(b, r) = InSync(a, r)
  /\ place # "collected" => InCollected(b, r) = InCollected(a, r)
  /\ place # "ignored" => InIgnored(b, r) = InIgnored(a, r)

(* A step moves its own row to one place, and no other row.                *)
LEMMA Effects ==
  ASSUME NEW a, NEW b, NEW op, NEW row, Seqs(a), Outcome(a, b, op, row)
  PROVE  /\ Seqs(b) /\ DOMAIN b.syncs = DOMAIN a.syncs
         /\ \A k \in DOMAIN a.syncs : b.syncs[k].row = a.syncs[k].row
         /\ \A r : r # row => SameBut(a, b, r, "none")
         /\ \/ Skipped(a, b, op, row)
            \/ Own(b, row) /\ SameBut(a, b, row, "own")
            \/ InSync(b, row) /\ SameBut(a, b, row, "sync")
            \/ InCollected(b, row) /\ SameBut(a, b, row, "collected")
            \/ /\ InIgnored(b, row) /\ SameBut(a, b, row, "ignored")
               /\ op = "range"
<1> USE DEF SameBut
<1>1. CASE Skipped(a, b, op, row)
  BY <1>1 DEF Skipped, Kept, Seqs, Own, InSync, InCollected, InIgnored
<1>2. CASE Emitted(a, b, op, row)
  <2>1. PICK e : b.queue = Append(a.queue, e) /\ EventOf(e, a, op, row)
    BY <1>2 DEF Emitted
  <2>2. /\ b.syncs = a.syncs /\ b.collected = a.collected
        /\ b.ignored = a.ignored /\ e.row = row
    BY <1>2, <2>1 DEF Emitted, EventOf
  <2>3. /\ IsSeq(b.queue) /\ Len(b.queue) = Len(a.queue) + 1
        /\ \A i \in 1..Len(a.queue) : b.queue[i] = a.queue[i]
        /\ b.queue[Len(a.queue) + 1] = e /\ Len(a.queue) \in Nat
    BY <2>1, Appended DEF Seqs
  <2>4. Seqs(b)
    BY <2>2, <2>3 DEF Seqs
  <2>5. \A r : /\ InSync(b, r) = InSync(a, r)
               /\ InCollected(b, r) = InCollected(a, r)
               /\ InIgnored(b, r) = InIgnored(a, r)
    BY <2>2 DEF InSync, InCollected, InIgnored
  <2>6. ASSUME NEW r PROVE Own(b, r) <=> Own(a, r) \/ r = row
    <3> DEFINE n == Len(a.queue)
               q == a.queue
               p == b.queue
    <3>1. /\ n \in Nat /\ Len(p) = n + 1 /\ p[n + 1].row = row
          /\ \A i \in 1..n : p[i] = q[i]
      BY <2>2, <2>3
    <3>2. /\ Own(a, r) <=> \E i \in 1..n : q[i].row = r
          /\ Own(b, r) <=> \E i \in 1..n + 1 : p[i].row = r
      BY <3>1 DEF Own
    <3> HIDE DEF n, p, q
    <3>3. \A i \in 1..n + 1 : i \in 1..n \/ i = n + 1
      BY <3>1
    <3>4. \A i \in 1..n : i \in 1..n + 1
      BY <3>1
    <3>5. n + 1 \in 1..n + 1
      BY <3>1
    <3> QED
      BY <3>1, <3>2, <3>3, <3>4, <3>5
  <2>7. \A r : r # row => Own(b, r) = Own(a, r)
    BY <2>6 DEF Own
  <2> QED
    BY <2>2, <2>4, <2>5, <2>6, <2>7
<1>3. CASE Collected(a, b, op, row)
  <2>1. /\ b.syncs = a.syncs /\ b.queue = a.queue
        /\ b.collected = Append(a.collected, row) /\ b.ignored = a.ignored
    BY <1>3 DEF Collected
  <2>2. /\ IsSeq(b.collected)
        /\ RE!ToSet(b.collected) = RE!ToSet(a.collected) \cup {row}
    BY <2>1, Appended DEF Seqs
  <2>3. Seqs(b)
    BY <2>1, <2>2 DEF Seqs
  <2>4. \A r : /\ InSync(b, r) = InSync(a, r) /\ Own(b, r) = Own(a, r)
               /\ InIgnored(b, r) = InIgnored(a, r)
    BY <2>1 DEF InSync, Own, InIgnored
  <2>5. \A r : InCollected(b, r) <=> InCollected(a, r) \/ r = row
    BY <2>2 DEF InCollected
  <2>6. \A r : r # row => InCollected(b, r) = InCollected(a, r)
    BY <2>5 DEF InCollected
  <2> QED
    BY <2>1, <2>3, <2>4, <2>5, <2>6
<1>5. CASE Ignored(a, b, op, row)
  <2>1. /\ b.syncs = a.syncs /\ b.queue = a.queue /\ op = "range"
        /\ b.ignored = Append(a.ignored, row) /\ b.collected = a.collected
    BY <1>5 DEF Ignored
  <2>2. /\ IsSeq(b.ignored)
        /\ RE!ToSet(b.ignored) = RE!ToSet(a.ignored) \cup {row}
    BY <2>1, Appended DEF Seqs
  <2>3. Seqs(b)
    BY <2>1, <2>2 DEF Seqs
  <2>4. \A r : /\ InSync(b, r) = InSync(a, r) /\ Own(b, r) = Own(a, r)
               /\ InCollected(b, r) = InCollected(a, r)
    BY <2>1 DEF InSync, Own, InCollected
  <2>5. \A r : InIgnored(b, r) <=> InIgnored(a, r) \/ r = row
    BY <2>2 DEF InIgnored
  <2>6. \A r : r # row => InIgnored(b, r) = InIgnored(a, r)
    BY <2>5 DEF InIgnored
  <2> QED
    BY <2>1, <2>3, <2>4, <2>5, <2>6
<1>4. CASE Merged(a, b, op, row)
  <2>1. /\ b.queue = a.queue /\ b.collected = a.collected
        /\ b.ignored = a.ignored
        /\ row.k \in DOMAIN a.syncs
        /\ b.syncs = AddRow(a.syncs, row.k, row)
    BY <1>4 DEF Merged
  <2>2. /\ DOMAIN b.syncs = DOMAIN a.syncs
        /\ \A k \in DOMAIN a.syncs : b.syncs[k].row = a.syncs[k].row
        /\ \A k \in DOMAIN a.syncs \ {row.k} :
             b.syncs[k].merged = a.syncs[k].merged
        /\ b.syncs[row.k].merged = Append(a.syncs[row.k].merged, row)
    <3> DEFINE f == a.syncs
               g == b.syncs
               s(k) == [row |-> f[k].row, merged |-> Append(f[k].merged, row)]
    <3>1. /\ DOMAIN g = DOMAIN f /\ row.k \in DOMAIN f
          /\ \A k \in DOMAIN f : g[k] = IF k = row.k THEN s(k) ELSE f[k]
      BY <2>1 DEF AddRow
    <3>2. \A k : s(k).row = f[k].row /\ s(k).merged = Append(f[k].merged, row)
      OBVIOUS
    <3> HIDE DEF f, g, s
    <3>3. /\ DOMAIN g = DOMAIN f
          /\ \A k \in DOMAIN f : g[k].row = f[k].row
          /\ \A k \in DOMAIN f \ {row.k} : g[k].merged = f[k].merged
          /\ g[row.k].merged = Append(f[row.k].merged, row)
      BY <3>1, <3>2
    <3> QED
      BY <3>3 DEF f, g
  <2>3. /\ IsSeq(b.syncs[row.k].merged)
        /\ RE!ToSet(b.syncs[row.k].merged)
             = RE!ToSet(a.syncs[row.k].merged) \cup {row}
    BY <2>1, <2>2, Appended DEF Seqs
  <2>4. Seqs(b)
    BY <2>1, <2>2, <2>3 DEF Seqs
  <2>5. \A r : /\ Own(b, r) = Own(a, r)
               /\ InCollected(b, r) = InCollected(a, r)
               /\ InIgnored(b, r) = InIgnored(a, r)
    BY <2>1 DEF Own, InCollected, InIgnored
  <2>6. \A r : InSync(b, r) <=> InSync(a, r) \/ r = row
    BY <2>1, <2>2, <2>3 DEF InSync
  <2>7. \A r : r # row => InSync(b, r) = InSync(a, r)
    BY <2>6 DEF InSync
  <2> QED
    BY <2>2, <2>4, <2>5, <2>6, <2>7
<1> QED
  BY <1>1, <1>2, <1>3, <1>4, <1>5 DEF Outcome

-----------------------------------------------------------------------------
(* The threads are brought up to date by the ninth operation; before it    *)
(* only the operations that merge, and the first four.                     *)
LEMMA Stages ==
  ASSUME NEW n \in 1..21
  PROVE  /\ RE!Order[n] \in TableOps
         /\ RE!Order[n] = "thread" <=> n = 9
         /\ n < 9 => RE!Order[n] \in MergeOps \cup
              {"folder", "deleteThread", "selfLeave", "verifyExists"}
BY DEF RE!Order, TableOps, MergeOps

(* The rows that MergedOnce is about, and the events that may not precede  *)
(* the resync of their thread.                                             *)
Wanted(r, tbl) ==
  /\ r.op \in MergeOps
  /\ r.op = "range" => RE!ByKey(RE!Rows(tbl, "range"))[r.k] = r
Relevant(e, a) ==
  e.ev # "chatDelete" /\ e.row.op # "folder" /\ e.row.k \in DOMAIN a.syncs

(* Until all threads are brought up to date, the one event of such a       *)
(* thread is its resync.                                                   *)
NothingBefore(a, n, s) ==
  n <= 9 => \A j \in 1..Len(a.queue) : Relevant(a.queue[j], a) =>
              /\ a.queue[j].row = a.syncs[a.queue[j].row.k].row
              /\ <<"thread", a.queue[j].row>> \in s
(* A resync is one of a thread of threadResyncs.                           *)
ThreadsKnown(a) ==
  \A i \in 1..Len(a.queue) :
    a.queue[i].ev = "resync" /\ a.queue[i].row.op = "thread" =>
      a.queue[i].row.k \in DOMAIN a.syncs
(* A wanted row is in exactly one place once it has been handled, and      *)
(* nowhere before that.                                                    *)
OnePlace(a, r) ==
  /\ \/ Own(a, r) \/ InSync(a, r) \/ InCollected(a, r)
     \/ InIgnored(a, r) /\ r.op = "range"
  /\ ~(Own(a, r) /\ InSync(a, r)) /\ ~(Own(a, r) /\ InCollected(a, r))
  /\ ~(Own(a, r) /\ InIgnored(a, r)) /\ ~(InSync(a, r) /\ InCollected(a, r))
  /\ ~(InSync(a, r) /\ InIgnored(a, r))
  /\ ~(InCollected(a, r) /\ InIgnored(a, r))
NoPlace(a, r) ==
  /\ ~Own(a, r) /\ ~InSync(a, r) /\ ~InCollected(a, r)
  /\ ~InIgnored(a, r)
OnceEach(a, s) ==
  \A r : Wanted(r, a.tbl) =>
    IF <<r.op, r>> \in s THEN OnePlace(a, r) ELSE NoPlace(a, r)

(* The inductive invariant.                                                *)
TableInv ==
  /\ Good(acc) /\ Seqs(acc) /\ at \in 1..21
  /\ NothingBefore(acc, at, seen) /\ ThreadsKnown(acc)
  /\ RE!SyncComesFirst(acc) /\ OnceEach(acc, seen)

(* Handling a row keeps the order of a thread's events.                    *)
LEMMA RowKeepsOrder ==
  ASSUME NEW a, Good(a), Seqs(a), NEW n \in 1..21, NEW s,
         NothingBefore(a, n, s), ThreadsKnown(a), RE!SyncComesFirst(a),
         NEW row, row \in RE!ToSet(RE!RowsOf(a.tbl, RE!Order[n])),
         row.op = RowOp(RE!Order[n]), <<RE!Order[n], row>> \notin s,
         NEW b, Outcome(a, b, RE!Order[n], row)
  PROVE  /\ NothingBefore(b, n, s \cup {<<RE!Order[n], row>>})
         /\ ThreadsKnown(b) /\ RE!SyncComesFirst(b)
<1> DEFINE op == RE!Order[n]
           t == s \cup {<<op, row>>}
           q == a.queue
<1>1. /\ op \in TableOps /\ (op = "thread" <=> n = 9)
      /\ n < 9 => op \in MergeOps \cup {"folder", "deleteThread", "selfLeave",
                                      "verifyExists"}
  BY Stages
<1>2. /\ DOMAIN b.syncs = DOMAIN a.syncs
      /\ \A k \in DOMAIN a.syncs : b.syncs[k].row = a.syncs[k].row
  BY Effects
<1> HIDE DEF op
<1>3. CASE b.queue = a.queue
  <2>1. NothingBefore(b, n, t)
    BY <1>2, <1>3 DEF NothingBefore, Relevant
  <2>2. ThreadsKnown(b) /\ RE!SyncComesFirst(b)
    BY <1>2, <1>3 DEF ThreadsKnown, RE!SyncComesFirst
  <2> QED
    BY <2>1, <2>2 DEF op
<1>4. CASE Emitted(a, b, op, row)
  <2>1. PICK e : b.queue = Append(q, e) /\ EventOf(e, a, op, row)
    BY <1>4 DEF Emitted
  <2>2. /\ Len(b.queue) = Len(q) + 1 /\ Len(q) \in Nat
        /\ \A i \in 1..Len(q) : b.queue[i] = q[i]
        /\ b.queue[Len(q) + 1] = e
    BY <2>1, Appended DEF Seqs
  <2>3. e.row = row /\ row.op = RowOp(op)
    BY <2>1 DEF EventOf, op
  <2>4. op = "thread" => row.k \in DOMAIN a.syncs
    BY DEF Good, TypesAgree, RE!Keys, RE!RowsOf, op
  <2>5. e.ev = "resync" /\ row.op = "thread" => op = "thread"
    BY <2>3 DEF RowOp
  <2>6. n <= 9 /\ Relevant(e, b) =>
          e.row = b.syncs[e.row.k].row /\ <<"thread", e.row>> \in t
    <3> SUFFICES ASSUME n <= 9, Relevant(e, b)
                 PROVE  /\ e.row = b.syncs[e.row.k].row
                        /\ <<"thread", e.row>> \in t
      OBVIOUS
    <3>1. row.k \in DOMAIN a.syncs /\ e.ev # "chatDelete" /\ row.op # "folder"
      BY <1>2, <2>3 DEF Relevant
    <3>2. op \notin MergeOps \cup {"folder", "deleteThread", "selfLeave",
                                  "verifyExists"}
      BY <2>1, <2>3, <3>1 DEF EventOf, RowOp
    <3>3. op = "thread"
      BY <1>1, <3>2
    <3> QED
      BY <1>2, <2>1, <2>3, <3>1, <3>3 DEF EventOf
  <2>7. NothingBefore(b, n, t)
    <3> SUFFICES ASSUME n <= 9, NEW j \in 1..Len(b.queue),
                        Relevant(b.queue[j], b)
                 PROVE  /\ b.queue[j].row = b.syncs[b.queue[j].row.k].row
                        /\ <<"thread", b.queue[j].row>> \in t
      BY DEF NothingBefore
    <3>1. CASE j = Len(q) + 1
      BY <2>2, <2>6, <3>1
    <3>2. CASE j \in 1..Len(q)
      <4>1. b.queue[j] = q[j] /\ Relevant(q[j], a)
        BY <1>2, <2>2, <3>2 DEF Relevant
      <4>2. q[j].row = a.syncs[q[j].row.k].row /\ <<"thread", q[j].row>> \in s
        BY <3>2, <4>1 DEF NothingBefore
      <4>3. q[j].row.k \in DOMAIN a.syncs
        BY <4>1 DEF Relevant
      <4> QED
        BY <1>2, <4>1, <4>2, <4>3
    <3> QED
      BY <2>2, <3>1, <3>2
  <2>8. ThreadsKnown(b)
    <3> SUFFICES ASSUME NEW i \in 1..Len(b.queue), b.queue[i].ev = "resync",
                        b.queue[i].row.op = "thread"
                 PROVE  b.queue[i].row.k \in DOMAIN a.syncs
      BY <1>2 DEF ThreadsKnown
    <3>1. CASE i = Len(q) + 1
      BY <2>2, <2>3, <2>4, <2>5, <3>1
    <3>2. CASE i \in 1..Len(q)
      BY <2>2, <3>2 DEF ThreadsKnown
    <3> QED
      BY <2>2, <3>1, <3>2
  <2>9. RE!SyncComesFirst(b)
    <3> SUFFICES ASSUME NEW i \in 1..Len(b.queue), NEW j \in 1..Len(b.queue),
                        b.queue[i].ev = "resync",
                        b.queue[i].row.op = "thread",
                        b.queue[j].row.k = b.queue[i].row.k,
                        b.queue[j].ev # "chatDelete",
                        b.queue[j].row.op # "folder"
                 PROVE  i <= j
      BY DEF RE!SyncComesFirst
    <3>1. CASE j = Len(q) + 1
      BY <2>2, <3>1
    <3>2. CASE i \in 1..Len(q) /\ j \in 1..Len(q)
      BY <2>2, <3>2 DEF RE!SyncComesFirst
    <3>3. CASE i = Len(q) + 1 /\ j \in 1..Len(q)
      <4>1. op = "thread" /\ b.queue[i].row = row /\ b.queue[j] = q[j]
        BY <2>2, <2>3, <2>5, <3>3
      <4>2. row.k \in DOMAIN a.syncs /\ a.syncs[row.k].row = row /\ n <= 9
        BY <1>1, <2>1, <2>4, <4>1 DEF EventOf
      <4>3. Relevant(q[j], a)
        BY <4>1, <4>2 DEF Relevant
      <4>4. q[j].row.k = row.k
        BY <4>1
      <4>5. /\ a.queue[j].row = a.syncs[a.queue[j].row.k].row
            /\ <<"thread", a.queue[j].row>> \in s
        BY <3>3, <4>2, <4>3 DEF NothingBefore
      <4>6. q[j].row = row /\ <<"thread", row>> \in s
        BY <4>2, <4>4, <4>5
      <4> QED
        BY <4>1, <4>6 DEF op
    <3> QED
      BY <2>2, <3>1, <3>2, <3>3
  <2> QED
    BY <2>7, <2>8, <2>9 DEF op
<1> QED
  BY <1>3, <1>4 DEF Outcome, Skipped, Kept, Collected, Ignored, Merged, op

(* Handling a row puts it in one place and moves no other one.             *)
LEMMA RowOnce ==
  ASSUME NEW a, Seqs(a), NEW op \in TableOps, NEW s, OnceEach(a, s),
         NEW row, row.op = RowOp(op), <<op, row>> \notin s,
         NEW b, Outcome(a, b, op, row)
  PROVE  OnceEach(b, s \cup {<<op, row>>})
<1> DEFINE t == s \cup {<<op, row>>}
<1>1. b.tbl = a.tbl
  BY DEF Outcome
<1>2. ASSUME NEW r, Wanted(r, b.tbl), r # row
      PROVE  /\ <<r.op, r>> \in t <=> <<r.op, r>> \in s
             /\ SameBut(a, b, r, "none")
  BY <1>2, Effects
<1>3. ASSUME Wanted(row, b.tbl)
      PROVE  <<row.op, row>> \in t /\ OnePlace(b, row)
  <2>1. op = row.op /\ op \in MergeOps
    BY <1>3 DEF Wanted, RowOp, MergeOps
  <2>2. NoPlace(a, row)
    BY <1>1, <1>3, <2>1 DEF OnceEach
  <2>3. ~Skipped(a, b, op, row)
    BY <1>1, <1>3, <2>1 DEF Skipped, Wanted
  <2>4. \/ Own(b, row) /\ SameBut(a, b, row, "own")
        \/ InSync(b, row) /\ SameBut(a, b, row, "sync")
        \/ InCollected(b, row) /\ SameBut(a, b, row, "collected")
        \/ /\ InIgnored(b, row) /\ SameBut(a, b, row, "ignored")
           /\ op = "range"
    BY <2>3, Effects
  <2> QED
    BY <2>1, <2>2, <2>4 DEF OnePlace, NoPlace, SameBut
<1>4. ASSUME NEW r, Wanted(r, b.tbl)
      PROVE  IF <<r.op, r>> \in t THEN OnePlace(b, r) ELSE NoPlace(b, r)
  <2>1. CASE r = row
    BY <1>3, <1>4, <2>1
  <2>2. CASE r # row
    <3>1. Wanted(r, a.tbl)
      BY <1>1, <1>4
    <3>2. IF <<r.op, r>> \in s THEN OnePlace(a, r) ELSE NoPlace(a, r)
      BY <3>1 DEF OnceEach
    <3>3. SameBut(a, b, r, "none") /\ (<<r.op, r>> \in t <=> <<r.op, r>> \in s)
      BY <1>2, <1>4, <2>2
    <3> QED
      BY <3>2, <3>3 DEF OnePlace, NoPlace, SameBut
  <2> QED
    BY <2>1, <2>2
<1> QED
  BY <1>4 DEF OnceEach

(* All rows that may join a resync have been handled.                      *)
AllMerged == \A r \in RE!ToSet(acc.tbl) :
               r.op \in MergeOps => <<r.op, r>> \in seen

(* Whatever the rows of a table that agrees on the types of its threads,   *)
(* and whatever the database and the client know: a chat that the table    *)
(* deletes is not created again by the table, the events of a thread come  *)
(* after its resync and are for one portal, and a new participant, a mute  *)
(* setting, a move to encryption or a bundle of history ends up in exactly *)
(* one of: the resync, an event, a waiting collector, and for history the  *)
(* collector's warning that it ignored it (parseTable and the handlers of  *)
(* its rows).                                                              *)
THEOREM TablesAreKept ==
  TableSpec => []/\ RE!DeletedStaysDeleted(acc) /\ RE!SyncComesFirst(acc)
                 /\ RE!OnePortal(acc)
                 /\ AllMerged => RE!MergedOnce(acc.tbl, acc)
<1>1. TableInit => TableInv
  <2> SUFFICES ASSUME TableInit PROVE TableInv
    OBVIOUS
  <2>1. <<>> \in Seq({}) /\ Len(<<>>) = 0 /\ DOMAIN <<>> = {}
    OBVIOUS
  <2>2. /\ IsSeq(<<>>) /\ RE!ToSet(<<>>) = {}
    BY <2>1 DEF IsSeq, RE!ToSet
  <2>0. /\ IsAcc(acc) /\ TypesAgree(acc)
        /\ acc.queue = <<>> /\ acc.collected = <<>> /\ acc.ignored = <<>>
        /\ \A k \in DOMAIN acc.syncs : acc.syncs[k].merged = <<>>
    BY StartGood DEF TableInit
  <2>3. Good(acc) /\ Seqs(acc)
    BY <2>0, <2>1, <2>2 DEF Good, AllFine, Seqs
  <2>4. /\ NothingBefore(acc, at, seen) /\ ThreadsKnown(acc)
        /\ RE!SyncComesFirst(acc)
    BY <2>0, <2>1 DEF NothingBefore, ThreadsKnown, RE!SyncComesFirst
  <2>5. OnceEach(acc, seen)
    BY <2>0, <2>1, <2>2 DEF TableInit, OnceEach, NoPlace, Own, InSync,
       InCollected, InIgnored
  <2> QED
    BY <2>3, <2>4, <2>5 DEF TableInv, TableInit
<1>2. ASSUME TableInv, [TableNext]_tableVars PROVE TableInv'
  <2>1. CASE UNCHANGED tableVars
    BY <1>2, <2>1 DEF tableVars, TableInv, Good, IsAcc, AllFine, TypesAgree,
       Seqs, NothingBefore, ThreadsKnown, RE!SyncComesFirst, OnceEach,
       OnePlace, NoPlace, Own, InSync, InCollected, InIgnored, Relevant
  <2>2. CASE NextOp
    <3>1. at' \in 1..21 /\ at' = at + 1 /\ acc' = acc /\ seen' = seen
      BY <1>2, <2>2 DEF NextOp, TableInv
    <3>2. NothingBefore(acc', at', seen')
      BY <1>2, <3>1 DEF NothingBefore, TableInv
    <3> QED
      BY <1>2, <3>1, <3>2 DEF TableInv
  <2>3. ASSUME NEW row, HandleRow(row) PROVE TableInv'
    <3> DEFINE op == RE!Order[at]
    <3>1. /\ row \in RE!ToSet(RE!RowsOf(acc.tbl, op)) /\ row.op = RowOp(op)
          /\ <<op, row>> \notin seen /\ seen' = seen \cup {<<op, row>>}
          /\ acc' = RE!Handle(acc, op, row, Split) /\ at' = at
      BY <2>3 DEF HandleRow
    <3>2. op \in TableOps
      BY <1>2, Stages DEF TableInv
    <3>3. /\ Good(acc) /\ Seqs(acc) /\ at \in 1..21
          /\ NothingBefore(acc, at, seen) /\ ThreadsKnown(acc)
          /\ RE!SyncComesFirst(acc) /\ OnceEach(acc, seen)
      BY <1>2 DEF TableInv
    <3>4. Good(acc')
      BY <3>1, <3>2, <3>3, HandleGood
    <3>5. Outcome(acc, acc', op, row)
      BY <3>1, <3>2, <3>3, HandleOutcome
    <3>6. Seqs(acc')
      BY <3>3, <3>5, Effects
    <3>7. /\ NothingBefore(acc', at, seen \cup {<<op, row>>})
          /\ ThreadsKnown(acc') /\ RE!SyncComesFirst(acc')
      BY <3>1, <3>3, <3>5, RowKeepsOrder
    <3>8. OnceEach(acc', seen \cup {<<op, row>>})
      <4> HIDE DEF op
      <4> QED
        BY <3>1, <3>2, <3>3, <3>5, RowOnce
    <3> HIDE DEF op
    <3> QED
      BY <3>1, <3>3, <3>4, <3>6, <3>7, <3>8 DEF TableInv
  <2> QED
    BY <1>2, <2>1, <2>2, <2>3 DEF TableNext
<1>3. TableInv => /\ RE!DeletedStaysDeleted(acc) /\ RE!SyncComesFirst(acc)
                  /\ RE!OnePortal(acc)
                  /\ AllMerged => RE!MergedOnce(acc.tbl, acc)
  <2> SUFFICES ASSUME TableInv
               PROVE  /\ RE!DeletedStaysDeleted(acc) /\ RE!OnePortal(acc)
                      /\ AllMerged => RE!MergedOnce(acc.tbl, acc)
    BY DEF TableInv
  <2>1. \A i \in 1..Len(acc.queue) : Fine(acc.queue[i], acc.tbl)
    BY DEF TableInv, Good, AllFine
  <2>2. RE!DeletedStaysDeleted(acc)
    BY <2>1 DEF RE!DeletedStaysDeleted, Fine
  <2>3. RE!OnePortal(acc)
    BY <2>1 DEF RE!OnePortal, Fine
  <2>4. ASSUME AllMerged PROVE RE!MergedOnce(acc.tbl, acc)
    <3>1. \A r \in RE!ToSet(acc.tbl) :
            Wanted(r, acc.tbl) => OnePlace(acc, r)
      BY <2>4 DEF TableInv, OnceEach, AllMerged, Wanted
    <3> QED
      BY <3>1 DEF RE!MergedOnce, Wanted, OnePlace, MergeOps, Own, InSync,
         InCollected, InIgnored
  <2> QED
    BY <2>2, <2>3, <2>4
<1> QED
  BY <1>1, <1>2, <1>3, PTL DEF TableSpec

-----------------------------------------------------------------------------
(* ChatState: the type and the members of a chat, names of messages and    *)
(* users.                                                                  *)

(* What may happen to the type of a chat, in any order and any number of   *)
(* times: the server's resyncs with any type, before and while a chat is   *)
(* cut over to encryption, the move to encryption, and encrypted messages. *)
ChatUpdates ==
  [op : {"resync", "cutoverResync"}, type : Nat]
  \cup [op : {"move"}, type : Nat]
  \cup [op : {"whatsapp"}, type : {CS!ENCRYPTED_OVER_WA_ONE_TO_ONE,
                                   CS!ENCRYPTED_OVER_WA_GROUP}]
ChatSpec ==
  /\ chat \in [type : Nat, server : {"none", "msgr", "group"}]
  /\ [][\E u \in ChatUpdates : chat' = CS!UpdateMeta(chat, u)]_chat

(* A chat that is encrypted stays so, whatever resyncs the server sends    *)
(* afterwards, late ones from before the move included (MinimalUpdate,     *)
(* markPortalAsEncrypted, updateServerAndThreadType).                      *)
THEOREM EncryptedForGood ==
  ChatSpec => [](CS!IsWhatsApp(chat.type) => []CS!IsWhatsApp(chat.type))
<1> DEFINE T == chat \in [type : Nat, server : {"none", "msgr", "group"}]
           S == \E u \in ChatUpdates : chat' = CS!UpdateMeta(chat, u)
<1> USE DEF CS!ONE_TO_ONE, CS!GROUP_THREAD, CS!COMMUNITY_GROUP,
            CS!ENCRYPTED_OVER_WA_ONE_TO_ONE, CS!ENCRYPTED_OVER_WA_GROUP
<1>1. ASSUME T, [S]_chat
      PROVE  T' /\ (CS!IsWhatsApp(chat.type) => CS!IsWhatsApp(chat.type)')
  <2>1. CASE UNCHANGED chat
    BY <1>1, <2>1 DEF CS!IsWhatsApp
  <2>2. CASE S
    <3>1. PICK u \in ChatUpdates : chat' = CS!UpdateMeta(chat, u)
      BY <2>2
    <3>2. CASE u.op = "resync" /\ u.type \in Nat
      BY <1>1, <3>1, <3>2 DEF CS!UpdateMeta, CS!MinimalUpdate, CS!IsWhatsApp
    <3>3. CASE u.op = "cutoverResync" /\ u.type \in Nat
      BY <1>1, <3>1, <3>3 DEF CS!UpdateMeta, CS!MinimalUpdate, CS!IsWhatsApp,
         CS!markPortalAsEncrypted
    <3>4. CASE u.op = "move"
      BY <1>1, <3>1, <3>4
         DEF CS!UpdateMeta, CS!markPortalAsEncrypted, CS!IsWhatsApp
    <3>5. CASE u.op = "whatsapp"
               /\ u.type \in {CS!ENCRYPTED_OVER_WA_ONE_TO_ONE,
                              CS!ENCRYPTED_OVER_WA_GROUP}
      <4>1. chat' = CS!updateServerAndThreadType(chat,
                IF u.type = CS!ENCRYPTED_OVER_WA_GROUP THEN "group"
                ELSE "msgr", u.type)
        BY <3>1, <3>5 DEF CS!UpdateMeta
      <4> QED
        BY <1>1, <3>5, <4>1 DEF CS!updateServerAndThreadType, CS!IsWhatsApp
    <3> QED
      BY <3>2, <3>3, <3>4, <3>5 DEF ChatUpdates
  <2> QED
    BY <1>1, <2>1, <2>2
<1>2. ChatSpec => T /\ [][S]_chat
  BY DEF ChatSpec
<1> QED
  BY <1>1, <1>2, PTL

-----------------------------------------------------------------------------
(* Any use of the caches of Instagram users, in any order, with writes     *)
(* that fail and restarts.  They start out empty over any database.        *)
CacheOps ==
  [op : {"getFB"}, ig : STRING] \cup [op : {"getIG"}, fb : Nat]
  \cup [op : {"put"}, ig : STRING, fb : Nat, ok : BOOLEAN]
  \cup [op : {"restart"}]
IsCache(c) ==
  c = [ids |-> c.ids, reverse |-> c.reverse, db |-> c.db, failed |-> c.failed]
CacheSpec ==
  /\ \E db : cache = CS!Cold(db)
  /\ [][\E op \in CacheOps : cache' = CS!UseCache(cache, op)]_cache

(* A pair is backed by what backs it in the database and among the failed  *)
(* writes of another state, if that has all rows and failures but one.     *)
LEMMA StaysBacked ==
  ASSUME NEW s, NEW t, NEW ig, NEW fb, CS!Backed(s, ig, fb),
         \A i \in DOMAIN s.db : i \in DOMAIN t.db /\ t.db[i] = s.db[i],
         <<ig, fb>> \in s.failed =>
            \/ <<ig, fb>> \in t.failed
            \/ CS!Stored(t.db, ig, fb)
            \/ CS!Contradicted(t.db, ig, fb)
  PROVE  CS!Backed(t, ig, fb)
BY DEF CS!Backed, CS!Stored, CS!Contradicted

(* An INSERT keeps all rows, and afterwards its pair is stored or          *)
(* contradicted by one of them.                                            *)
LEMMA InsertKeeps ==
  ASSUME NEW db, NEW ig, NEW fb
  PROVE  LET new == CS!InsertId(db, ig, fb)
         IN /\ \A i \in DOMAIN db : i \in DOMAIN new /\ new[i] = db[i]
            /\ CS!Stored(new, ig, fb) \/ CS!Contradicted(new, ig, fb)
<1> DEFINE new == CS!InsertId(db, ig, fb)
<1>1. CASE \E i \in DOMAIN db : i = ig \/ db[i] = fb
  <2>1. new = db
    BY <1>1 DEF CS!InsertId
  <2>2. PICK i \in DOMAIN db : i = ig \/ db[i] = fb
    BY <1>1
  <2>3. CS!Stored(db, ig, fb) \/ CS!Contradicted(db, ig, fb)
    BY <2>2 DEF CS!Stored, CS!Contradicted
  <2> HIDE DEF new
  <2> QED
    BY <2>1, <2>3 DEF new
<1>2. CASE ~ \E i \in DOMAIN db : i = ig \/ db[i] = fb
  <2>1. new = CS!Set(db, ig, fb)
    BY <1>2 DEF CS!InsertId
  <2>2. ig \in DOMAIN new /\ new[ig] = fb
    BY <2>1 DEF CS!Set
  <2>3. \A i \in DOMAIN db : i \in DOMAIN new /\ new[i] = db[i]
    BY <1>2, <2>1 DEF CS!Set
  <2> HIDE DEF new
  <2> QED
    BY <2>2, <2>3 DEF CS!Stored, new
<1> QED
  BY <1>1, <1>2

(* A pair may be added to both caches if it is backed, and if those that   *)
(* were there still are.                                                   *)
LEMMA AddPair ==
  ASSUME NEW s, NEW t, NEW ig, NEW fb, CS!CacheIsStored(s),
         t.ids = CS!Set(s.ids, ig, fb), t.reverse = CS!Set(s.reverse, fb, ig),
         CS!Backed(t, ig, fb),
         \A x, y : CS!Backed(s, x, y) => CS!Backed(t, x, y)
  PROVE  CS!CacheIsStored(t)
<1>1. ASSUME NEW x \in DOMAIN t.ids PROVE CS!Backed(t, x, t.ids[x])
  <2>1. CASE x = ig
    BY <2>1 DEF CS!Set
  <2>2. CASE x # ig
    BY <1>1, <2>2 DEF CS!Set, CS!CacheIsStored
  <2> QED
    BY <2>1, <2>2
<1>2. ASSUME NEW y \in DOMAIN t.reverse PROVE CS!Backed(t, t.reverse[y], y)
  <2>1. CASE y = fb
    BY <2>1 DEF CS!Set
  <2>2. CASE y # fb
    BY <1>2, <2>2 DEF CS!Set, CS!CacheIsStored
  <2> QED
    BY <2>1, <2>2
<1> QED
  BY <1>1, <1>2 DEF CS!CacheIsStored

(* What either cache has of an Instagram user is what the database has,    *)
(* but for a pair that could not be written and one that contradicts a row *)
(* (getFBIDForIGUser, getIGUserForFBID, putFBIDForIGUser).                 *)
THEOREM CacheStays == CacheSpec => []CS!CacheIsStored(cache)
<1> DEFINE I == IsCache(cache) /\ CS!CacheIsStored(cache)
           S == \E op \in CacheOps : cache' = CS!UseCache(cache, op)
<1>1. ASSUME NEW db, NEW c, c = CS!Cold(db)
      PROVE  IsCache(c) /\ CS!CacheIsStored(c)
  BY <1>1 DEF CS!Cold, IsCache, CS!CacheIsStored
<1>2. CacheSpec => I
  BY <1>1 DEF CacheSpec
<1>3. ASSUME I, [S]_cache PROVE I'
  <2>1. CASE UNCHANGED cache
    BY <1>3, <2>1 DEF IsCache, CS!CacheIsStored, CS!Backed
  <2>2. CASE S
    <3>1. PICK op \in CacheOps : cache' = CS!UseCache(cache, op)
      BY <2>2
    <3> DEFINE s == cache
               t == cache'
    <3>2. IsCache(s) /\ CS!CacheIsStored(s)
      BY <1>3
    <3>3. SUFFICES IsCache(t) /\ CS!CacheIsStored(t)
      BY DEF IsCache, CS!CacheIsStored, CS!Backed
    <3> HIDE DEF s, t
    <3>4. CASE op.op = "getFB"
      <4> DEFINE fb == CS!Get(s.db, op.ig, 0)
      <4>1. t = CS!getFBIDForIGUser(s, op.ig)
        BY <3>1, <3>4 DEF CS!UseCache, s, t
      <4>2. CASE t = s
        BY <3>2, <4>2
      <4>3. CASE t = [s EXCEPT !.ids = CS!Set(@, op.ig, fb),
                               !.reverse = CS!Set(@, fb, op.ig)]
        <5>1. /\ IsCache(t) /\ t.ids = CS!Set(s.ids, op.ig, fb)
              /\ t.reverse = CS!Set(s.reverse, fb, op.ig)
              /\ t.db = s.db /\ t.failed = s.failed
          BY <3>2, <4>3 DEF IsCache
        <5>2. CS!Backed(t, op.ig, fb)
          BY <5>1 DEF CS!Backed, CS!Get, CS!Stored
        <5>3. \A x, y : CS!Backed(s, x, y) => CS!Backed(t, x, y)
          BY <5>1 DEF CS!Backed
        <5> HIDE DEF fb
        <5> QED
          BY <3>2, <5>1, <5>2, <5>3, AddPair
      <4> QED
        BY <4>1, <4>2, <4>3 DEF CS!getFBIDForIGUser
    <3>5. CASE op.op = "getIG"
      <4> DEFINE igs == {i \in DOMAIN s.db : s.db[i] = op.fb}
                 ig == IF igs = {} THEN CS!Nobody
                       ELSE CHOOSE i \in igs : TRUE
      <4>1. t = CS!getIGUserForFBID(s, op.fb)
        BY <3>1, <3>5 DEF CS!UseCache, s, t
      <4>2. CASE t = s
        BY <3>2, <4>2
      <4>3. CASE t = [s EXCEPT !.ids = CS!Set(@, ig, op.fb),
                               !.reverse = CS!Set(@, op.fb, ig)]
        <5>1. ig = CS!Nobody \/ (ig \in DOMAIN s.db /\ s.db[ig] = op.fb)
          OBVIOUS
        <5> HIDE DEF ig
        <5>2. /\ IsCache(t) /\ t.ids = CS!Set(s.ids, ig, op.fb)
              /\ t.reverse = CS!Set(s.reverse, op.fb, ig)
              /\ t.db = s.db /\ t.failed = s.failed
          BY <3>2, <4>3 DEF IsCache
        <5>3. CS!Backed(t, ig, op.fb)
          BY <5>1, <5>2 DEF CS!Backed, CS!Stored
        <5>4. \A x, y : CS!Backed(s, x, y) => CS!Backed(t, x, y)
          BY <5>2 DEF CS!Backed
        <5> QED
          BY <3>2, <5>2, <5>3, <5>4, AddPair
      <4> QED
        BY <4>1, <4>2, <4>3 DEF CS!getIGUserForFBID
    <3>6. CASE op.op = "put"
      <4>1. t = CS!putFBIDForIGUser(s, op.ig, op.fb, op.ok)
        BY <3>1, <3>6 DEF CS!UseCache, s, t
      <4>2. CASE CS!Get(s.ids, op.ig, 0) = op.fb
        BY <3>2, <4>1, <4>2 DEF CS!putFBIDForIGUser
      <4>3. CASE CS!Get(s.ids, op.ig, 0) # op.fb
        <5> DEFINE new == CS!InsertId(s.db, op.ig, op.fb)
        <5>1. /\ IsCache(t) /\ t.ids = CS!Set(s.ids, op.ig, op.fb)
              /\ t.reverse = CS!Set(s.reverse, op.fb, op.ig)
              /\ t.db = IF op.ok THEN new ELSE s.db
              /\ t.failed = IF op.ok THEN s.failed \ {<<op.ig, op.fb>>}
                            ELSE s.failed \cup {<<op.ig, op.fb>>}
          <6> HIDE DEF new
          <6>1. t = [ids |-> CS!Set(s.ids, op.ig, op.fb),
                     reverse |-> CS!Set(s.reverse, op.fb, op.ig),
                     db |-> IF op.ok THEN new ELSE s.db,
                     failed |-> IF op.ok THEN s.failed \ {<<op.ig, op.fb>>}
                                ELSE s.failed \cup {<<op.ig, op.fb>>}]
            BY <4>1, <4>3 DEF CS!putFBIDForIGUser, new
          <6> QED
            BY <6>1 DEF IsCache
        <5>2. /\ \A i \in DOMAIN s.db : i \in DOMAIN new /\ new[i] = s.db[i]
              /\ \/ CS!Stored(new, op.ig, op.fb)
                 \/ CS!Contradicted(new, op.ig, op.fb)
          BY InsertKeeps
        <5> HIDE DEF new
        <5>3. CS!Backed(t, op.ig, op.fb)
          BY <5>1, <5>2 DEF CS!Backed
        <5>4. ASSUME NEW x, NEW y, CS!Backed(s, x, y)
              PROVE  CS!Backed(t, x, y)
          <6>1. CASE x = op.ig /\ y = op.fb
            BY <5>3, <6>1
          <6>2. CASE ~(x = op.ig /\ y = op.fb)
            <7>1. <<x, y>> \in s.failed => <<x, y>> \in t.failed
              BY <5>1, <6>2
            <7>2. \A i \in DOMAIN s.db :
                    i \in DOMAIN t.db /\ t.db[i] = s.db[i]
              BY <5>1, <5>2
            <7> QED
              BY <5>4, <7>1, <7>2, StaysBacked
          <6> QED
            BY <6>1, <6>2
        <5> QED
          BY <3>2, <5>1, <5>3, <5>4, AddPair
      <4> QED
        BY <4>2, <4>3
    <3>7. CASE op.op = "restart"
      <4>1. t = CS!Cold(s.db)
        BY <3>1, <3>7 DEF CS!UseCache, s, t
      <4> QED
        BY <1>1, <4>1
    <3> QED
      BY <3>4, <3>5, <3>6, <3>7 DEF CacheOps
  <2> QED
    BY <1>3, <2>1, <2>2
<1>4. CacheSpec => [][S]_cache
  BY DEF CacheSpec
<1> QED
  BY <1>2, <1>3, <1>4, PTL

(* The user is a member of every portal of theirs, whichever users the     *)
(* server reports: in the minimal info, and in the info that replaces it.  *)
(* (A chat with oneself has no other users; makeMinimalChatInfo,           *)
(* GetChatInfo.)                                                           *)
THEOREM SelfStaysMember ==
  ASSUME NEW direct \in BOOLEAN, NEW other, NEW self, NEW users,
         self # CS!Nobody,
         direct /\ other = self => users \subseteq {self}
  PROVE  CS!SelfIsMember(
           CS!GetChatInfo(CS!makeMinimalChatInfo(direct, other, self), users,
                          self, IF direct THEN other ELSE CS!Nobody, self))
<1> DEFINE list == CS!makeMinimalChatInfo(direct, other, self)
           otherUser == IF direct THEN other ELSE CS!Nobody
           keep == /\ self \in DOMAIN list /\ list[self].fromMe
                   /\ self \notin users
           new == [u \in users \cup (IF keep THEN {self} ELSE {}) |->
                     CS!Member(u, self)]
           note == CS!makeNoteToSelfMembers(otherUser)
           info == CS!GetChatInfo(list, users, self, otherUser, self)
<1> SUFFICES CS!SelfIsMember(info)
  OBVIOUS
<1>1. /\ users = {} => info = list
      /\ users # {} => info = note \/ info = new
  <2> HIDE DEF list, otherUser
  <2> QED
    BY Zenon DEF CS!GetChatInfo
<1>2. CS!SelfIsMember(note)
  BY DEF CS!SelfIsMember, CS!makeNoteToSelfMembers
<1>3. ASSUME ~(direct /\ other = self)
      PROVE  self \in DOMAIN list /\ list[self].fromMe
  BY <1>3 DEF CS!makeMinimalChatInfo, CS!Member
<1>4. CS!SelfIsMember(list)
  <2>1. CASE direct /\ other = self
    BY <2>1 DEF CS!makeMinimalChatInfo, CS!makeNoteToSelfMembers,
                CS!SelfIsMember
  <2>2. CASE ~(direct /\ other = self)
    BY <1>3, <2>2 DEF CS!SelfIsMember
  <2> QED
    BY <2>1, <2>2
<1>5. ASSUME self \in users \/ keep PROVE CS!SelfIsMember(new)
  <2>1. self \in DOMAIN new /\ new[self].fromMe
    <3> HIDE DEF list
    <3> QED
      BY <1>5 DEF CS!Member
  <2> QED
    BY <2>1 DEF CS!SelfIsMember
<1> HIDE DEF new, list, note, info, otherUser
<1>6. CASE users = {}
  BY <1>1, <1>4, <1>6
<1>7. CASE users # {} /\ direct /\ other = self
  <2>1. self \in users
    BY <1>7
  <2> QED
    BY <1>1, <1>2, <1>5, <1>7, <2>1
<1>8. CASE users # {} /\ ~(direct /\ other = self)
  <2>1. self \in users \/ keep
    BY <1>3, <1>8
  <2> QED
    BY <1>1, <1>2, <1>5, <1>8, <2>1
<1> QED
  BY <1>6, <1>7, <1>8

(* A reaction, edit or removal names its target by a WhatsApp key; what    *)
(* the sender's bridge puts there, the receiver's bridge reads as the same *)
(* message, in groups and in direct chats and whoever wrote the message    *)
(* (messageIDToWAKey, waKeyToMessageID).                                   *)
THEOREM KeysNameTheSame ==
  ASSUME NEW group \in BOOLEAN, NEW author, NEW reactor, NEW reader,
         NEW a, NEW b,
         CS!Nobody \notin {author, a, b}, CS!Group \notin {a, b}, a # b,
         ~group => author \in {a, b} /\ reactor \in {a, b} /\ reader \in {a, b}
  PROVE  LET Peer(u) == IF u = a THEN b ELSE a
         IN CS!KeyRoundTrip(
              CS!messageIDToWAKey(CS!IdAt(reactor, Peer(reactor), group,
                                          author), reactor),
              group, author, reactor, reader, Peer(reader))
<1> USE DEF CS!KeyRoundTrip, CS!messageIDToWAKey, CS!IdAt,
            CS!waKeyToMessageID, CS!Group, CS!Nobody
<1>1. CASE group
  BY <1>1
<1>2. CASE ~group
  BY <1>2
<1> QED
  BY <1>1, <1>2
=============================================================================
