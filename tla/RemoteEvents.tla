---------------------------- MODULE RemoteEvents ----------------------------
(***************************************************************************)
(* parseTable of pkg/connector/handlemeta.go with the handlers of the rows *)
(* of a table, and WrapMessages of pkg/messagix/table/wrappedmessage.go.   *)
(*                                                                         *)
(* A table is a sequence of rows.  A row has the name of its operation, a  *)
(* thread key k, the type of the thread, the ID of a message or user and   *)
(* another number (a watermark, a subthread, whether it was unsent).  The  *)
(* result is the queue of events for the portals, in the order in which    *)
(* handleParsedTable hands them to the bridge.                             *)
(***************************************************************************)
EXTENDS Naturals, Sequences, SequencesExt, FiniteSets

CONSTANTS Self        \* the user whose login this is

Unknown == "unknown"
OneToOne == {"oneToOne", "encryptedOneToOne"}

Rows(tbl, op) == SelectSeq(tbl, LAMBDA r : r.op = op)
Keys(rows) == {r.k : r \in ToSet(rows)}

(* A map filled in the order of the rows: a later row replaces an earlier. *)
ByKey(rows) ==
  [k \in Keys(rows) |-> Last(SelectSeq(rows, LAMBDA r : r.k = k))]

-----------------------------------------------------------------------------
(* WrapMessages.                                                           *)

(* messageMap: a message that is inserted replaces one that is upserted.   *)
MutOwner(tbl, id) ==
  LET up == {r \in ToSet(Rows(tbl, "upsertMessage")) : r.id = id}
  IN IF up # {} THEN "upsert" ELSE "insert"

Owner(tbl, id) ==
  IF \E r \in ToSet(Rows(tbl, "insertMessage")) : r.id = id THEN "insert"
  ELSE IF \E r \in ToSet(Rows(tbl, "upsertMessage")) : r.id = id
  THEN "upsert" ELSE "nobody"

(* The attachments of a message, in the order of the table; reactions are  *)
(* bundled with upserted messages and handled on their own too.            *)
Attached(tbl, r, how) ==
  [row |-> r,
   files |-> SelectSeq(Rows(tbl, "attachment"),
               LAMBDA a : a.id = r.id /\ Owner(tbl, r.id) = how),
   reactions |-> SelectSeq(Rows(tbl, "reaction"),
               LAMBDA a : a.id = r.id /\ how = "upsert")]

(* MarkRead: the last of the watermarks in the table decides, those of the *)
(* threads after those of LSMarkThreadReadV2.                              *)
MarkRead(tbl, k, max) ==
  LET marks == SelectSeq(Rows(tbl, "markRead") \o Rows(tbl, "thread"),
                         LAMBDA r : r.k = k)
  IN marks # <<>> /\ max <= Last(marks).n

(* Upserted messages without a range for their thread are dropped.         *)
WrapMessages(tbl) ==
  [upsert |->
     [k \in Keys(Rows(tbl, "range")) |->
        LET ms == SelectSeq(Rows(tbl, "upsertMessage"), LAMBDA r : r.k = k)
        IN [messages |-> [i \in 1..Len(ms) |-> Attached(tbl, ms[i], "upsert")],
            markRead |-> MarkRead(tbl, k, ByKey(Rows(tbl, "range"))[k].n)]],
   insert |->
     LET ms == Rows(tbl, "insertMessage")
     IN [i \in 1..Len(ms) |-> Attached(tbl, ms[i], "insert")]]

-----------------------------------------------------------------------------
(* parseTable goes through the rows with an accumulator: the queue, the    *)
(* maps of threads that exist and of threads that are resynced, and the    *)
(* database's subthreads (records of sub, parent, and the root message).   *)

(* makeFBPortalKey.  A thread of unknown type gets a receiver; whether it  *)
(* has one is then uncertain, and the bridge looks for both.               *)
makeFBPortalKey(k, type, split) ==
  [id |-> k, receiver |-> split \/ type \in OneToOne \cup {Unknown}]

MutIsUncertainReceiver(type) == FALSE
IsUncertainReceiver(type) == type = Unknown

Event(ev, k, type, row, root, split) ==
  [ev |-> ev, key |-> makeFBPortalKey(k, type, split),
   uncertain |-> IsUncertainReceiver(type), row |-> row, root |-> root]

Emit(acc, event) == [acc EXCEPT !.queue = Append(@, event)]

(* collectPortalEvents: the type is what the table says of the thread; an  *)
(* event of a subthread is one of its parent.                              *)
handlerParams(acc, k) ==
  LET subs == {s \in acc.db : s.sub = k}
      sub == CHOOSE s \in subs : TRUE
      type == IF k \in DOMAIN acc.vtes THEN acc.vtes[k].type
              ELSE IF k \in DOMAIN acc.syncs THEN acc.syncs[k].row.type
              ELSE Unknown
  IN IF subs = {}
     THEN [id |-> k, type |-> type, sync |-> k \in DOMAIN acc.syncs,
           root |-> 0]
     ELSE [id |-> sub.parent, type |-> Unknown,
           sync |-> k \in DOMAIN acc.syncs, root |-> sub.root]

Without(f, k) == [x \in DOMAIN f \ {k} |-> f[x]]

(* handleDeleteThreadKey: not for a thread that the same table also brings *)
(* up to date (a delete that is followed by an insert).                    *)
activeThreads(tbl) ==
  UNION {Keys(Rows(tbl, op)) : op \in {"verifyExists", "updateOrInsert",
                                       "range", "thread"}}

MutHandleDeleteThreadKey(acc, tk, row, split) ==
  Emit([acc EXCEPT !.vtes = Without(@, row.k)],
       Event("chatDelete", tk.id, tk.type, row, 0, split))

handleDeleteThreadKey(acc, tk, row, split) ==
  IF row.k \in activeThreads(acc.tbl) THEN acc
  ELSE Emit([acc EXCEPT !.vtes = Without(@, row.k)],
            Event("chatDelete", tk.id, tk.type, row, 0, split))

handleSelfLeaveThread(acc, tk, row, split) ==
  IF row.id # Self THEN acc ELSE handleDeleteThreadKey(acc, tk, row, split)

(* handleUpsertMessages while a collector waits for the thread: a bundle   *)
(* that reaches above what the collector has so far is ignored, with a     *)
(* warning; another is joined to it, and the collector waits for what is   *)
(* older, or is done.  (What makes it done is in Backfill; here the bundle *)
(* says so.)                                                               *)
Joined(collecting, id, bundle) ==
  IF bundle.done THEN Without(collecting, id)
  ELSE [collecting EXCEPT ![id] = bundle.min]

Collect(acc, id, row) ==
  IF row.bundle.template > acc.collecting[id]
  THEN [acc EXCEPT !.ignored = Append(@, row)]
  ELSE [acc EXCEPT !.collected = Append(@, row),
                   !.collecting = Joined(@, id, row.bundle)]

(* handleAddParticipant, handleUpdateMuteSetting, handleMoveThreadToE2EE   *)
(* and handleUpsertMessages: part of a resync if there is one.  A new      *)
(* participant is announced in the subthread's own portal.                 *)
MutMerge(acc, tk, row, split) ==
  IF tk.sync THEN [acc EXCEPT !.syncs[row.k].merged = Append(@, row)] ELSE acc

Merge(acc, tk, row, split) ==
  IF row.op = "range" /\ tk.id \in DOMAIN acc.collecting
  THEN Collect(acc, tk.id, row)
  ELSE IF tk.sync
  THEN [acc EXCEPT !.syncs[row.k].merged = Append(@, row)]
  ELSE Emit(acc, Event(IF row.op = "range" THEN "backfill" ELSE "info",
                       IF row.op = "addParticipant" THEN row.k ELSE tk.id,
                       tk.type, row, 0, split))

(* The names and pictures of direct chats are ignored by default.          *)
handleChatMeta(acc, tk, row, split) ==
  IF tk.type \in OneToOne /\ ~acc.privateMeta THEN acc
  ELSE Emit(acc, Event("info", tk.id, tk.type, row, 0, split))

(* PutThread: ON CONFLICT DO NOTHING, with the subthread as the primary    *)
(* key and the root unique.                                                *)
PutThread(db, parent, sub, root) ==
  IF \E s \in db : s.sub = sub \/ s.root = root THEN db
  ELSE db \cup {[sub |-> sub, parent |-> parent, root |-> root]}

(* handleMessageInsert with handleSubthread: a message may tell that there *)
(* is a subthread whose root it is, or, with a link to a subthread as its  *)
(* one attachment, that the message it replies to is.  (A write that fails *)
(* is only logged.)                                                        *)
handleSubthread(db, row) ==
  IF row.n = 0 THEN db
  ELSE PutThread(db, row.k, row.n,
                 IF row.type = "subthreadStart" THEN row.reply ELSE row.id)

handleMessageInsert(acc, tk, row, split) ==
  Emit([acc EXCEPT !.db = handleSubthread(@, row)],
       Event("message", tk.id, tk.type, row, tk.root, split))

(* handleEdit: an edit has no thread key, and its message has to be in the *)
(* database when the table is parsed.  Its portal is that of the message.  *)
handleEdit(acc, row) ==
  IF row.id \notin acc.stored THEN acc
  ELSE Emit(acc, [ev |-> "edit", key |-> [id |-> row.k, receiver |-> FALSE],
                  uncertain |-> FALSE, row |-> row, root |-> 0])

(* Only what was unsent is deleted by LSDeleteThenInsertMessage.           *)
handleDeleteThenInsertMessage(acc, tk, row, split) ==
  IF row.n = 0 THEN acc
  ELSE Emit(acc, Event("remove", tk.id, tk.type, row, 0, split))

Handle(acc, op, row, split) ==
  LET tk == handlerParams(acc, row.k)
      plain(ev) == Emit(acc, Event(ev, tk.id, tk.type, row, 0, split))
  IN CASE op = "folder" ->
            Emit(acc, Event("resync", row.k, "folder", row, 0, split))
       [] op = "deleteThread" -> handleDeleteThreadKey(acc, tk, row, split)
       [] op = "selfLeave" -> handleSelfLeaveThread(acc, tk, row, split)
       [] op = "verifyExists" ->
            IF row.k \notin DOMAIN acc.vtes \/ acc.vtes[row.k] # row
                 \/ row.k \in DOMAIN acc.syncs
                 \/ row.k \in Keys(Rows(acc.tbl, "folder"))
            THEN acc
            ELSE Emit(acc, Event("resync", row.k, row.type, row, 0, split))
       [] op \in {"addParticipant", "mute", "moveToE2EE", "range"} ->
            IF op = "range" /\ ByKey(Rows(acc.tbl, op))[row.k] # row THEN acc
            ELSE Merge(acc, tk, row, split)
       [] op = "thread" ->
            IF acc.syncs[row.k].row # row THEN acc
            ELSE Emit(acc, Event("resync", row.k, row.type, row, 0, split))
       [] op = "insertMessage" -> handleMessageInsert(acc, tk, row, split)
       [] op = "edit" -> handleEdit(acc, row)
       [] op \in {"name", "image"} -> handleChatMeta(acc, tk, row, split)
       [] op = "deleteThenInsert" ->
            handleDeleteThenInsertMessage(acc, tk, row, split)
       [] op \in {"markRead", "readReceipt"} -> plain("read")
       [] op = "typing" -> plain("typing")
       [] op = "deleteMessage" -> plain("remove")
       [] op \in {"reaction", "deleteReaction"} -> plain("reaction")
       [] op = "removeParticipant" ->
            Emit(acc, Event("info", row.k, tk.type, row, 0, split))

(* The order of parseTable.  The rows of removed participants come twice.  *)
MutOrder ==
  <<"folder", "deleteThread", "selfLeave", "verifyExists", "addParticipant",
    "mute", "moveToE2EE", "range", "insertMessage", "edit", "thread", "name",
    "image", "readReceipt", "markRead", "typing", "deleteMessage",
    "deleteThenInsert", "reaction", "deleteReaction", "removeParticipant">>

Order ==
  <<"folder", "deleteThread", "selfLeave", "verifyExists", "addParticipant",
    "mute", "moveToE2EE", "range", "thread", "insertMessage", "edit", "name",
    "image", "readReceipt", "markRead", "typing", "deleteMessage",
    "deleteThenInsert", "reaction", "deleteReaction", "removeParticipant">>

RowsOf(tbl, op) ==
  Rows(tbl, IF op = "selfLeave" THEN "removeParticipant" ELSE op)

(* state: what the database and the client know when the table is parsed.  *)
parseStart(tbl, state) ==
  [queue |-> <<>>, tbl |-> tbl, db |-> state.db, stored |-> state.stored,
   collecting |-> state.collecting, collected |-> <<>>, ignored |-> <<>>,
   privateMeta |-> state.privateMeta,
   vtes |-> ByKey(Rows(tbl, "verifyExists")),
   syncs |-> [k \in Keys(Rows(tbl, "thread")) |->
                [row |-> ByKey(Rows(tbl, "thread"))[k], merged |-> <<>>]]]

(* Go goes through its maps of ranges, resyncs and threads that exist in   *)
(* any order.  A map has one row of a thread, the last one, so every such  *)
(* order is that of some table with the same rows.                         *)
parseTable(tbl, state, split) ==
  FoldLeft(LAMBDA acc, op :
             FoldLeft(LAMBDA a, row : Handle(a, op, row, split),
                      acc, RowsOf(tbl, op)),
           parseStart(tbl, state), Order)

-----------------------------------------------------------------------------
(* Properties of a table and the result of parsing it.                     *)

(* After the event that deletes a chat no event of the same table creates  *)
(* it again, and a chat that the table brings up to date is not deleted.   *)
(* (Not so for a row that deletes a subthread: its event is for the portal *)
(* of the parent, and only the subthread's own key is looked for among     *)
(* the active threads.)                                                    *)
DeletedStaysDeleted(res) ==
  \A i, j \in 1..Len(res.queue) :
    /\ res.queue[i].ev = "chatDelete"
    /\ res.queue[i].row.k = res.queue[i].key.id
    /\ res.queue[j].ev = "resync"
    /\ res.queue[j].key.id = res.queue[i].key.id
    => res.queue[j].row.op = "folder"

(* What a resync brings is in place before anything else happens in the    *)
(* thread: nothing of a thread precedes its resync.                        *)
SyncComesFirst(res) ==
  \A i, j \in 1..Len(res.queue) :
    /\ res.queue[i].ev = "resync" /\ res.queue[i].row.op = "thread"
    /\ res.queue[j].row.k = res.queue[i].row.k
    /\ res.queue[j].ev \notin {"chatDelete"}
    /\ res.queue[j].row.op # "folder"
    => i <= j

(* A new participant, a mute setting, a move to encryption or a bundle of  *)
(* history reaches exactly one of: the thread's resync, an event of its    *)
(* own, a waiting collector, and for history the warning with which a      *)
(* waiting collector ignores it.                                           *)
MergedOnce(tbl, res) ==
  \A r \in ToSet(tbl) :
    /\ r.op \in {"addParticipant", "mute", "moveToE2EE", "range"}
    /\ r.op = "range" => ByKey(Rows(tbl, "range"))[r.k] = r
    =>
      LET own == \E i \in 1..Len(res.queue) : res.queue[i].row = r
          merged == \E k \in DOMAIN res.syncs :
                      r \in ToSet(res.syncs[k].merged)
          collected == r \in ToSet(res.collected)
          ignored == r \in ToSet(res.ignored)
      IN /\ own \/ merged \/ collected \/ (ignored /\ r.op = "range")
         /\ ~(own /\ merged) /\ ~(own /\ collected) /\ ~(own /\ ignored)
         /\ ~(merged /\ collected) /\ ~(merged /\ ignored)
         /\ ~(collected /\ ignored)

(* History is ignored only if it reaches above what a fetch that waited    *)
(* for it when the table came has, or has after another bundle of the same *)
(* table; and no fetch gets two bundles of which the first one was enough. *)
IgnoredIsKnown(state, res) ==
  /\ \A r \in ToSet(res.ignored) :
       \E min \in {state.collecting[k] : k \in DOMAIN state.collecting}
                   \cup {c.bundle.min : c \in ToSet(res.collected)} :
         r.bundle.template > min
  /\ Cardinality({c \in ToSet(res.collected) : c.bundle.done})
       <= Cardinality(DOMAIN state.collecting)

(* The events of a thread are for one portal: either they agree on whether *)
(* it has a receiver or the bridge is told that it is not certain.         *)
OnePortal(res) ==
  \A i, j \in 1..Len(res.queue) :
    /\ res.queue[i].key.id = res.queue[j].key.id
    /\ "edit" \notin {res.queue[i].ev, res.queue[j].ev}
    /\ "folder" \notin {res.queue[i].row.op, res.queue[j].row.op}
    => \/ res.queue[i].uncertain \/ res.queue[j].uncertain
       \/ res.queue[i].key = res.queue[j].key

(* Every attachment of a message in the table is attached to exactly one   *)
(* message, also when the message is both inserted and upserted; only the  *)
(* upserted messages of threads without a range are dropped with theirs.   *)
AttachedOnce(tbl, wrapped) ==
  \A a \in ToSet(Rows(tbl, "attachment")) :
    LET all == wrapped.insert \o
          FoldLeft(LAMBDA s, k : s \o wrapped.upsert[k].messages, <<>>,
                   SetToSeq(DOMAIN wrapped.upsert))
        with == {i \in 1..Len(all) : a \in ToSet(all[i].files)}
        there == {i \in 1..Len(all) : all[i].row.id = a.id}
    IN there # {} => with # {} /\ Cardinality({all[i].row.op : i \in with}) = 1
=============================================================================
