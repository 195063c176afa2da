----------------------------- MODULE MCHandlers -----------------------------
(***************************************************************************)
(* Calls of the functions of RemoteEvents, ChatState and MatrixHandlers.   *)
(***************************************************************************)
EXTENDS MCCalls

Me == "me"
RE == INSTANCE RemoteEvents WITH Self <- Me
CS == INSTANCE ChatState
MH == INSTANCE MatrixHandlers

-----------------------------------------------------------------------------
(* Tables: two threads, the second possibly a subthread of the first, of   *)
(* every type, with a message, an edit and what else may happen to them.   *)

Row(op, k, type, id, n) ==
  [op |-> op, k |-> k, type |-> type, id |-> id, n |-> n]

(* A bundle of history: what it reaches up and down to, and whether a      *)
(* collector that takes it is done.                                        *)
Bundle(k, template, last) ==
  [op |-> "range", k |-> k, type |-> "", id |-> "", n |-> 5,
   bundle |-> [template |-> template, min |-> 3, done |-> last]]

ThreadRows(k, type) ==
  {Row(op, k, type, "", 5) : op \in {"verifyExists", "thread"}}
  \cup {Bundle(k, 4, TRUE), Bundle(k, 4, FALSE), Bundle(k, 8, TRUE)}
  \cup {Row(op, k, "", "", 5)
          : op \in {"folder", "deleteThread", "mute", "moveToE2EE", "name",
                    "markRead", "updateOrInsert"}}
  \cup {Row("removeParticipant", k, "", u, 0) : u \in {Me, "u"}}
  \cup {Row("addParticipant", k, "", "u", 0)}

MessageRows(k) ==
  {Row(op, k, "", "m", 0)
     : op \in {"upsertMessage", "attachment", "insertMessage", "edit",
               "deleteThenInsert"}}
  \cup {Row("deleteThenInsert", k, "", "m", 1)}

SmallRows ==
  {Row(op, 2, "", "m", 0) : op \in {"typing", "readReceipt", "image",
                                    "deleteMessage", "reaction",
                                    "deleteReaction", "insertMessage"}}
  \cup {Row("insertMessage", 1, "", "m", 2), Row("mute", 2, "", "", 0),
        Row("deleteThread", 2, "", "", 0),
        Row("verifyExists", 2, "group", "", 0),
        Row("addParticipant", 2, "", "u", 0), Row("thread", 2, "group", "", 0),
        Row("removeParticipant", 2, "", "u", 0), Bundle(2, 4, FALSE),
        [op |-> "insertMessage", k |-> 1, type |-> "subthreadStart",
         id |-> "l", n |-> 2, reply |-> "m"]}

Distinct(s) == \A i, j \in 1..Len(s) : s[i] = s[j] => i = j

Tables ==
  UNION {{s \in Upto(ThreadRows(1, t) \cup MessageRows(1), 3)
                \cup Upto(ThreadRows(1, t) \cup SmallRows, 2) : Distinct(s)}
           : t \in {"oneToOne", "group"}}

Known == [db : {{}, {[sub |-> 2, parent |-> 1, root |-> "r"]}},
          stored : {{"m"}}, collecting : {<<>>, <<6>>}, privateMeta : {FALSE}]

-----------------------------------------------------------------------------
(* Chats and users.                                                        *)

Updates ==
  [op : {"resync", "cutoverResync"},
   type : {CS!ONE_TO_ONE, CS!ENCRYPTED_OVER_WA_ONE_TO_ONE}]
  \cup {[op |-> "move", type |-> 0]}
  \cup [op : {"whatsapp"}, type : {CS!ENCRYPTED_OVER_WA_ONE_TO_ONE}]
GroupUpdates ==
  [op : {"resync"}, type : {CS!GROUP_THREAD, CS!ENCRYPTED_OVER_WA_GROUP,
                            CS!COMMUNITY_GROUP}]
  \cup [op : {"whatsapp"}, type : {CS!ENCRYPTED_OVER_WA_GROUP}]

Chats == [direct : BOOLEAN, other : {Me, "u"}]
Listed(chat) ==
  IF ~chat.direct THEN SUBSET {Me, "u", "v"}
  ELSE IF chat.other = Me THEN SUBSET {Me} ELSE SUBSET {Me, "u"}

Edits == [timestamp : 1..3, text : {"x", "y"}]

(* Who reacts to whose message, and who reads of it; who is whose peer.    *)
Keys ==
  {x \in [group : BOOLEAN, author : {"a", "b", "c"}, reactor : {"a", "b", "c"},
          reader : {"a", "b", "c"}] :
     x.group \/ "c" \notin {x.author, x.reactor, x.reader}}
Peer(user) == IF user = "a" THEN "b" ELSE "a"

CacheOps ==
  [op : {"getFB"}, ig : {"i", "j"}] \cup [op : {"getIG"}, fb : {1, 2}]
  \cup [op : {"put"}, ig : {"i", "j"}, fb : {1, 2}, ok : BOOLEAN]
  \cup [op : {"restart"}]

-----------------------------------------------------------------------------
(* Events from Matrix.                                                     *)

MatrixEvents ==
  [loggedIn : BOOLEAN, message : {"fb", "wa", "other"}, connected : BOOLEAN,
   waConnected : BOOLEAN, platform : {"instagram", "messenger", "other"},
   type : {"oneToOne", "group", "encryptedGroup"}, dm : BOOLEAN,
   remove : BOOLEAN, target : {TRUE}, change : {"invite"}, room : {FALSE}]
  \cup
  [loggedIn : {TRUE}, message : {"fb"}, connected : {TRUE},
   waConnected : {TRUE}, platform : {"messenger"},
   type : {"group", "encryptedGroup"}, dm : BOOLEAN,
   remove : {FALSE}, target : BOOLEAN, change : {"invite", "kick", "leave"},
   room : BOOLEAN]
Answers ==
  {[i \in 1..4 |-> IF i = n THEN a ELSE "ok"]
     : n \in 1..4, a \in {"ok", "refused", "lost"}}

ChatMessages ==
  {{[id |-> t, time |-> t, net |-> f[t][1], sender |-> f[t][2], chat |-> c]
      : t \in DOMAIN f}
     : f \in [{1, 4, 8} -> {"fb", "wa"} \X {Me, "u"}], c \in {"u", "g"}}
Receipts ==
  LET from == [upTo : {1, 3, 4, 8}, implicit : BOOLEAN, failing : {{}}]
  IN Upto(from \cup [upTo : {3, 8}, implicit : {FALSE},
                     failing : {{MH!Nobody, "u"}}], 3)

Views ==
  [op : {"view"}, type : {"group", "encryptedGroup"}, client : BOOLEAN,
   ok : BOOLEAN]
  \cup [op : {"typing"}, type : {"group", "encryptedGroup"}, ok : BOOLEAN,
        what : {"text", "upload"}, presenceOnTyping : BOOLEAN]

-----------------------------------------------------------------------------
HandlerInputs ==
  \/ /\ fn = "parseTable"
     /\ \E t \in Tables, s \in Known, split \in BOOLEAN :
          in = [tbl |-> t, state |-> s, split |-> split]
  \/ /\ fn = "UpdateAll"
     /\ \/ \E us \in Upto(Updates, 4) :
             in = [meta |-> [type |-> CS!ONE_TO_ONE, server |-> ""], us |-> us]
        \/ \E us \in Upto(GroupUpdates, 4) :
             in = [meta |-> [type |-> CS!GROUP_THREAD, server |-> ""],
                   us |-> us]
  \/ /\ fn = "GetChatInfo"
     /\ \E c \in Chats : \E us \in Listed(c) : in = [chat |-> c, users |-> us]
  \/ /\ fn = "RoomPowers"
     /\ in \in [locked : BOOLEAN, announce : BOOLEAN,
                rank : {"member", "admin", "superAdmin"}]
  \/ fn = "ConvertEdit" /\ in \in Upto(Edits, 4)
  \/ fn = "messageIDToWAKey" /\ in \in Keys
  \/ /\ fn = "UseCache"
     /\ \E ops \in Upto(CacheOps, 4), fb \in {1, 2} :
          in = [ops |-> ops, db |-> [ig \in {"i"} |-> fb]]
  \/ /\ fn = "Plan"
     /\ \E h \in MH!AboutMessages
                 \cup {"deleteChat", "name", "avatar", "membership",
                       "createGroup"},
           e \in MatrixEvents, a \in Answers :
          in = [handler |-> h, e |-> e, answers |-> a]
  \/ /\ fn = "ReadAll"
     /\ \E ms \in ChatMessages, rs \in Receipts :
          in = [messages |-> ms, receipts |-> rs]
  \/ fn = "UsePresence" /\ in \in Upto(Views, 3)

CallParseTable ==
  /\ Call("parseTable")
  /\ out' = [res |-> RE!parseTable(in.tbl, in.state, in.split),
             wrapped |-> RE!WrapMessages(in.tbl)]
CallUpdateAll == Call("UpdateAll") /\ out' = CS!UpdateAll(in.meta, in.us)
CallGetChatInfo ==
  /\ Call("GetChatInfo")
  /\ LET c == in.chat
     IN out' = CS!GetChatInfo(CS!makeMinimalChatInfo(c.direct, c.other, Me),
                              in.users, Me,
                              IF c.direct THEN c.other ELSE CS!Nobody, Me)
CallRoomPowers ==
  Call("RoomPowers") /\ out' = CS!RoomPowers(in.locked, in.announce)
CallConvertEdit ==
  /\ Call("ConvertEdit")
  /\ out' = CS!ConvertEdits([editTimestamp |-> 0, text |-> ""], in)
CallMessageIDToWAKey ==
  /\ Call("messageIDToWAKey")
  /\ out' = CS!messageIDToWAKey(CS!IdAt(in.reactor, Peer(in.reactor), in.group,
                                        in.author), in.reactor)
CallUseCache ==
  Call("UseCache") /\ out' = CS!UseCaches(CS!Cold(in.db), in.ops)
CallPlan ==
  /\ Call("Plan")
  /\ LET plan == MH!Plan(in.handler, in.e)
     IN out' = [plan |-> plan, res |-> MH!RunPlan(plan, in.answers)]
CallReadAll ==
  Call("ReadAll") /\ out' = MH!ReadAll(in.messages, in.receipts, Me)
CallUsePresence ==
  /\ Call("UsePresence")
  /\ out' = MH!UsePresences([last |-> "", server |-> ""], in)

HandlerNext ==
  \/ CallParseTable \/ CallUpdateAll \/ CallGetChatInfo \/ CallRoomPowers
  \/ CallConvertEdit \/ CallMessageIDToWAKey \/ CallUseCache \/ CallPlan
  \/ CallReadAll \/ CallUsePresence

-----------------------------------------------------------------------------
(* The properties of the functions, of every call.                         *)

(* The events that parseTable makes of a table: no chat that it deletes is *)
(* created again by it, nothing that happens in a thread precedes the      *)
(* thread's resync, what can be part of a resync is handled once, in it or *)
(* on its own, history is ignored only if a fetch has what is older, the   *)
(* events of a thread are for one portal, and every attachment is attached *)
(* to one message.                                                         *)
TableEvents ==
  After("parseTable") =>
    /\ RE!DeletedStaysDeleted(out.res)
    /\ RE!SyncComesFirst(out.res)
    /\ RE!MergedOnce(in.tbl, out.res)
    /\ RE!IgnoredIsKnown(in.state, out.res)
    /\ RE!OnePortal(out.res)
    /\ RE!AttachedOnce(in.tbl, out.wrapped)

(* What is known of a chat survives updates in any order: an encrypted     *)
(* chat stays encrypted, the login stays a member, Matrix powers are those *)
(* of WhatsApp, the newest edit stays, a message key names the same        *)
(* message to everyone, and the ID caches say what the database says but   *)
(* for a failed write and for a pair that contradicts a stored one.        *)
ChatKept ==
  /\ After("UpdateAll") => CS!EncryptedStays(in.meta, in.us)
  /\ After("GetChatInfo") => CS!SelfIsMember(out)
  /\ After("RoomPowers") =>
       CS!PowersMatch(in.locked, in.announce, in.rank, out)
  /\ After("ConvertEdit") => CS!NewestEditWins(in, out)
  /\ After("messageIDToWAKey") =>
       CS!KeyRoundTrip(out, in.group, in.author, in.reactor, in.reader,
                       Peer(in.reader))
  /\ After("UseCache") => CS!CacheIsStored(out)

(* What a Matrix event asks of the networks: what is done about a message  *)
(* goes to the message's network, Matrix is told of a failure although     *)
(* something was changed only for the causes named, every message is       *)
(* marked as read once over any sequence of receipts unless the request    *)
(* fails, and the presence that was sent fits what is being viewed.        *)
RequestsExact ==
  /\ After("Plan") =>
       /\ in.handler \in MH!AboutMessages =>
            MH!GoesToItsNetwork(in.e, out.plan)
       /\ MH!AllOrNothing(in.handler, out.plan, out.res)
  /\ After("ReadAll") =>
       MH!ReceiptsExact(in.messages, in.receipts, Me, out.results)
  /\ After("UsePresence") => MH!PresenceFits(in, out)
=============================================================================
