----------------------------- MODULE ChatState ------------------------------
(***************************************************************************)
(* What the bridge keeps about chats and users, and how events change it:  *)
(* the type and the members of a chat (pkg/connector/chatinfo.go, the      *)
(* resyncs of pkg/connector/events.go), edits and the keys by which they   *)
(* and reactions name a WhatsApp message (events.go), and the caches of    *)
(* Instagram IDs (pkg/connector/userinfo.go).                              *)
(***************************************************************************)
EXTENDS Integers, Sequences, SequencesExt, FiniteSets

-----------------------------------------------------------------------------
(* The thread type in the metadata of a portal.                            *)

ONE_TO_ONE == 1
GROUP_THREAD == 2
ENCRYPTED_OVER_WA_ONE_TO_ONE == 15
ENCRYPTED_OVER_WA_GROUP == 16
COMMUNITY_GROUP == 18

IsWhatsApp(type) ==
  type \in {ENCRYPTED_OVER_WA_ONE_TO_ONE, ENCRYPTED_OVER_WA_GROUP}

(* The updates (ExtraUpdates): of makeMinimalChatInfo, of                  *)
(* markPortalAsEncrypted, and of updateServerAndThreadType.                *)
MutMinimalUpdate(meta, type) == [meta EXCEPT !.type = type]
MinimalUpdate(meta, type) ==
  IF \/ type = GROUP_THREAD /\ meta.type > 15
     \/ IsWhatsApp(meta.type)
  THEN meta ELSE [meta EXCEPT !.type = type]

markPortalAsEncrypted(meta) ==
  IF meta.type = ONE_TO_ONE
  THEN [meta EXCEPT !.type = ENCRYPTED_OVER_WA_ONE_TO_ONE] ELSE meta

updateServerAndThreadType(meta, server, type) ==
  [server |-> server, type |-> type]

(* An update: a resync of a thread, with or without the folder of chats    *)
(* that were moved to encryption, such a move, or a WhatsApp event.        *)
UpdateMeta(meta, u) ==
  CASE u.op = "resync" -> MinimalUpdate(meta, u.type)
    [] u.op = "cutoverResync" ->
         markPortalAsEncrypted(MinimalUpdate(meta, u.type))
    [] u.op = "move" -> markPortalAsEncrypted(meta)
    [] u.op = "whatsapp" ->
         updateServerAndThreadType(meta,
           IF u.type = ENCRYPTED_OVER_WA_GROUP THEN "group" ELSE "msgr",
           u.type)

UpdateAll(meta, us) == FoldLeft(UpdateMeta, meta, us)

-----------------------------------------------------------------------------
(* Members.  A member list is a function from users to records of fromMe   *)
(* (the login itself) and sender (which ghost).  Nobody is the empty ID.   *)
Nobody == "nobody"

Member(user, self) == [fromMe |-> user = self, sender |-> user]

makeNoteToSelfMembers(user) ==
  [u \in {Nobody, user} |-> [fromMe |-> u = Nobody, sender |-> u]]

(* makeMinimalChatInfo: the members of a direct chat are known from its    *)
(* key, which is the other user.                                           *)
makeMinimalChatInfo(direct, other, self) ==
  IF ~direct THEN [u \in {self} |-> Member(u, self)]
  ELSE IF other # self THEN [u \in {self, other} |-> Member(u, self)]
  ELSE makeNoteToSelfMembers(other)

(* GetChatInfo of FBChatResync: the participants in the table replace the  *)
(* list; the login stays in it.                                            *)
MutGetChatInfo(list, users, self, otherUser, receiver) ==
  [u \in users |-> Member(u, self)]

GetChatInfo(list, users, self, otherUser, receiver) ==
  LET keep == self \in DOMAIN list /\ list[self].fromMe /\ self \notin users
      new == [u \in users \cup (IF keep THEN {self} ELSE {}) |->
                Member(u, self)]
  IN IF users = {} THEN list
     ELSE IF Cardinality(DOMAIN new) = 1 /\ otherUser # Nobody
               /\ otherUser = receiver
     THEN makeNoteToSelfMembers(otherUser) ELSE new

(* wrapWAGroupInfo: powers of members and what the room asks for.          *)
powerDefault == 0
powerAdmin == 50
powerSuperAdmin == 75

MutRoomPowers(locked, announce) ==
  [events |-> IF announce THEN powerAdmin ELSE powerDefault,
   name |-> IF announce THEN powerAdmin ELSE powerDefault]
RoomPowers(locked, announce) ==
  [events |-> IF announce THEN powerAdmin ELSE powerDefault,
   name |-> IF locked THEN powerAdmin ELSE powerDefault]
MemberPower(rank) ==
  CASE rank = "superAdmin" -> powerSuperAdmin [] rank = "admin" -> powerAdmin
    [] OTHER -> powerDefault

-----------------------------------------------------------------------------
(* Edits of WhatsApp messages: one that is not newer than the last is a    *)
(* duplicate.  A message keeps the time of its last edit and its text.     *)
MutConvertEdit(m, edit) ==
  IF m.editTimestamp = edit.timestamp THEN m
  ELSE [editTimestamp |-> edit.timestamp, text |-> edit.text]
ConvertEdit(m, edit) ==
  IF m.editTimestamp >= edit.timestamp THEN m
  ELSE [editTimestamp |-> edit.timestamp, text |-> edit.text]

ConvertEdits(m, edits) == FoldLeft(ConvertEdit, m, edits)

(* Message keys.  A chat is a group or a user; in a direct chat each side  *)
(* calls it by the other.  messageIDToWAKey makes the key at one side, and *)
(* waKeyToMessageID reads it at any side, given who sent it.               *)
Group == "group"

messageIDToWAKey(id, self) ==
  [remote |-> id.chat, id |-> id.id, fromMe |-> id.sender = self,
   participant |-> IF id.chat = Group THEN id.sender ELSE Nobody]

MutWaKeyToMessageID(chat, sender, key, own) ==
  [chat |-> chat, id |-> key.id,
   sender |-> IF key.fromMe THEN sender
              ELSE IF key.participant # Nobody THEN key.participant ELSE chat]

waKeyToMessageID(chat, sender, key, own) ==
  LET from == IF key.fromMe THEN sender
              ELSE IF key.participant # Nobody THEN key.participant
              ELSE IF chat = Group THEN Nobody
              ELSE IF sender = own THEN chat ELSE own
  IN [chat |-> IF key.remote = Group THEN Group ELSE chat,
      sender |-> from, id |-> key.id]

(* How the one who has seen it calls a message of a chat between two users *)
(* or of a group.                                                          *)
IdAt(user, peer, group, sender) ==
  [chat |-> IF group THEN Group ELSE peer, sender |-> sender, id |-> "m"]

-----------------------------------------------------------------------------
(* The caches of Instagram users: igUserIDs, igUserIDsReverse and the      *)
(* table they stand for, in which an Instagram ID is the primary key and   *)
(* the other unique.  Lookups that find nothing are written to the caches  *)
(* too.  The history `failed` has the pairs that are in a cache and whose  *)
(* INSERT returned an error.  (The caches of threads are the same, without *)
(* a reverse map.)                                                         *)
Set(f, x, v) == [y \in DOMAIN f \cup {x} |-> IF y = x THEN v ELSE f[y]]
Get(f, x, none) == IF x \in DOMAIN f THEN f[x] ELSE none

getFBIDForIGUser(s, ig) ==
  IF Get(s.ids, ig, 0) # 0 THEN s
  ELSE LET fb == Get(s.db, ig, 0)
       IN [s EXCEPT !.ids = Set(@, ig, fb), !.reverse = Set(@, fb, ig)]

getIGUserForFBID(s, fb) ==
  IF Get(s.reverse, fb, Nobody) # Nobody THEN s
  ELSE LET igs == {i \in DOMAIN s.db : s.db[i] = fb}
           ig == IF igs = {} THEN Nobody ELSE CHOOSE i \in igs : TRUE
       IN [s EXCEPT !.ids = Set(@, ig, fb), !.reverse = Set(@, fb, ig)]

(* INSERT ... ON CONFLICT DO NOTHING: a row is never changed.              *)
InsertId(db, ig, fb) ==
  IF \E i \in DOMAIN db : i = ig \/ db[i] = fb THEN db ELSE Set(db, ig, fb)

putFBIDForIGUser(s, ig, fb, ok) ==
  IF Get(s.ids, ig, 0) = fb THEN s
  ELSE [ids |-> Set(s.ids, ig, fb), reverse |-> Set(s.reverse, fb, ig),
        db |-> IF ok THEN InsertId(s.db, ig, fb) ELSE s.db,
        failed |-> IF ok THEN s.failed \ {<<ig, fb>>}
                   ELSE s.failed \cup {<<ig, fb>>}]

(* A new client starts with empty maps.                                    *)
Cold(db) == [ids |-> <<>>, reverse |-> <<>>, db |-> db, failed |-> {}]

UseCache(s, op) ==
  CASE op.op = "getFB" -> getFBIDForIGUser(s, op.ig)
    [] op.op = "getIG" -> getIGUserForFBID(s, op.fb)
    [] op.op = "put" -> putFBIDForIGUser(s, op.ig, op.fb, op.ok)
    [] op.op = "restart" -> Cold(s.db)

UseCaches(s, ops) == FoldLeft(UseCache, s, ops)

-----------------------------------------------------------------------------
(* Properties.                                                             *)

(* Whatever order the two networks' events come in, an encrypted chat      *)
(* never becomes a plain one again, and a community not a plain group.     *)
EncryptedStays(meta, us) ==
  \A n \in 0..Len(us) :
    LET before == UpdateAll(meta, SubSeq(us, 1, n)).type
        after == UpdateAll(meta, us).type
    IN /\ IsWhatsApp(before) => IsWhatsApp(after)
       /\ before = COMMUNITY_GROUP => after # GROUP_THREAD

(* The login is always one of the members, whatever participants a table   *)
(* lists: a room it is not a member of would be left.                      *)
SelfIsMember(list) == \E u \in DOMAIN list : list[u].fromMe

(* In a group the Matrix powers allow exactly what WhatsApp allows.        *)
PowersMatch(locked, announce, rank, room) ==
  LET admin == rank \in {"admin", "superAdmin"}
  IN /\ (MemberPower(rank) >= room.events) <=> (~announce \/ admin)
     /\ (MemberPower(rank) >= room.name) <=> (~locked \/ admin)

(* Edits that arrive in any order, and more than once, leave the newest.   *)
NewestEditWins(edits, m) ==
  \A i \in 1..Len(edits) : edits[i].timestamp <= m.editTimestamp

(* A key names the same message to everyone who reads it: to the other     *)
(* side of a direct chat, to another device of the one who made it, and to *)
(* everyone in a group.                                                    *)
KeyRoundTrip(key, group, author, reactor, reader, peerOfReader) ==
  waKeyToMessageID(IF group THEN Group ELSE peerOfReader, reactor, key,
                   reader)
    = IdAt(reader, peerOfReader, group, author)

(* What either map says of a user is what the database says, and would     *)
(* still say after a restart.  There are two causes why it may not: the    *)
(* row could not be written, which the full cache keeps from being tried   *)
(* again, or the pair contradicts a row, which stays as it is ("We don't   *)
(* currently expect these values ever to change", PutFBIDForIGUser).       *)
Stored(db, ig, fb) == ig \in DOMAIN db /\ db[ig] = fb
Contradicted(db, ig, fb) == \E i \in DOMAIN db : (i = ig) # (db[i] = fb)
Backed(s, ig, fb) ==
  \/ ig = Nobody \/ fb = 0
  \/ Stored(s.db, ig, fb)
  \/ Contradicted(s.db, ig, fb)
  \/ <<ig, fb>> \in s.failed

CacheIsStored(s) ==
  /\ \A ig \in DOMAIN s.ids : Backed(s, ig, s.ids[ig])
  /\ \A fb \in DOMAIN s.reverse : Backed(s, s.reverse[fb], fb)
=============================================================================
