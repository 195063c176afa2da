--------------------------- MODULE MatrixHandlers ---------------------------
(***************************************************************************)
(* The handlers of Matrix events other than messages and edits, in         *)
(* pkg/connector/handlematrix.go, and the requests to start a chat in      *)
(* pkg/connector/startchat.go.                                             *)
(*                                                                         *)
(* A handler is a plan: it refuses, or it takes steps one after the other  *)
(* until one fails.  An event is a record of what the handlers look at;    *)
(* what becomes of each step is a sequence of answers.                     *)
(***************************************************************************)
EXTENDS Naturals, Sequences, SequencesExt, FiniteSets

WhatsAppTypes == {"encryptedOneToOne", "encryptedGroup"}

Refuse(why) == [refused |-> why, requests |-> <<>>]
Ask(requests) == [refused |-> "no", requests |-> requests]

(* A request to Meta's socket, to WhatsApp or to Instagram changes         *)
(* something there; getting a file and storing it on a server does not,    *)
(* nor does what CreateGroup still has to do once the group exists.        *)
Changes(request) == request \in {"meta", "meta95", "whatsapp", "instagram"}

-----------------------------------------------------------------------------
(* Reactions and removals: the network is that of the message, not that of *)
(* the portal, which may have changed since.                               *)
MutAboutMessage(e) ==
  IF ~e.loggedIn THEN Refuse("notLoggedIn")
  ELSE IF e.type \in WhatsAppTypes
  THEN IF e.waConnected THEN Ask(<<"whatsapp">>) ELSE Refuse("notConnected")
  ELSE IF e.connected THEN Ask(<<"meta">>) ELSE Refuse("notConnected")

AboutMessage(e) ==
  CASE ~e.loggedIn -> Refuse("notLoggedIn")
    [] e.loggedIn /\ e.message = "fb" ->
         IF e.connected THEN Ask(<<"meta">>) ELSE Refuse("notConnected")
    [] e.loggedIn /\ e.message = "wa" ->
         IF e.waConnected THEN Ask(<<"whatsapp">>) ELSE Refuse("notConnected")
    [] OTHER -> Refuse("invalidID")

HandleMatrixReaction(e) == AboutMessage(e)
HandleMatrixReactionRemove(e) == AboutMessage(e)
HandleMatrixMessageRemove(e) == AboutMessage(e)

(* HandleMatrixDeleteChat: an encrypted chat is deleted twice.             *)
HandleMatrixDeleteChat(e) ==
  CASE e.platform = "instagram" -> Ask(<<"instagram">>)
    [] e.platform = "messenger" ->
         Ask(IF e.type \in WhatsAppTypes THEN <<"meta", "meta95">>
             ELSE <<"meta">>)
    [] OTHER -> Refuse("platform")

HandleMatrixRoomName(e) ==
  CASE e.dm -> Refuse("directChat")
    [] ~e.dm /\ e.platform = "instagram" -> Ask(<<"instagram">>)
    [] ~e.dm /\ e.platform = "messenger" -> Ask(<<"meta">>)
    [] OTHER -> Refuse("platform")

(* HandleMatrixRoomAvatar: only on Instagram can a picture be removed.     *)
MutHandleMatrixRoomAvatar(e) ==
  IF e.dm THEN Refuse("directChat")
  ELSE IF e.platform = "instagram"
  THEN Ask(<<"instagram">> \o (IF e.remove THEN <<>> ELSE <<"download">>))
  ELSE Ask(<<"meta", "download", "upload">>)

HandleMatrixRoomAvatar(e) ==
  IF e.dm THEN Refuse("directChat")
  ELSE IF e.platform = "instagram"
  THEN Ask((IF e.remove THEN <<>> ELSE <<"download">>) \o <<"instagram">>)
  ELSE IF e.remove THEN Refuse("removal")
  ELSE Ask(<<"download", "upload", "meta">>)

(* HandleMatrixMembership: invitations and kicks; nothing else is sent.    *)
HandleMatrixMembership(e) ==
  IF e.dm THEN Refuse("directChat")
  ELSE IF ~e.target THEN Refuse("target")
  ELSE IF e.change \notin {"invite", "kick"} THEN Ask(<<>>)
  ELSE Ask(IF e.type = "encryptedGroup" THEN <<"whatsapp">> ELSE <<"meta">>)

(* CreateGroup: the answer has to name the thread that was asked for, its  *)
(* portal has to be there and, if the group is made for a room, that room  *)
(* becomes the portal's.  (Otherwise it waits for the room, and goes on    *)
(* without it after five seconds.)                                         *)
CreateGroup(e) ==
  Ask(IF e.room THEN <<"meta", "answer", "portal", "room">>
      ELSE <<"meta", "answer", "portal">>)

Plan(handler, e) ==
  CASE handler = "reaction" -> HandleMatrixReaction(e)
    [] handler = "reactionRemove" -> HandleMatrixReactionRemove(e)
    [] handler = "messageRemove" -> HandleMatrixMessageRemove(e)
    [] handler = "deleteChat" -> HandleMatrixDeleteChat(e)
    [] handler = "name" -> HandleMatrixRoomName(e)
    [] handler = "avatar" -> HandleMatrixRoomAvatar(e)
    [] handler = "membership" -> HandleMatrixMembership(e)
    [] handler = "createGroup" -> CreateGroup(e)

(* Running a plan: a step is done and reported done ("ok"), or it fails    *)
(* and is not done ("refused"), or it is done and fails nevertheless since *)
(* its answer is lost, late or empty ("lost").  The first failure ends the *)
(* handler.                                                                *)
RunPlan(plan, answers) ==
  LET n == Len(plan.requests)
      fails == {i \in 1..n : answers[i] # "ok"}
      first == CHOOSE i \in fails : \A j \in fails : i <= j
      lost == fails # {} /\ answers[first] = "lost"
  IN [ok |-> plan.refused = "no" /\ fails = {},
      failed |-> IF fails = {} THEN "none" ELSE plan.requests[first],
      lost |-> lost,
      done |-> SubSeq(plan.requests, 1,
                      IF fails = {} THEN n
                      ELSE IF lost THEN first ELSE first - 1)]

-----------------------------------------------------------------------------
(* HandleMatrixReadReceipt: of the messages of the portal after the last   *)
(* receipt and up to this one, the newest of Meta's is the watermark, and  *)
(* those of others in WhatsApp are marked, by sender (in a direct chat by  *)
(* nobody).  Without an earlier receipt the last five seconds count.  The  *)
(* requests for the senders in r.failing fail, which is only logged: the   *)
(* receipt counts as handled.                                              *)
Nobody == "nobody"
Between(messages, from, to) ==
  {m \in messages : from < m.time /\ m.time <= to}
KeyOf(m) == IF m.sender = m.chat THEN Nobody ELSE m.sender

MutHandleMatrixReadReceipt(messages, r, self) ==
  LET found == IF r.upTo <= r.last THEN {}
               ELSE Between(messages, IF r.upTo > 5 THEN r.upTo - 5 ELSE 0,
                            r.upTo)
  IN [watermark |-> 0,
      marks |-> {[sender |-> m.sender, id |-> m.id]
                   : m \in {x \in found : x.net = "wa" /\ x.sender # self}},
      told |-> {}]

HandleMatrixReadReceipt(messages, r, self) ==
  LET from == IF r.last # 0 THEN r.last
              ELSE IF r.upTo > 5 THEN r.upTo - 5 ELSE 0
      found == IF r.upTo <= r.last THEN {} ELSE Between(messages, from, r.upTo)
      fb == {m.time : m \in {x \in found : x.net = "fb"}}
  IN [watermark |-> IF fb = {} \/ r.implicit THEN 0
                    ELSE CHOOSE t \in fb : \A u \in fb : u <= t,
      marks |-> {[sender |-> KeyOf(m), id |-> m.id]
                   : m \in {x \in found : x.net = "wa" /\ x.sender # self}},
      told |-> {m.id : m \in {x \in found : /\ x.net = "wa" /\ x.sender # self
                                            /\ KeyOf(x) \notin r.failing}}]

(* External: the bridge stores how far the user has read.                  *)
ReadAll(messages, receipts, self) ==
  FoldLeft(LAMBDA s, r :
             [last |-> IF r.upTo > s.last THEN r.upTo ELSE s.last,
              results |->
                Append(s.results, HandleMatrixReadReceipt(messages,
                         [last |-> s.last, upTo |-> r.upTo,
                          implicit |-> r.implicit,
                          failing |-> r.failing], self))],
           [last |-> 0, results |-> <<>>], receipts)

-----------------------------------------------------------------------------
(* Presence: HandleMatrixViewingChat and HandleMatrixTyping.  last is      *)
(* waLastPresence; server is what WhatsApp was told on this connection.    *)
updateWAPresence(s, presence, ok) ==
  IF ok THEN [s EXCEPT !.last = presence, !.server = presence] ELSE s

MutHandleMatrixViewingChat(s, e) ==
  IF s.last = "available" THEN s ELSE updateWAPresence(s, "available", e.ok)

HandleMatrixViewingChat(s, e) ==
  LET presence == IF e.type \in WhatsAppTypes THEN "available"
                  ELSE "unavailable"
  IN IF ~e.client \/ s.last = presence THEN s
     ELSE updateWAPresence(s, presence, e.ok)

HandleMatrixTyping(s, e) ==
  IF e.type \in WhatsAppTypes /\ e.what # "upload" /\ e.presenceOnTyping
  THEN updateWAPresence(s, "available", e.ok) ELSE s

UsePresence(s, e) ==
  IF e.op = "view" THEN HandleMatrixViewingChat(s, e)
  ELSE HandleMatrixTyping(s, e)

UsePresences(s, events) == FoldLeft(UsePresence, s, events)

-----------------------------------------------------------------------------
(* Properties.                                                             *)

AboutMessages == {"reaction", "reactionRemove", "messageRemove"}

(* What is done about a message goes to the network the message is from,   *)
(* also in a portal that was moved to the other network after it, and only *)
(* while the login is connected to that network.                           *)
GoesToItsNetwork(e, plan) ==
  plan.requests # <<>> =>
    /\ e.loggedIn
    /\ \/ e.message = "fb" /\ e.connected /\ plan.requests = <<"meta">>
       \/ e.message = "wa" /\ e.waConnected /\ plan.requests = <<"whatsapp">>

(* Matrix is told of success only if every step was done.  If it is told   *)
(* of a failure then something was changed all the same in three cases     *)
(* only: the change itself was reported as failed since its answer was     *)
(* lost; of the two deletions of an encrypted chat the second failed; a    *)
(* group was made and a later step for it failed, so that another attempt  *)
(* makes another group.                                                    *)
AfterTheChange == {"meta95", "answer", "portal", "room"}
AllOrNothing(handler, plan, res) ==
  /\ res.ok => res.done = plan.requests
  /\ ~res.ok => \A i \in 1..Len(res.done) : Changes(res.done[i]) =>
       \/ res.lost /\ i = Len(res.done)
       \/ /\ handler \in {"deleteChat", "createGroup"}
          /\ res.failed \in AfterTheChange

(* Over any sequence of receipts the bridge asks at most once to mark a    *)
(* message of others, everything after the first receipt and up to the     *)
(* latest is marked unless the request for its sender failed, in which     *)
(* case it never will be, own messages never are, and no watermark lies    *)
(* beyond what was read.                                                   *)
ReceiptsExact(messages, receipts, self, results) ==
  LET marked(i) == {x.id : x \in results[i].marks}
      n == Len(receipts)
      top == {r.upTo : r \in ToSet(receipts)}
  IN /\ \A i, j \in 1..n : i # j => marked(i) \cap marked(j) = {}
     /\ \A m \in messages : m.net = "wa" =>
          LET asked == {i \in 1..n : m.id \in marked(i)}
          IN /\ asked # {} => m.sender # self
             /\ m.sender # self /\ n > 0 /\ m.time > receipts[1].upTo
                  /\ (\E t \in top : m.time <= t) =>
                  \E i \in asked :
                    m.id \in results[i].told
                      <=> KeyOf(m) \notin receipts[i].failing
     /\ \A i \in 1..n : results[i].watermark <= receipts[i].upTo

(* What the bridge believes about the presence is what WhatsApp was told,  *)
(* and after a chat was viewed without a failure it fits the chat.  (The   *)
(* belief outlives the connection: after a reconnect WhatsApp knows        *)
(* nothing and the next view of an encrypted chat sends nothing.)          *)
PresenceFits(events, s) ==
  /\ s.last = s.server
  /\ LET e == Last(events)
     IN events # <<>> /\ e.op = "view" /\ e.ok /\ e.client =>
          s.server = IF e.type \in WhatsAppTypes THEN "available"
                     ELSE "unavailable"
=============================================================================
