--------------------------- MODULE ResponseHandler ---------------------------
(***************************************************************************)
(* Request/response correlation on the MQTT websocket of messagix:         *)
(* SafePacketID, sendPublishPacket, sendSubscribePacket and makeLSRequest  *)
(* of pkg/messagix/socket.go, the two channel maps of                      *)
(* pkg/messagix/responsehandler.go, and the reader goroutine's side of     *)
(* them (handleACKEvent, handlePublishResponseEvent of events.go).         *)
(*                                                                         *)
(* Every call is a goroutine that makes one request.  A Go channel is      *)
(* named after the call that made it and the map it was made for, so that  *)
(* <<c, "req">> is the channel addRequestChannel made for call c, even     *)
(* when another call with the same packet ID finds it in the map.  A       *)
(* message from the server is named the same way: <<c, "pkt">> is the ACK  *)
(* of call c's packet and <<c, "req">> the lightspeed response to it.      *)
(* Every critical section of ResponseHandler.lock and every channel        *)
(* operation is one step.                                                  *)
(***************************************************************************)
EXTENDS Naturals, FiniteSets

CONSTANTS Calls,        \* goroutines, each making one request
          NoCall,       \* the absent map entry
          MaxPacketID,  \* largest packet ID; 65535 for the uint16 of the code
          MaxDup,       \* bound: how often the server repeats a message
          CallKinds,    \* the kinds of request the calls make
          StartIDs      \* what packetsSent may start at

ASSUME CallsAssumption == NoCall \notin Calls
ASSUME PacketIDAssumption == MaxPacketID \in Nat \ {0}
ASSUME MaxDupAssumption == MaxDup \in Nat

ASSUME StartAssumption == StartIDs \subseteq 0..MaxPacketID

PacketIDs == 1..MaxPacketID

(* "publish": makeLSRequest with a type other than 4.  "ackOnly":          *)
(* makeLSRequest with type 4 and the app settings publish, which register  *)
(* a request channel and never wait on it.  "subscribe":                   *)
(* sendSubscribePacket.                                                    *)
Kinds == {"publish", "ackOnly", "subscribe"}

ASSUME KindsAssumption == CallKinds \subseteq Kinds

(* ChannelType: PacketChannel and RequestChannel.                          *)
ChannelTypes == {"pkt", "req"}

Channels == Calls \X ChannelTypes
NoChan == <<NoCall, "pkt">>

VARIABLES
  packetsSent,      \* Socket.packetsSent
  packetChannels,   \* packet ID -> call whose channel is registered
  requestChannels,
  buf,              \* the one-element buffer of every channel
  closed,           \* the closed channels
  kind, pid, pc,    \* per call: what it does, its packet ID, where it is
  ch,               \* per call: the channel waitForDetails selects on
  got,              \* per call: the messages it received, per channel type
  quit,             \* calls that stopped waiting on a channel that was open
                    \* (timeout, context) or that did not find their channel
  owed,             \* messages the server has yet to deliver
  seen,             \* messages delivered once, which the server may repeat
  dups,             \* repeats so far
  reader,           \* the reader goroutine: state, message, channel
  connected,        \* Socket.conn is set and usable
  panicked          \* a send on a closed channel took the process down

callVars == <<kind, pid, ch, got, quit>>
mapVars == <<packetChannels, requestChannels>>
netVars == <<owed, seen, dups>>
vars == <<packetsSent, packetChannels, requestChannels, buf, closed, kind, pid,
          pc, ch, got, quit, owed, seen, dups, reader, connected, panicked>>

CallStates == {"idle", "addPkt", "addReq", "send", "failPkt", "failReq",
               "getPkt", "waitPkt", "delPkt", "quitPkt", "getReq", "waitReq",
               "delReq", "quitReq", "abandonReq", "done"}

ReaderStates == {"read", "lookup", "push"}
IdleReader == [state |-> "read", msg |-> NoChan, ch |-> NoChan]

TypeOK ==
  /\ packetsSent \in 0..MaxPacketID
  /\ packetChannels \in [PacketIDs -> Calls \cup {NoCall}]
  /\ requestChannels \in [PacketIDs -> Calls \cup {NoCall}]
  /\ buf \in [Channels -> Channels \cup {NoChan}]
  /\ closed \in SUBSET Channels
  /\ kind \in [Calls -> Kinds]
  /\ pid \in [Calls -> 0..MaxPacketID]
  /\ pc \in [Calls -> CallStates]
  /\ ch \in [Calls -> Channels \cup {NoChan}]
  /\ got \in [Calls -> SUBSET Channels]
  /\ quit \in SUBSET Calls
  /\ owed \in SUBSET Channels
  /\ seen \in SUBSET Channels
  /\ dups \in 0..MaxDup
  /\ reader \in [state : ReaderStates,
                 msg : Channels \cup {NoChan}, ch : Channels \cup {NoChan}]
  /\ connected \in BOOLEAN
  /\ panicked \in BOOLEAN

(* The client starts out disconnected; packetsSent may come from a cached  *)
(* state (LoadState), so StartIDs may be the whole of its range.           *)
Init ==
  /\ packetsSent \in StartIDs
  /\ packetChannels = [i \in PacketIDs |-> NoCall]
  /\ requestChannels = [i \in PacketIDs |-> NoCall]
  /\ buf = [x \in Channels |-> NoChan]
  /\ closed = {}
  /\ kind \in [Calls -> CallKinds]
  /\ pid = [c \in Calls |-> 0]
  /\ pc = [c \in Calls |-> "idle"]
  /\ ch = [c \in Calls |-> NoChan]
  /\ got = [c \in Calls |-> {}]
  /\ quit = {}
  /\ owed = {}
  /\ seen = {}
  /\ dups = 0
  /\ reader = IdleReader
  /\ connected = FALSE
  /\ panicked = FALSE

-----------------------------------------------------------------------------
(* The channel type of a channel or a message.                             *)
Type(x) == x[2]

(* The two maps, indexed by channel type.                                  *)
Lookup(t, i) == IF t = "pkt" THEN packetChannels[i] ELSE requestChannels[i]

SetEntry(t, i, c) ==
  IF t = "pkt"
    THEN /\ packetChannels' = [packetChannels EXCEPT ![i] = c]
         /\ UNCHANGED requestChannels
    ELSE /\ requestChannels' = [requestChannels EXCEPT ![i] = c]
         /\ UNCHANGED packetChannels

(* deleteDetails: closes and removes whatever channel the packet ID maps   *)
(* to, which is not necessarily the one the caller made.                   *)
deleteDetails(t, i) ==
  /\ SetEntry(t, i, NoCall)
  /\ closed' = IF Lookup(t, i) = NoCall THEN closed
               ELSE closed \cup {<<Lookup(t, i), t>>}

-----------------------------------------------------------------------------
(* The calling goroutines.                                                 *)

Goto(c, from, to) == pc[c] = from /\ pc' = [pc EXCEPT ![c] = to]

(* The counter wraps around to 1: 0 is reserved for server events.         *)
NextPacketID == IF packetsSent = MaxPacketID THEN 1 ELSE packetsSent + 1

SafePacketID(c) ==
  /\ Goto(c, "idle", "addPkt")
  /\ packetsSent' = NextPacketID
  /\ pid' = [pid EXCEPT ![c] = NextPacketID]
  /\ UNCHANGED <<mapVars, buf, closed, kind, ch, got, quit, netVars, reader,
                 connected, panicked>>

addPacketChannel(c) ==
  /\ Goto(c, "addPkt", IF kind[c] = "subscribe" THEN "send" ELSE "addReq")
  /\ SetEntry("pkt", pid[c], c)
  /\ UNCHANGED <<packetsSent, buf, closed, callVars, netVars, reader,
                 connected, panicked>>

addRequestChannel(c) ==
  /\ Goto(c, "addReq", "send")
  /\ SetEntry("req", pid[c], c)
  /\ UNCHANGED <<packetsSent, buf, closed, callVars, netVars, reader,
                 connected, panicked>>

(* sendData succeeds: the server owes an ACK and, for a request that       *)
(* expects one, a response.                                                *)
sendDataOk(c) ==
  /\ connected
  /\ Goto(c, "send", "getPkt")
  /\ owed' = owed \cup {<<c, "pkt">>}
                  \cup (IF kind[c] = "publish" THEN {<<c, "req">>} ELSE {})
  /\ UNCHANGED <<packetsSent, mapVars, buf, closed, callVars, seen, dups,
                 reader, connected, panicked>>

(* sendData fails (no connection, or the write fails).  sendPublishPacket  *)
(* deletes both channels; sendSubscribePacket just returns the error.      *)
sendDataFail(c) ==
  /\ Goto(c, "send", IF kind[c] = "subscribe" THEN "done" ELSE "failPkt")
  /\ UNCHANGED <<packetsSent, mapVars, buf, closed, callVars, netVars, reader,
                 connected, panicked>>

FailPacket(c) ==
  /\ Goto(c, "failPkt", "failReq")
  /\ deleteDetails("pkt", pid[c])
  /\ UNCHANGED <<packetsSent, buf, callVars, netVars, reader, connected,
                 panicked>>

FailRequest(c) ==
  /\ Goto(c, "failReq", "done")
  /\ deleteDetails("req", pid[c])
  /\ UNCHANGED <<packetsSent, buf, callVars, netVars, reader, connected,
                 panicked>>

(* Where a call goes when its wait on a channel ends in an error.  (The    *)
(* Mut* operators are faulty variants of the definition after them, used   *)
(* only to show that the properties notice the fault.)                     *)
MutKeepRequestChannel(c) == "done"
MutWaitAnyway(c) == IF kind[c] = "subscribe" THEN "done" ELSE "getReq"
AfterPacketError(c) == IF kind[c] = "subscribe" THEN "done" ELSE "abandonReq"

(* getChannel at the start of waitForDetails.                              *)
getChannel(c, t) ==
  LET from == IF t = "pkt" THEN "getPkt" ELSE "getReq"
      wait == IF t = "pkt" THEN "waitPkt" ELSE "waitReq"
      fail == IF t = "pkt" THEN AfterPacketError(c) ELSE "done"
      found == Lookup(t, pid[c])
  IN /\ Goto(c, from, IF found = NoCall THEN fail ELSE wait)
     /\ ch' = [ch EXCEPT ![c] =
                  IF found = NoCall THEN NoChan ELSE <<found, t>>]
     /\ quit' = IF found = NoCall THEN quit \cup {c} ELSE quit
     /\ UNCHANGED <<packetsSent, mapVars, buf, closed, kind, pid, got, netVars,
                    reader, connected, panicked>>

(* The select of waitForDetails takes a message.                           *)
Receive(c, t) ==
  /\ Goto(c, IF t = "pkt" THEN "waitPkt" ELSE "waitReq",
             IF t = "pkt" THEN "delPkt" ELSE "delReq")
  /\ buf[ch[c]] # NoChan
  /\ got' = [got EXCEPT ![c] = @ \cup {buf[ch[c]]}]
  /\ buf' = [buf EXCEPT ![ch[c]] = NoChan]
  /\ UNCHANGED <<packetsSent, mapVars, closed, kind, pid, ch, quit, netVars,
                 reader, connected, panicked>>

(* The channel was closed under the waiter: ErrConnectionClosed.  Nothing  *)
(* is deleted for this packet's channel type.                              *)
ReceiveClosed(c, t) ==
  /\ Goto(c, IF t = "pkt" THEN "waitPkt" ELSE "waitReq",
             IF t = "pkt" THEN AfterPacketError(c) ELSE "done")
  /\ buf[ch[c]] = NoChan
  /\ ch[c] \in closed
  /\ UNCHANGED <<packetsSent, mapVars, buf, closed, callVars, netVars, reader,
                 connected, panicked>>

(* packetTimeout passes or the caller's context is done.                   *)
MutNoResponseTimeout(c, t) ==
  /\ t = "pkt"
  /\ Goto(c, "waitPkt", "quitPkt")
  /\ quit' = quit \cup {c}
  /\ UNCHANGED <<packetsSent, mapVars, buf, closed, kind, pid, ch, got,
                 netVars, reader, connected, panicked>>
GiveUp(c, t) ==
  /\ Goto(c, IF t = "pkt" THEN "waitPkt" ELSE "waitReq",
             IF t = "pkt" THEN "quitPkt" ELSE "quitReq")
  /\ quit' = quit \cup {c}
  /\ UNCHANGED <<packetsSent, mapVars, buf, closed, kind, pid, ch, got,
                 netVars, reader, connected, panicked>>

(* deleteDetails after a message arrived or the wait was given up, and the *)
(* way on: an ACKed publish goes on to wait for its response; a publish    *)
(* whose ACK never came abandons its request channel.                      *)
MutNoResponseWait(c) == "done"
AfterPacket(c) == IF kind[c] = "publish" THEN "getReq" ELSE "done"

(* castIfNotNil's type assertion fails when a subscriber was handed a      *)
(* PUBACK or a publisher a SUBACK, which takes two calls with one ID.      *)
WrongAck(c) == \E m \in got[c] :
  Type(m) = "pkt" /\ (kind[m[1]] = "subscribe") # (kind[c] = "subscribe")

Finish(c) ==
  /\ \/ /\ Goto(c, "delPkt", AfterPacket(c))
        /\ deleteDetails("pkt", pid[c])
        /\ panicked' = WrongAck(c)
     \/ /\ Goto(c, "quitPkt", AfterPacketError(c))
        /\ deleteDetails("pkt", pid[c])
        /\ UNCHANGED panicked
     \/ /\ \E from \in {"delReq", "quitReq", "abandonReq"} :
             Goto(c, from, "done")
        /\ deleteDetails("req", pid[c])
        /\ UNCHANGED panicked
  /\ UNCHANGED <<packetsSent, buf, callVars, netVars, reader, connected>>

-----------------------------------------------------------------------------
(* The reader goroutine of the socket.                                     *)

(* A packet arrives.  A response whose packet ID is unknown is logged and  *)
(* dropped (hasPacket); an ACK goes straight to updatePacketChannel.       *)
ReadPacket(m) ==
  /\ connected
  /\ reader.state = "read"
  /\ m \in owed
  /\ owed' = owed \ {m}
  /\ seen' = seen \cup {m}
  /\ reader' = IF Type(m) = "req" /\ requestChannels[pid[m[1]]] = NoCall
               THEN IdleReader
               ELSE [state |-> "lookup", msg |-> m, ch |-> NoChan]
  /\ UNCHANGED <<packetsSent, mapVars, buf, closed, callVars, pc, dups,
                 connected, panicked>>

(* updatePacketChannel, updateRequestChannel: fetch the channel under the  *)
(* read lock, then release it.                                             *)
MutFetchLatest ==
  LET found == Lookup(Type(reader.msg), packetsSent)
  IN /\ reader.state = "lookup"
     /\ reader' = IF found = NoCall THEN IdleReader
                  ELSE [reader EXCEPT !.state = "push",
                                      !.ch = <<found, Type(reader.msg)>>]
     /\ UNCHANGED <<packetsSent, mapVars, buf, closed, callVars, pc, netVars,
                    connected, panicked>>
FetchChannel ==
  LET found == Lookup(Type(reader.msg), pid[reader.msg[1]])
  IN /\ reader.state = "lookup"
     /\ reader' = IF found = NoCall THEN IdleReader
                  ELSE [reader EXCEPT !.state = "push",
                                      !.ch = <<found, Type(reader.msg)>>]
     /\ UNCHANGED <<packetsSent, mapVars, buf, closed, callVars, pc, netVars,
                    connected, panicked>>

(* ch <- packetData, outside the lock: blocks while the buffer is full and *)
(* panics when the channel has been closed meanwhile.                      *)
PushPacket ==
  /\ reader.state = "push"
  /\ \/ /\ reader.ch \in closed
        /\ panicked' = TRUE
        /\ UNCHANGED buf
     \/ /\ reader.ch \notin closed
        /\ buf[reader.ch] = NoChan
        /\ buf' = [buf EXCEPT ![reader.ch] = reader.msg]
        /\ UNCHANGED panicked
  /\ reader' = IdleReader
  /\ UNCHANGED <<packetsSent, mapVars, closed, callVars, pc, netVars,
                 connected>>

-----------------------------------------------------------------------------
(* The connection and the server.                                          *)

Reconnect ==
  /\ ~connected
  /\ connected' = TRUE
  /\ UNCHANGED <<packetsSent, mapVars, buf, closed, callVars, pc, netVars,
                 reader, panicked>>

Registered ==
  {<<packetChannels[i], "pkt">> :
      i \in {j \in PacketIDs : packetChannels[j] # NoCall}}
  \cup
  {<<requestChannels[i], "req">> :
      i \in {j \in PacketIDs : requestChannels[j] # NoCall}}

MutCancelKeepsMaps ==
  /\ connected
  /\ reader.state = "read"
  /\ connected' = FALSE
  /\ owed' = {}
  /\ seen' = {}
  /\ closed' = closed \cup Registered
  /\ UNCHANGED <<packetsSent, mapVars, buf, callVars, pc, dups, reader,
                 panicked>>
MutCancelWhileReading ==
  /\ connected
  /\ connected' = FALSE
  /\ owed' = {}
  /\ seen' = {}
  /\ closed' = closed \cup Registered
  /\ packetChannels' = [i \in PacketIDs |-> NoCall]
  /\ requestChannels' = [i \in PacketIDs |-> NoCall]
  /\ UNCHANGED <<packetsSent, buf, callVars, pc, dups, reader, panicked>>
(* readLoop returns - the reader has handled its last packet - and Connect *)
(* calls CancelAllRequests, which closes every registered channel.         *)
CancelAllRequests ==
  /\ connected
  /\ reader.state = "read"
  /\ connected' = FALSE
  /\ owed' = {}
  /\ seen' = {}
  /\ closed' = closed \cup Registered
  /\ packetChannels' = [i \in PacketIDs |-> NoCall]
  /\ requestChannels' = [i \in PacketIDs |-> NoCall]
  /\ UNCHANGED <<packetsSent, buf, callVars, pc, dups, reader, panicked>>

(* External: the server sends a message again.                             *)
ServerRepeats(m) ==
  /\ m \in seen
  /\ dups < MaxDup
  /\ dups' = dups + 1
  /\ owed' = owed \cup {m}
  /\ UNCHANGED <<packetsSent, mapVars, buf, closed, callVars, pc, seen,
                 reader, connected, panicked>>

-----------------------------------------------------------------------------
Registering(c) ==
  SafePacketID(c) \/ addPacketChannel(c) \/ addRequestChannel(c)
Sending(c) ==
  sendDataOk(c) \/ sendDataFail(c) \/ FailPacket(c) \/ FailRequest(c)
Waiting(c) ==
  \E t \in ChannelTypes :
    getChannel(c, t) \/ Receive(c, t) \/ ReceiveClosed(c, t) \/ GiveUp(c, t)

CallStep(c) == Registering(c) \/ Sending(c) \/ Waiting(c) \/ Finish(c)
ReaderStep == (\E m \in Channels : ReadPacket(m)) \/ FetchChannel \/ PushPacket

Next ==
  /\ ~panicked
  /\ \/ \E c \in Calls : CallStep(c)
     \/ ReaderStep
     \/ Reconnect
     \/ CancelAllRequests
     \/ \E m \in Channels : ServerRepeats(m)

Spec == Init /\ [][Next]_vars

(* A goroutine that can run does run, and packetTimeout passes; the server *)
(* and the network owe nothing.                                            *)
FairSpec ==
  /\ Spec
  /\ \A c \in Calls : WF_vars(~panicked /\ pc[c] # "idle" /\ CallStep(c))
  /\ WF_vars(~panicked /\ (FetchChannel \/ PushPacket))

-----------------------------------------------------------------------------
(* Properties.                                                             *)

(* What a caller receives was addressed to its packet ID, for any order of *)
(* ACKs and responses, any reconnect and any reuse of IDs: the reader's    *)
(* lookup and the caller's lookup of the two maps agree.                   *)
ResponseMatches == \A c \in Calls : \A m \in got[c] : pid[m[1]] = pid[c]

(* Go panics when a channel is closed twice.  deleteDetails and            *)
(* CancelAllRequests race to close the same channels; whatever either can  *)
(* still find in a map has not been closed.                                *)
NoDoubleClose == \A x \in Registered : x \notin closed

IdsCollide == \E c, d \in Calls : c # d /\ pid[c] # 0 /\ pid[c] = pid[d]

(* updatePacketChannel and updateRequestChannel send outside the lock, so  *)
(* the send can hit a channel deleteDetails has just closed and take the   *)
(* process down.  That needs a message the server repeats, a caller that   *)
(* stopped waiting (timeout, context, or a channel lost to a reconnect     *)
(* between registering and sending), or two live calls with one packet ID, *)
(* for which the counter has to go all the way round under the first.      *)
PanicNeedsCause ==
  panicked => \/ dups > 0
              \/ quit # {}
              \/ IdsCollide /\ Cardinality(Calls) > MaxPacketID

(* The two ways in which the code leaves a channel in a map: a subscribe   *)
(* that could not be sent returns without deleting its packet channel      *)
(* (socket.go:369-372), and a request that waits for its ACK alone never   *)
(* deletes the request channel sendPublishPacket made for it               *)
(* (socket.go:436-438 for type 4, events.go:40 for the app settings).      *)
NeverSent(c) == kind[c] = "subscribe" /\ ch[c] = NoChan /\ c \notin quit
AckedAlone(c) == kind[c] = "ackOnly" /\ got[c] # {}

(* Whatever a request of any kind returned through - its answer, an error, *)
(* a timeout, a channel closed or taken over by another call - it leaves   *)
(* no channel of its own behind in the maps, but for those two leaks: a    *)
(* packet channel of a subscribe that was never sent, and the request      *)
(* channel of an ACKed request nobody waits for the response of.           *)
NothingLeftBehind ==
  \A c \in Calls : pc[c] = "done" => \A i \in PacketIDs :
    /\ packetChannels[i] = c => NeverSent(c)
    /\ requestChannels[i] = c => AckedAlone(c)

(* Every request that was started returns, whatever the server does.       *)
CallsReturn == \A c \in Calls : pc[c] = "addPkt" ~> pc[c] = "done" \/ panicked

(* The reader is never blocked for good on a full response channel.        *)
ReaderUnblocks == reader.state = "push" ~> reader.state # "push" \/ panicked

(* How far a request is for its caller: it is over once an error or the    *)
(* answer is known, although its channels still have to go.                *)
PhaseOf(state) ==
  CASE state = "idle" -> "idle"
    [] state \in {"addPkt", "addReq", "send"} -> "asking"
    [] state \in {"getPkt", "waitPkt"} -> "sent"
    [] state \in {"delPkt", "getReq", "waitReq"} -> "acked"
    [] OTHER -> "over"

Phase == [c \in Calls |-> PhaseOf(pc[c])]

Rpc == INSTANCE RequestReply WITH id <- pid, phase <- Phase

(* The two maps, their channels and the reader between them do for callers *)
(* what RequestReply promises, whatever arrives when and however often.    *)
KeepsPromise == Rpc!Spec

=============================================================================
