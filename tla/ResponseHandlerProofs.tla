------------------------ MODULE ResponseHandlerProofs ------------------------
(***************************************************************************)
(* Proofs about ResponseHandler, for any set of calls, any packet ID width *)
(* and any number of repeated messages: its invariants, that it implements *)
(* RequestReply, and what it takes to panic.                               *)
(***************************************************************************)
EXTENDS ResponseHandler, FiniteSetTheorems, TLAPS

-----------------------------------------------------------------------------
(* Type correctness.                                                       *)

(* A call has a packet ID exactly when it has started: 0 is never handed   *)
(* out, so the maps are only ever indexed by PacketIDs.                    *)
Started == \A c \in Calls : pc[c] = "idle" <=> pid[c] = 0

(* The server only speaks of packets it was sent.                          *)
Answerable == \A m \in owed \cup seen : pid[m[1]] # 0

(* The reader past its read holds a message, and past its lookup a         *)
(* channel; a call in waitForDetails has a channel to select on.           *)
Holding ==
  /\ reader.state # "read" => reader.msg \in Channels /\ pid[reader.msg[1]] # 0
  /\ reader.state = "push" => reader.ch \in Channels
  /\ \A c \in Calls : pc[c] \in {"waitPkt", "waitReq"} => ch[c] \in Channels

TypeInv == TypeOK /\ Started /\ Answerable /\ Holding

(* A client that has not connected yet satisfies it.                       *)
LEMMA InitTypeInv == Init => TypeInv
<1> SUFFICES ASSUME Init PROVE TypeInv
  OBVIOUS
<1>1. TypeOK
  <2>1. kind \in [Calls -> Kinds]
    BY KindsAssumption DEF Init
  <2>2. /\ packetsSent \in 0..MaxPacketID
        /\ pid \in [Calls -> 0..MaxPacketID]
        /\ dups \in 0..MaxDup
    BY PacketIDAssumption, MaxDupAssumption, StartAssumption DEF Init
  <2>3. reader \in [state : ReaderStates, msg : Channels \cup {NoChan},
                    ch : Channels \cup {NoChan}]
    BY DEF Init, IdleReader, ReaderStates
  <2> QED
    BY <2>1, <2>2, <2>3 DEF Init, TypeOK, CallStates
<1>2. Started /\ Answerable
  BY DEF Init, Started, Answerable
<1>3. Holding
  BY DEF Init, Holding, IdleReader
<1> QED
  BY <1>1, <1>2, <1>3 DEF TypeInv

(* The maps only ever hold calls.                                          *)
LEMMA DeleteTyped ==
  ASSUME TypeInv, NEW t \in ChannelTypes, NEW i \in PacketIDs,
         deleteDetails(t, i)
  PROVE  /\ packetChannels' \in [PacketIDs -> Calls \cup {NoCall}]
         /\ requestChannels' \in [PacketIDs -> Calls \cup {NoCall}]
         /\ closed' \in SUBSET Channels
BY DEF TypeInv, TypeOK, deleteDetails, SetEntry, Lookup, ChannelTypes, Channels

(* Every step of every goroutine preserves it.                             *)
LEMMA NextTypeInv == TypeInv /\ [Next]_vars => TypeInv'
<1> SUFFICES ASSUME TypeInv, [Next]_vars PROVE TypeInv'
  OBVIOUS
<1> USE DEF TypeInv, TypeOK, Started, Answerable, Holding, mapVars, callVars,
            netVars
<1>1. ASSUME NEW c \in Calls, SafePacketID(c) PROVE TypeInv'
  <2>1. NextPacketID \in PacketIDs
    BY PacketIDAssumption DEF NextPacketID, PacketIDs
  <2> QED
    BY <1>1, <2>1 DEF SafePacketID, Goto, PacketIDs, CallStates
<1>2. ASSUME NEW c \in Calls, addPacketChannel(c) PROVE TypeInv'
  BY <1>2 DEF addPacketChannel, SetEntry, Goto, CallStates
<1>3. ASSUME NEW c \in Calls, addRequestChannel(c) PROVE TypeInv'
  BY <1>3 DEF addRequestChannel, SetEntry, Goto, CallStates
<1>4. ASSUME NEW c \in Calls, sendDataOk(c) PROVE TypeInv'
  BY <1>4 DEF sendDataOk, Goto, CallStates, Channels, ChannelTypes
<1>5. ASSUME NEW c \in Calls, sendDataFail(c) PROVE TypeInv'
  BY <1>5 DEF sendDataFail, Goto, CallStates
<1>6. ASSUME NEW c \in Calls, FailPacket(c) PROVE TypeInv'
  <2>1. pid[c] \in PacketIDs
    BY <1>6 DEF FailPacket, Goto, PacketIDs
  <2> QED
    BY <1>6, <2>1, DeleteTyped DEF FailPacket, Goto, CallStates, ChannelTypes
<1>7. ASSUME NEW c \in Calls, FailRequest(c) PROVE TypeInv'
  <2>1. pid[c] \in PacketIDs
    BY <1>7 DEF FailRequest, Goto, PacketIDs
  <2> QED
    BY <1>7, <2>1, DeleteTyped DEF FailRequest, Goto, CallStates, ChannelTypes
<1>8. ASSUME NEW c \in Calls, NEW t \in ChannelTypes, getChannel(c, t)
      PROVE TypeInv'
  <2>1. pid[c] \in PacketIDs
    BY <1>8 DEF getChannel, Goto, PacketIDs
  <2>2. Lookup(t, pid[c]) \in Calls \cup {NoCall}
    BY <2>1 DEF Lookup
  <2> QED
    BY <1>8, <2>2 DEF getChannel, AfterPacketError, Goto, CallStates, Channels
<1>9. ASSUME NEW c \in Calls, NEW t \in ChannelTypes, Receive(c, t)
      PROVE TypeInv'
  <2>1. ch[c] \in Channels /\ buf[ch[c]] \in Channels
    BY <1>9 DEF Receive, Goto
  <2> QED
    BY <1>9, <2>1 DEF Receive, Goto, CallStates
<1>10. ASSUME NEW c \in Calls, NEW t \in ChannelTypes, ReceiveClosed(c, t)
       PROVE TypeInv'
  BY <1>10 DEF ReceiveClosed, AfterPacketError, Goto, CallStates
<1>11. ASSUME NEW c \in Calls, NEW t \in ChannelTypes, GiveUp(c, t)
       PROVE TypeInv'
  BY <1>11 DEF GiveUp, Goto, CallStates
<1>12. ASSUME NEW c \in Calls, Finish(c) PROVE TypeInv'
  <2>1. pid[c] \in PacketIDs
    BY <1>12 DEF Finish, Goto, PacketIDs
  <2>2. PICK t \in ChannelTypes : deleteDetails(t, pid[c])
    BY <1>12 DEF Finish, ChannelTypes
  <2>3. panicked' \in BOOLEAN
    BY <1>12, Zenon DEF Finish, WrongAck
  <2>4. PICK s \in {"getReq", "done", "abandonReq"} :
      pc' = [pc EXCEPT ![c] = s]
    BY <1>12 DEF Finish, Goto, AfterPacket, AfterPacketError
  <2>5. pc[c] # "idle"
    BY <1>12 DEF Finish, Goto
  <2> QED
    BY <1>12, <2>1, <2>2, <2>3, <2>4, <2>5, DeleteTyped DEF Finish, CallStates
<1>13. ASSUME NEW m \in Channels, ReadPacket(m) PROVE TypeInv'
  BY <1>13 DEF ReadPacket, IdleReader, ReaderStates
<1>14. ASSUME FetchChannel PROVE TypeInv'
  <2>1. /\ reader.msg \in Channels
        /\ Type(reader.msg) \in ChannelTypes
        /\ pid[reader.msg[1]] \in PacketIDs
    BY <1>14 DEF FetchChannel, Channels, PacketIDs, Type
  <2>2. Lookup(Type(reader.msg), pid[reader.msg[1]]) \in Calls \cup {NoCall}
    BY <2>1 DEF Lookup
  <2> QED
    BY <1>14, <2>1, <2>2 DEF FetchChannel, IdleReader, ReaderStates, Channels
<1>15. ASSUME PushPacket PROVE TypeInv'
  BY <1>15 DEF PushPacket, IdleReader, ReaderStates
<1>16. ASSUME Reconnect PROVE TypeInv'
  BY <1>16 DEF Reconnect
<1>17. ASSUME CancelAllRequests PROVE TypeInv'
  <2>1. Registered \subseteq Channels
    BY DEF Registered, Channels, ChannelTypes
  <2> QED
    BY <1>17, <2>1 DEF CancelAllRequests
<1>18. ASSUME NEW m \in Channels, ServerRepeats(m) PROVE TypeInv'
  BY <1>18, MaxDupAssumption DEF ServerRepeats
<1>19. CASE UNCHANGED vars
  BY <1>19 DEF vars
<1> QED
  BY <1>1, <1>2, <1>3, <1>4, <1>5, <1>6, <1>7, <1>8, <1>9, <1>10, <1>11,
     <1>12, <1>13, <1>14, <1>15, <1>16, <1>17, <1>18, <1>19
     DEF Next, CallStep, Registering, Sending, Waiting, ReaderStep

(* Every behaviour of the specification is well typed.                     *)
THEOREM TypeCorrect == Spec => []TypeOK
<1>1. TypeInv => TypeOK
  BY DEF TypeInv
<1> QED
  BY InitTypeInv, NextTypeInv, <1>1, PTL DEF Spec

-----------------------------------------------------------------------------
(* Packet IDs match from the maps to the caller.                           *)

(* A map entry for an ID belongs to a call with that ID.                   *)
MapsMatch == \A i \in PacketIDs :
  /\ packetChannels[i] # NoCall => pid[packetChannels[i]] = i
  /\ requestChannels[i] # NoCall => pid[requestChannels[i]] = i

(* So does what is buffered in a channel, what the reader is about to      *)
(* push, the channel a call selects on and what it received.               *)
BufMatch == \A x \in Channels :
  buf[x] # NoChan => pid[x[1]] # 0 /\ pid[buf[x][1]] = pid[x[1]]
ReaderMatch == reader.state = "push" => pid[reader.ch[1]] = pid[reader.msg[1]]
WaitMatch == \A c \in Calls :
  pc[c] \in {"waitPkt", "waitReq"} => pid[ch[c][1]] = pid[c]
GotMatch == \A c \in Calls : \A m \in got[c] :
  pid[c] # 0 /\ pid[m[1]] = pid[c]

MatchInv == MapsMatch /\ BufMatch /\ ReaderMatch /\ WaitMatch /\ GotMatch

(* A packet ID, once taken, is kept: only a call that has none takes one.  *)
LEMMA PidStable ==
  ASSUME TypeInv, [Next]_vars
  PROVE  /\ pid' \in [Calls -> 0..MaxPacketID]
         /\ \A c \in Calls : pid[c] # 0 => pid'[c] = pid[c]
<1>1. TypeInv'
  BY NextTypeInv
<1>2. \A c \in Calls : pid[c] # 0 => pid'[c] = pid[c]
  <2>1. ASSUME NEW d \in Calls, SafePacketID(d)
        PROVE \A c \in Calls : pid[c] # 0 => pid'[c] = pid[c]
    BY <2>1 DEF TypeInv, TypeOK, Started, SafePacketID, Goto
  <2>2. CASE UNCHANGED pid
    BY <2>2
  <2>3. ASSUME NEW d \in Calls, CallStep(d), ~SafePacketID(d)
        PROVE UNCHANGED pid
    BY <2>3 DEF CallStep, Registering, Sending, Waiting, Finish,
       addPacketChannel, addRequestChannel, sendDataOk, sendDataFail,
       FailPacket, FailRequest, getChannel, Receive, ReceiveClosed, GiveUp,
       callVars
  <2>4. ASSUME ~ \E d \in Calls : CallStep(d)
        PROVE UNCHANGED pid
    BY <2>4 DEF Next, ReaderStep, ReadPacket, FetchChannel, PushPacket,
       Reconnect, CancelAllRequests, ServerRepeats, callVars, vars
  <2> QED
    BY <2>1, <2>2, <2>3, <2>4
<1> QED
  BY <1>1, <1>2 DEF TypeInv, TypeOK

(* deleteDetails only takes entries out of the maps.                       *)
LEMMA DeleteShrinks ==
  ASSUME TypeInv, NEW t \in ChannelTypes, NEW i \in PacketIDs,
         deleteDetails(t, i)
  PROVE  \A j \in PacketIDs :
           /\ packetChannels'[j] \in {packetChannels[j], NoCall}
           /\ requestChannels'[j] \in {requestChannels[j], NoCall}
BY DEF TypeInv, TypeOK, deleteDetails, SetEntry

(* Before the first request nothing is registered, buffered or received.   *)
LEMMA InitMatchInv == Init => MatchInv
<1> SUFFICES ASSUME Init PROVE MatchInv
  OBVIOUS
<1>1. MapsMatch
  BY DEF Init, MapsMatch
<1>2. BufMatch /\ GotMatch
  BY DEF Init, BufMatch, GotMatch
<1>3. ReaderMatch /\ WaitMatch
  BY DEF Init, ReaderMatch, WaitMatch, IdleReader
<1> QED
  BY <1>1, <1>2, <1>3 DEF MatchInv

(* Every step keeps the IDs matching.                                      *)
LEMMA NextMatchInv == TypeInv /\ MatchInv /\ [Next]_vars => MatchInv'
<1> SUFFICES ASSUME TypeInv, MatchInv, [Next]_vars PROVE MatchInv'
  OBVIOUS
<1>0. /\ \A c \in Calls : pid[c] # 0 => pid'[c] = pid[c]
      /\ pid' \in [Calls -> 0..MaxPacketID]
      /\ TypeInv'
  BY PidStable, NextTypeInv
<1> USE DEF TypeInv, TypeOK, Started, Answerable, Holding, MatchInv, MapsMatch,
            BufMatch, ReaderMatch, WaitMatch, GotMatch, mapVars, callVars,
            netVars
<1>1. ASSUME NEW c \in Calls, SafePacketID(c) PROVE MatchInv'
  <2>1. \A x \in Channels : x[1] \in Calls
    BY DEF Channels
  <2>2. MapsMatch'
    BY <1>0, <1>1 DEF SafePacketID, PacketIDs
  <2>3. BufMatch'
    <3>1. \A x \in Channels : buf[x] # NoChan => buf[x][1] \in Calls
      BY <2>1
    <3> QED
      BY <1>0, <1>1, <2>1, <3>1 DEF SafePacketID
  <2>4. ReaderMatch'
    BY <1>0, <1>1, <2>1 DEF SafePacketID
  <2>5. WaitMatch'
    BY <1>0, <1>1, <2>1 DEF SafePacketID, Goto
  <2>6. GotMatch'
    BY <1>0, <1>1, <2>1 DEF SafePacketID
  <2> HIDE DEF MapsMatch, BufMatch, ReaderMatch, WaitMatch, GotMatch
  <2> QED
    BY <2>2, <2>3, <2>4, <2>5, <2>6
<1>2. ASSUME NEW c \in Calls, addPacketChannel(c) PROVE MatchInv'
  <2>1. pid[c] \in PacketIDs /\ pid' = pid
    BY <1>2 DEF addPacketChannel, Goto, PacketIDs
  <2>2. MapsMatch'
    BY <1>2, <2>1 DEF addPacketChannel, SetEntry
  <2>3. BufMatch' /\ ReaderMatch' /\ GotMatch'
    BY <1>2 DEF addPacketChannel
  <2>4. WaitMatch'
    BY <1>2, <2>1 DEF addPacketChannel, Goto
  <2> HIDE DEF MapsMatch, BufMatch, ReaderMatch, WaitMatch, GotMatch
  <2> QED
    BY <2>2, <2>3, <2>4
<1>3. ASSUME NEW c \in Calls, addRequestChannel(c) PROVE MatchInv'
  <2>1. pid[c] \in PacketIDs /\ pid' = pid
    BY <1>3 DEF addRequestChannel, Goto, PacketIDs
  <2>2. MapsMatch'
    BY <1>3, <2>1 DEF addRequestChannel, SetEntry
  <2>3. BufMatch' /\ ReaderMatch' /\ GotMatch'
    BY <1>3 DEF addRequestChannel
  <2>4. WaitMatch'
    BY <1>3, <2>1 DEF addRequestChannel, Goto
  <2> HIDE DEF MapsMatch, BufMatch, ReaderMatch, WaitMatch, GotMatch
  <2> QED
    BY <2>2, <2>3, <2>4
<1>4. ASSUME NEW c \in Calls, sendDataOk(c) PROVE MatchInv'
  BY <1>4 DEF sendDataOk, Goto
<1>5. ASSUME NEW c \in Calls, sendDataFail(c) PROVE MatchInv'
  BY <1>5 DEF sendDataFail, Goto
<1>6. ASSUME NEW c \in Calls, FailPacket(c) PROVE MatchInv'
  <2>1. pid[c] \in PacketIDs
    BY <1>6 DEF FailPacket, Goto, PacketIDs
  <2> QED
    BY <1>6, <2>1, DeleteShrinks DEF FailPacket, Goto, ChannelTypes
<1>7. ASSUME NEW c \in Calls, FailRequest(c) PROVE MatchInv'
  <2>1. pid[c] \in PacketIDs
    BY <1>7 DEF FailRequest, Goto, PacketIDs
  <2> QED
    BY <1>7, <2>1, DeleteShrinks DEF FailRequest, Goto, ChannelTypes
<1>8. ASSUME NEW c \in Calls, NEW t \in ChannelTypes, getChannel(c, t)
      PROVE MatchInv'
  <2>1. pid[c] \in PacketIDs
    BY <1>8 DEF getChannel, Goto, PacketIDs
  <2>2. Lookup(t, pid[c]) # NoCall => pid[Lookup(t, pid[c])] = pid[c]
    BY <2>1 DEF Lookup
  <2> QED
    BY <1>8, <2>2 DEF getChannel, AfterPacketError, Goto
<1>9. ASSUME NEW c \in Calls, NEW t \in ChannelTypes, Receive(c, t)
      PROVE MatchInv'
  <2>1. ch[c] \in Channels /\ buf[ch[c]] \in Channels
    BY <1>9 DEF Receive, Goto
  <2> QED
    BY <1>9, <2>1 DEF Receive, Goto
<1>10. ASSUME NEW c \in Calls, NEW t \in ChannelTypes, ReceiveClosed(c, t)
       PROVE MatchInv'
  BY <1>10 DEF ReceiveClosed, AfterPacketError, Goto
<1>11. ASSUME NEW c \in Calls, NEW t \in ChannelTypes, GiveUp(c, t)
       PROVE MatchInv'
  BY <1>11 DEF GiveUp, Goto
<1>12. ASSUME NEW c \in Calls, Finish(c) PROVE MatchInv'
  <2>1. pid[c] \in PacketIDs
    BY <1>12 DEF Finish, Goto, PacketIDs
  <2>2. PICK t \in ChannelTypes : deleteDetails(t, pid[c])
    BY <1>12 DEF Finish, ChannelTypes
  <2>3. PICK s \in {"getReq", "done", "abandonReq"} :
      pc' = [pc EXCEPT ![c] = s]
    BY <1>12 DEF Finish, Goto, AfterPacket, AfterPacketError
  <2> QED
    BY <1>12, <2>1, <2>2, <2>3, DeleteShrinks DEF Finish
<1>13. ASSUME NEW m \in Channels, ReadPacket(m) PROVE MatchInv'
  BY <1>13 DEF ReadPacket, IdleReader
<1>14. ASSUME FetchChannel PROVE MatchInv'
  <2>1. /\ reader.msg \in Channels
        /\ Type(reader.msg) \in ChannelTypes
        /\ pid[reader.msg[1]] \in PacketIDs
    BY <1>14 DEF FetchChannel, Channels, PacketIDs, Type
  <2>2. LET found == Lookup(Type(reader.msg), pid[reader.msg[1]])
        IN  found # NoCall => pid[found] = pid[reader.msg[1]]
    BY <2>1 DEF Lookup
  <2> QED
    BY <1>14, <2>1, <2>2 DEF FetchChannel, IdleReader
<1>15. ASSUME PushPacket PROVE MatchInv'
  BY <1>15 DEF PushPacket, IdleReader, Channels
<1>16. ASSUME Reconnect PROVE MatchInv'
  BY <1>16 DEF Reconnect
<1>17. ASSUME CancelAllRequests PROVE MatchInv'
  BY <1>17 DEF CancelAllRequests
<1>18. ASSUME NEW m \in Channels, ServerRepeats(m) PROVE MatchInv'
  BY <1>18 DEF ServerRepeats
<1>19. CASE UNCHANGED vars
  BY <1>19 DEF vars
<1> QED
  BY <1>1, <1>2, <1>3, <1>4, <1>5, <1>6, <1>7, <1>8, <1>9, <1>10, <1>11,
     <1>12, <1>13, <1>14, <1>15, <1>16, <1>17, <1>18, <1>19
     DEF Next, CallStep, Registering, Sending, Waiting, ReaderStep

(* What a caller receives carries its own packet ID, for any number of     *)
(* calls and any ID width: the claim of makeLSRequest and waitForDetails   *)
(* that TLC checks for two calls.                                          *)
THEOREM ResponsesMatch == Spec => []ResponseMatches
<1>1. MatchInv => ResponseMatches
  BY DEF MatchInv, GotMatch, ResponseMatches
<1> QED
  BY InitTypeInv, NextTypeInv, InitMatchInv, NextMatchInv, <1>1, PTL DEF Spec

-----------------------------------------------------------------------------
(* No channel is closed twice, and none is left behind.                    *)

(* What a map still holds is open.                                         *)
Unclosed == \A t \in ChannelTypes, i \in PacketIDs :
  Lookup(t, i) # NoCall => <<Lookup(t, i), t>> \notin closed

(* A channel that is yet to be registered is in no map and open.           *)
Unregistered(c, t) ==
  pc[c] \in {"idle", "addPkt"} \cup (IF t = "req" THEN {"addReq"} ELSE {})
Fresh == \A c \in Calls, t \in ChannelTypes : Unregistered(c, t) =>
  <<c, t>> \notin closed /\ \A i \in PacketIDs : Lookup(t, i) # c

CloseInv == Unclosed /\ Fresh

(* Before the first request nothing is registered or closed.               *)
LEMMA InitCloseInv == Init => CloseInv
BY CallsAssumption DEF Init, CloseInv, Unclosed, Fresh, Lookup

(* What the invariants say about Lookup.                                   *)
LEMMA LookupMatch ==
  ASSUME TypeInv, MatchInv, NEW t \in ChannelTypes, NEW i \in PacketIDs
  PROVE  /\ Lookup(t, i) \in Calls \cup {NoCall}
         /\ Lookup(t, i) # NoCall => pid[Lookup(t, i)] = i
BY DEF TypeInv, TypeOK, MatchInv, MapsMatch, Lookup

(* What writing an entry does to Lookup.                                   *)
LEMMA SetEntryEffect ==
  ASSUME TypeInv, NEW t \in ChannelTypes, NEW i \in PacketIDs,
         NEW c \in Calls \cup {NoCall}, SetEntry(t, i, c)
  PROVE  \A u \in ChannelTypes, j \in PacketIDs :
           Lookup(u, j)' = IF u = t /\ j = i THEN c ELSE Lookup(u, j)
BY DEF TypeInv, TypeOK, SetEntry, Lookup, ChannelTypes

(* deleteDetails takes out one entry and closes only its channel.          *)
LEMMA DeleteEffect ==
  ASSUME TypeInv, NEW t \in ChannelTypes, NEW i \in PacketIDs,
         deleteDetails(t, i)
  PROVE  /\ \A u \in ChannelTypes, j \in PacketIDs :
              Lookup(u, j)' = IF u = t /\ j = i THEN NoCall ELSE Lookup(u, j)
         /\ \A u \in ChannelTypes, c \in Calls : <<c, u>> \in closed' =>
              <<c, u>> \in closed \/ (u = t /\ c = Lookup(t, i))
<1>1. \A u \in ChannelTypes, j \in PacketIDs :
        Lookup(u, j)' = IF u = t /\ j = i THEN NoCall ELSE Lookup(u, j)
  BY SetEntryEffect DEF deleteDetails
<1>2. \A u \in ChannelTypes, c \in Calls : <<c, u>> \in closed' =>
        <<c, u>> \in closed \/ (u = t /\ c = Lookup(t, i))
  BY DEF deleteDetails
<1> QED
  BY <1>1, <1>2

(* Two entries never name the same channel, so deleteDetails closes a      *)
(* channel together with its only entry; and what it finds in a map is not *)
(* a channel that is yet to be registered.                                 *)
LEMMA DeleteCloseInv ==
  ASSUME TypeInv, MatchInv, CloseInv,
         NEW t \in ChannelTypes, NEW i \in PacketIDs, deleteDetails(t, i),
         NEW c \in Calls, NEW s \in CallStates \ {"idle", "addPkt", "addReq"},
         pc' = [pc EXCEPT ![c] = s]
  PROVE  CloseInv'
<1>1. Unclosed'
  <2> SUFFICES ASSUME NEW u \in ChannelTypes, NEW j \in PacketIDs,
                      Lookup(u, j)' # NoCall
               PROVE  <<Lookup(u, j)', u>> \notin closed'
    BY DEF Unclosed
  <2>1. Lookup(u, j)' = Lookup(u, j) /\ (u # t \/ j # i)
    BY DeleteEffect
  <2>2. Lookup(u, j) \in Calls /\ pid[Lookup(u, j)] = j
    BY <2>1, LookupMatch
  <2>3. <<Lookup(u, j), u>> \notin closed
    BY <2>1 DEF CloseInv, Unclosed
  <2>4. u = t => Lookup(u, j) # Lookup(t, i)
    BY <2>1, <2>2, LookupMatch, CallsAssumption
  <2> QED
    BY <2>1, <2>2, <2>3, <2>4, DeleteEffect
<1>2. Fresh'
  <2> SUFFICES ASSUME NEW d \in Calls, NEW u \in ChannelTypes,
                      Unregistered(d, u)'
               PROVE  <<d, u>> \notin closed' /\ \A j \in PacketIDs :
                   Lookup(u, j)' # d
    BY DEF Fresh
  <2>1. Unregistered(d, u)
    BY DEF Unregistered, TypeInv, TypeOK
  <2>2. <<d, u>> \notin closed /\ \A j \in PacketIDs : Lookup(u, j) # d
    BY <2>1 DEF CloseInv, Fresh
  <2> QED
    BY <2>2, DeleteEffect, CallsAssumption
<1> QED
  BY <1>1, <1>2 DEF CloseInv

(* Registering a channel that is open and in no map.                       *)
LEMMA AddCloseInv ==
  ASSUME TypeInv, CloseInv, UNCHANGED closed,
         NEW c \in Calls, NEW t \in ChannelTypes, NEW i \in PacketIDs,
         SetEntry(t, i, c), Unregistered(c, t), ~Unregistered(c, t)',
         \A d \in Calls, u \in ChannelTypes :
            Unregistered(d, u)' => Unregistered(d, u)
  PROVE  CloseInv'
<1>1. Unclosed'
  BY SetEntryEffect DEF CloseInv, Unclosed, Fresh
<1>2. Fresh'
  BY SetEntryEffect DEF CloseInv, Fresh
<1> QED
  BY <1>1, <1>2 DEF CloseInv

(* A step that leaves maps and closed channels alone, and takes no call    *)
(* back to before its registration.                                        *)
LEMMA KeepCloseInv ==
  ASSUME CloseInv, UNCHANGED <<packetChannels, requestChannels, closed>>,
         \A d \in Calls, u \in ChannelTypes :
            Unregistered(d, u)' => Unregistered(d, u)
  PROVE  CloseInv'
<1>1. \A t, i : Lookup(t, i)' = Lookup(t, i)
  BY DEF Lookup
<1> QED
  BY <1>1 DEF CloseInv, Unclosed, Fresh

(* Every step keeps the maps free of closed channels.                      *)
LEMMA NextCloseInv ==
  TypeInv /\ MatchInv /\ CloseInv /\ [Next]_vars => CloseInv'
<1> SUFFICES ASSUME TypeInv, MatchInv, CloseInv, [Next]_vars PROVE CloseInv'
  OBVIOUS
<1>0. \A c \in Calls : pc[c] # "idle" => pid[c] \in PacketIDs
  BY DEF TypeInv, TypeOK, Started, PacketIDs
<1>1. ASSUME NEW c \in Calls, SafePacketID(c) PROVE CloseInv'
  BY <1>1, KeepCloseInv
     DEF SafePacketID, Goto, Unregistered, mapVars, TypeInv, TypeOK
<1>2. ASSUME NEW c \in Calls, addPacketChannel(c) PROVE CloseInv'
  <2>1. /\ Unregistered(c, "pkt") /\ ~Unregistered(c, "pkt")'
        /\ \A d \in Calls, u \in ChannelTypes :
             Unregistered(d, u)' => Unregistered(d, u)
    BY <1>2 DEF addPacketChannel, Goto, Unregistered, TypeInv, TypeOK
  <2>2. pid[c] \in PacketIDs
    BY <1>0, <1>2 DEF addPacketChannel, Goto
  <2> QED
    BY <1>2, <2>1, <2>2, AddCloseInv DEF addPacketChannel, ChannelTypes
<1>3. ASSUME NEW c \in Calls, addRequestChannel(c) PROVE CloseInv'
  <2>1. /\ Unregistered(c, "req") /\ ~Unregistered(c, "req")'
        /\ \A d \in Calls, u \in ChannelTypes :
             Unregistered(d, u)' => Unregistered(d, u)
    BY <1>3 DEF addRequestChannel, Goto, Unregistered, TypeInv, TypeOK
  <2>2. pid[c] \in PacketIDs
    BY <1>0, <1>3 DEF addRequestChannel, Goto
  <2> QED
    BY <1>3, <2>1, <2>2, AddCloseInv DEF addRequestChannel, ChannelTypes
<1>4. ASSUME NEW c \in Calls, sendDataOk(c) PROVE CloseInv'
  BY <1>4, KeepCloseInv
     DEF sendDataOk, Goto, Unregistered, mapVars, TypeInv, TypeOK
<1>5. ASSUME NEW c \in Calls, sendDataFail(c) PROVE CloseInv'
  BY <1>5, KeepCloseInv
     DEF sendDataFail, Goto, Unregistered, mapVars, TypeInv, TypeOK
<1>6. ASSUME NEW c \in Calls, FailPacket(c) PROVE CloseInv'
  <2>1. pid[c] \in PacketIDs /\ pc' = [pc EXCEPT ![c] = "failReq"]
    BY <1>0, <1>6 DEF FailPacket, Goto
  <2> QED
    BY <1>6, <2>1, DeleteCloseInv DEF FailPacket, ChannelTypes, CallStates
<1>7. ASSUME NEW c \in Calls, FailRequest(c) PROVE CloseInv'
  <2>1. pid[c] \in PacketIDs /\ pc' = [pc EXCEPT ![c] = "done"]
    BY <1>0, <1>7 DEF FailRequest, Goto
  <2> QED
    BY <1>7, <2>1, DeleteCloseInv DEF FailRequest, ChannelTypes, CallStates
<1>8. ASSUME NEW c \in Calls, NEW t \in ChannelTypes, getChannel(c, t)
      PROVE CloseInv'
  BY <1>8, KeepCloseInv
     DEF getChannel, AfterPacketError, Goto, Unregistered, mapVars, TypeInv,
        TypeOK
<1>9. ASSUME NEW c \in Calls, NEW t \in ChannelTypes, Receive(c, t)
      PROVE CloseInv'
  BY <1>9, KeepCloseInv
     DEF Receive, Goto, Unregistered, mapVars, TypeInv, TypeOK
<1>10. ASSUME NEW c \in Calls, NEW t \in ChannelTypes, ReceiveClosed(c, t)
      PROVE CloseInv'
  BY <1>10, KeepCloseInv
     DEF ReceiveClosed, AfterPacketError, Goto, Unregistered, mapVars,
        TypeInv, TypeOK
<1>11. ASSUME NEW c \in Calls, NEW t \in ChannelTypes, GiveUp(c, t)
      PROVE CloseInv'
  BY <1>11, KeepCloseInv
     DEF GiveUp, Goto, Unregistered, mapVars, TypeInv, TypeOK
<1>12. ASSUME NEW c \in Calls, Finish(c) PROVE CloseInv'
  <2>1. pid[c] \in PacketIDs
    BY <1>0, <1>12 DEF Finish, Goto
  <2>2. PICK t \in ChannelTypes : deleteDetails(t, pid[c])
    BY <1>12 DEF Finish, ChannelTypes
  <2>3. PICK s \in {"getReq", "done", "abandonReq"} :
      pc' = [pc EXCEPT ![c] = s]
    BY <1>12 DEF Finish, Goto, AfterPacket, AfterPacketError
  <2> QED
    BY <2>1, <2>2, <2>3, DeleteCloseInv DEF CallStates
<1>13. ASSUME NEW m \in Channels, ReadPacket(m) PROVE CloseInv'
  BY <1>13, KeepCloseInv DEF ReadPacket, Unregistered, callVars, mapVars
<1>14. ASSUME FetchChannel PROVE CloseInv'
  BY <1>14, KeepCloseInv DEF FetchChannel, Unregistered, callVars, mapVars
<1>15. ASSUME PushPacket PROVE CloseInv'
  BY <1>15, KeepCloseInv DEF PushPacket, Unregistered, callVars, mapVars
<1>16. ASSUME Reconnect PROVE CloseInv'
  BY <1>16, KeepCloseInv DEF Reconnect, Unregistered, callVars, mapVars
<1>17. ASSUME CancelAllRequests PROVE CloseInv'
  <2>1. \A t \in ChannelTypes, i \in PacketIDs : Lookup(t, i)' = NoCall
    BY <1>17 DEF CancelAllRequests, Lookup
  <2>2. ASSUME NEW c \in Calls, NEW t \in ChannelTypes,
               <<c, t>> \in Registered
        PROVE  \E i \in PacketIDs : Lookup(t, i) = c
    BY <2>2 DEF Registered, Lookup
  <2>3. Fresh'
    <3> SUFFICES ASSUME NEW c \in Calls, NEW t \in ChannelTypes,
                        Unregistered(c, t)'
                 PROVE  <<c, t>> \notin closed'
      BY <2>1, CallsAssumption DEF Fresh
    <3>1. Unregistered(c, t)
      BY <1>17 DEF CancelAllRequests, Unregistered
    <3>2. <<c, t>> \notin closed /\ <<c, t>> \notin Registered
      BY <2>2, <3>1 DEF CloseInv, Fresh
    <3> QED
      BY <1>17, <3>2 DEF CancelAllRequests
  <2> QED
    BY <2>1, <2>3 DEF CloseInv, Unclosed
<1>18. ASSUME NEW m \in Channels, ServerRepeats(m) PROVE CloseInv'
  BY <1>18, KeepCloseInv DEF ServerRepeats, Unregistered, mapVars
<1>19. CASE UNCHANGED vars
  BY <1>19, KeepCloseInv DEF vars, Unregistered
<1> QED
  BY <1>1, <1>2, <1>3, <1>4, <1>5, <1>6, <1>7, <1>8, <1>9, <1>10, <1>11,
     <1>12, <1>13, <1>14, <1>15, <1>16, <1>17, <1>18, <1>19
     DEF Next, CallStep, Registering, Sending, Waiting, ReaderStep

(* deleteDetails and CancelAllRequests never close a channel twice, for    *)
(* any number of calls and any reuse of packet IDs.                        *)
THEOREM NeverClosedTwice == Spec => []NoDoubleClose
<1>1. CloseInv => NoDoubleClose
  <2> SUFFICES ASSUME CloseInv, NEW x \in Registered PROVE x \notin closed
    BY DEF NoDoubleClose
  <2>1. PICK t \in ChannelTypes, i \in PacketIDs :
          Lookup(t, i) # NoCall /\ x = <<Lookup(t, i), t>>
    BY DEF Registered, Lookup, ChannelTypes
  <2> QED
    BY <2>1 DEF CloseInv, Unclosed
<1> QED
  BY InitTypeInv, NextTypeInv, InitMatchInv, NextMatchInv, InitCloseInv,
     NextCloseInv, <1>1, PTL DEF Spec

(* A call that is past its ACK, or past its response, is in the map for    *)
(* neither, unless it is over and left the channel there; a call that      *)
(* waits on another call's channel has lost its own entry to that call.  A *)
(* subscribe has no request channel, a call that has yet to be sent waits  *)
(* on nothing, and one about to delete its packet channel got its ACK.     *)
Past(c, t) ==
  pc[c] \in {"done"} \cup
    IF t = "pkt" THEN {"failReq", "getReq", "waitReq", "delReq", "quitReq",
                       "abandonReq"}
                 ELSE {}
WaitState(t) == IF t = "pkt" THEN "waitPkt" ELSE "waitReq"
NoEntry(c, t) == \A i \in PacketIDs : Lookup(t, i) # c
Leaked(c, t) ==
  pc[c] = "done" /\ IF t = "pkt" THEN NeverSent(c) ELSE AckedAlone(c)
LeftInv == \A c \in Calls :
  /\ \A t \in ChannelTypes :
       /\ Past(c, t) => NoEntry(c, t) \/ Leaked(c, t)
       /\ pc[c] = WaitState(t) =>
            ch[c][2] = t /\ (ch[c][1] # c => NoEntry(c, t))
  /\ kind[c] = "subscribe" => NoEntry(c, "req") /\ pc[c] # "addReq"
  /\ pc[c] \in {"idle", "addPkt", "addReq", "send"} =>
       ch[c] = NoChan /\ c \notin quit
  /\ pc[c] = "delPkt" => got[c] # {}

(* Before the first request no call has got past a wait.                   *)
LEMMA InitLeftInv == Init => LeftInv
BY CallsAssumption
   DEF Init, LeftInv, Past, WaitState, NoEntry, Lookup

(* A call without an entry at its own packet ID has none at all.           *)
LEMMA OnlyOwnEntry ==
  ASSUME TypeInv, MatchInv, NEW c \in Calls, NEW t \in ChannelTypes,
         pid[c] \in PacketIDs, Lookup(t, pid[c]) # c
  PROVE  NoEntry(c, t)
BY LookupMatch, CallsAssumption DEF NoEntry

(* Deleting an entry gives no call a new one and takes the caller's own.   *)
LEMMA DeleteNoEntry ==
  ASSUME TypeInv, MatchInv, NEW d \in Calls, NEW t \in ChannelTypes,
         pid[d] \in PacketIDs, deleteDetails(t, pid[d])
  PROVE  /\ NoEntry(d, t)'
         /\ \A c \in Calls, u \in ChannelTypes :
             NoEntry(c, u) => NoEntry(c, u)'
<1>1. \A c \in Calls, u \in ChannelTypes : NoEntry(c, u) => NoEntry(c, u)'
  BY DeleteEffect, CallsAssumption DEF NoEntry
<1>2. \A j \in PacketIDs : Lookup(t, j)' # d
  BY DeleteEffect, LookupMatch, CallsAssumption
<1> QED
  BY <1>1, <1>2 DEF NoEntry

(* Every step keeps finished calls out of the maps.                        *)
LEMMA NextLeftInv ==
  TypeInv /\ MatchInv /\ CloseInv /\ LeftInv /\ [Next]_vars => LeftInv'
<1> SUFFICES ASSUME TypeInv, MatchInv, CloseInv, LeftInv, [Next]_vars
             PROVE LeftInv'
  OBVIOUS
<1>0. \A c \in Calls : pc[c] # "idle" => pid[c] \in PacketIDs
  BY DEF TypeInv, TypeOK, Started, PacketIDs
<1>k. ASSUME UNCHANGED <<packetChannels, requestChannels>>
      PROVE  \A c, t : NoEntry(c, t)' = NoEntry(c, t)
  BY <1>k DEF NoEntry, Lookup
<1> USE DEF LeftInv, Past, WaitState, Leaked, NeverSent, AckedAlone
<1>1. ASSUME NEW c \in Calls, SafePacketID(c)
      PROVE  LeftInv'
  BY <1>1, <1>k DEF SafePacketID, Goto, TypeInv, TypeOK, mapVars, callVars
<1>2. ASSUME NEW c \in Calls, addPacketChannel(c)
      PROVE  LeftInv'
  <2>1. pid[c] \in PacketIDs
    BY <1>0, <1>2 DEF addPacketChannel, Goto
  <2>2. \A d \in Calls \ {c}, u \in ChannelTypes :
      NoEntry(d, u) => NoEntry(d, u)'
    BY <1>2, <2>1, SetEntryEffect DEF addPacketChannel, NoEntry, ChannelTypes
  <2>3. NoEntry(c, "req") => NoEntry(c, "req")'
    BY <1>2, <2>1, SetEntryEffect DEF addPacketChannel, NoEntry, ChannelTypes
  <2>4. "req" \in ChannelTypes
    BY DEF ChannelTypes
  <2> QED
    BY <1>2, <2>2, <2>3, <2>4 DEF addPacketChannel, Goto, TypeInv, TypeOK,
       mapVars, callVars
<1>3. ASSUME NEW c \in Calls, addRequestChannel(c)
      PROVE  LeftInv'
  <2>1. pid[c] \in PacketIDs
    BY <1>0, <1>3 DEF addRequestChannel, Goto
  <2>2. \A d \in Calls \ {c}, u \in ChannelTypes :
      NoEntry(d, u) => NoEntry(d, u)'
    BY <1>3, <2>1, SetEntryEffect DEF addRequestChannel, NoEntry, ChannelTypes
  <2>3. NoEntry(c, "pkt") => NoEntry(c, "pkt")'
    BY <1>3, <2>1, SetEntryEffect DEF addRequestChannel, NoEntry, ChannelTypes
  <2> QED
    BY <1>3, <2>2, <2>3 DEF addRequestChannel, Goto, ChannelTypes, TypeInv,
       TypeOK, mapVars, callVars
<1>4. ASSUME NEW c \in Calls, sendDataOk(c)
      PROVE  LeftInv'
  BY <1>4, <1>k DEF sendDataOk, Goto, TypeInv, TypeOK, mapVars, callVars
<1>5. ASSUME NEW c \in Calls, sendDataFail(c)
      PROVE  LeftInv'
  <2>1. /\ pc[c] = "send"
        /\ pc' = [pc EXCEPT ![c] =
                    IF kind[c] = "subscribe" THEN "done" ELSE "failPkt"]
        /\ UNCHANGED <<packetChannels, requestChannels, kind, ch, got, quit>>
    BY <1>5 DEF sendDataFail, Goto, mapVars, callVars
  <2>2. ch[c] = NoChan /\ c \notin quit
    BY <2>1
  <2>3. kind[c] = "subscribe" => NeverSent(c)' /\ NoEntry(c, "req")
    BY <2>1, <2>2
  <2> HIDE DEF NeverSent
  <2>4. \A d \in Calls \ {c} : pc'[d] = pc[d] /\ NeverSent(d)' = NeverSent(d)
    BY <2>1 DEF NeverSent, TypeInv, TypeOK
  <2>5. \A d \in Calls : NoEntry(d, "pkt")' = NoEntry(d, "pkt")
                       /\ NoEntry(d, "req")' = NoEntry(d, "req")
    BY <1>k, <2>1
  <2>6. pc'[c] = IF kind[c] = "subscribe" THEN "done" ELSE "failPkt"
    BY <2>1 DEF TypeInv, TypeOK
  <2> QED
    BY <2>1, <2>3, <2>4, <2>5, <2>6 DEF ChannelTypes
<1>6. ASSUME NEW c \in Calls, FailPacket(c)
      PROVE  LeftInv'
  <2>1. pid[c] \in PacketIDs
    BY <1>0, <1>6 DEF FailPacket, Goto
  <2>2. /\ NoEntry(c, "pkt")'
        /\ \A d \in Calls, u \in ChannelTypes : NoEntry(d, u) => NoEntry(d, u)'
    BY <1>6, <2>1, DeleteNoEntry DEF FailPacket, ChannelTypes
  <2> QED
    BY <1>6, <2>2
       DEF FailPacket, Goto, ChannelTypes, TypeInv, TypeOK, mapVars, callVars
<1>7. ASSUME NEW c \in Calls, FailRequest(c)
      PROVE  LeftInv'
  <2>1. pid[c] \in PacketIDs
    BY <1>0, <1>7 DEF FailRequest, Goto
  <2>2. /\ NoEntry(c, "req")'
        /\ \A d \in Calls, u \in ChannelTypes : NoEntry(d, u) => NoEntry(d, u)'
    BY <1>7, <2>1, DeleteNoEntry DEF FailRequest, ChannelTypes
  <2> QED
    BY <1>7, <2>2
       DEF FailRequest, Goto, ChannelTypes, TypeInv, TypeOK, mapVars, callVars
<1>8. ASSUME NEW c \in Calls, NEW t \in ChannelTypes, getChannel(c, t)
      PROVE  LeftInv'
  <2>1. pid[c] \in PacketIDs
    BY <1>0, <1>8 DEF getChannel, Goto
  <2>2. Lookup(t, pid[c]) # c => NoEntry(c, t)
    BY <2>1, OnlyOwnEntry
  <2> QED
    BY <1>8, <1>k, <2>2, CallsAssumption
       DEF getChannel, AfterPacketError, Goto, ChannelTypes, TypeInv, TypeOK,
          mapVars, callVars
<1>9. ASSUME NEW c \in Calls, NEW t \in ChannelTypes, Receive(c, t)
      PROVE  LeftInv'
  <2>1. got'[c] # {} /\ \A d \in Calls \ {c} : got'[d] = got[d]
    BY <1>9 DEF Receive, TypeInv, TypeOK
  <2>2. /\ pc[c] = WaitState(t)
        /\ pc'[c] = IF t = "pkt" THEN "delPkt" ELSE "delReq"
        /\ \A d \in Calls \ {c} : pc'[d] = pc[d]
        /\ UNCHANGED <<packetChannels, requestChannels, kind, ch, quit>>
    BY <1>9 DEF Receive, Goto, TypeInv, TypeOK, mapVars
  <2>3. \A d, u : NoEntry(d, u)' = NoEntry(d, u)
    BY <1>k, <2>2
  <2>4. \A d \in Calls \ {c}, u \in ChannelTypes :
          Past(d, u)' => NoEntry(d, u)' \/ Leaked(d, u)'
    BY <2>1, <2>2, <2>3
  <2>5. \A u \in ChannelTypes : Past(c, u)' => NoEntry(c, u)'
    BY <2>2, <2>3 DEF ChannelTypes
  <2> QED
    BY <2>1, <2>2, <2>3, <2>4, <2>5 DEF ChannelTypes
<1>10. ASSUME NEW c \in Calls, NEW t \in ChannelTypes, ReceiveClosed(c, t)
       PROVE  LeftInv'
  <2>1. ch[c] \in Channels /\ ch[c][2] = t
    BY <1>10 DEF ReceiveClosed, Goto, TypeInv, Holding, ChannelTypes
  <2>2. ch[c][1] = c => NoEntry(c, t)
    BY <1>10, <2>1, CallsAssumption
       DEF ReceiveClosed, CloseInv, Unclosed, NoEntry, Channels
  <2>3. NoEntry(c, t)
    BY <1>10, <2>2 DEF ReceiveClosed, Goto
  <2> QED
    BY <1>10, <1>k, <2>3
       DEF ReceiveClosed, AfterPacketError, Goto, ChannelTypes, TypeInv,
          TypeOK, mapVars, callVars
<1>11. ASSUME NEW c \in Calls, NEW t \in ChannelTypes, GiveUp(c, t)
      PROVE  LeftInv'
  BY <1>11, <1>k
     DEF GiveUp, Goto, ChannelTypes, TypeInv, TypeOK, mapVars, callVars
<1>12. ASSUME NEW c \in Calls, Finish(c)
       PROVE  LeftInv'
  <2>1. pid[c] \in PacketIDs
    BY <1>0, <1>12 DEF Finish, Goto
  <2>2. PICK t \in ChannelTypes, s \in CallStates :
          /\ deleteDetails(t, pid[c])
          /\ pc' = [pc EXCEPT ![c] = s]
          /\ t = "req" => Past(c, "pkt") /\ pc[c] # "done"
          /\ s \in {"getReq", "done", "abandonReq"}
          /\ t = "pkt" /\ s = "done" =>
               \/ kind[c] = "subscribe"
               \/ pc[c] = "delPkt" /\ kind[c] = "ackOnly"
    <3> HIDE DEF LeftInv, Past, Leaked
    <3>1. kind[c] \in {"publish", "ackOnly", "subscribe"}
      BY DEF TypeInv, TypeOK, Kinds
    <3>2. CASE pc[c] = "delPkt"
      <4>1. /\ deleteDetails("pkt", pid[c])
            /\ pc' = [pc EXCEPT ![c] = AfterPacket(c)]
        BY <1>12, <3>2 DEF Finish, Goto
      <4>2. /\ AfterPacket(c) \in {"getReq", "done", "abandonReq"}
            /\ AfterPacket(c) = "done" =>
                 kind[c] = "subscribe" \/ kind[c] = "ackOnly"
        BY <3>1 DEF AfterPacket
      <4>3. /\ "pkt" \in ChannelTypes /\ "pkt" # "req"
            /\ AfterPacket(c) \in CallStates
        BY <4>2 DEF CallStates, ChannelTypes
      <4> USE <4>3
      <4> WITNESS "pkt" \in ChannelTypes, AfterPacket(c) \in CallStates
      <4> QED
        BY <3>2, <4>1, <4>2, <4>3
    <3>3. CASE pc[c] = "quitPkt"
      <4>1. /\ deleteDetails("pkt", pid[c])
            /\ pc' = [pc EXCEPT ![c] = AfterPacketError(c)]
        BY <1>12, <3>3 DEF Finish, Goto
      <4>2. /\ AfterPacketError(c) \in {"getReq", "done", "abandonReq"}
            /\ AfterPacketError(c) = "done" => kind[c] = "subscribe"
        BY DEF AfterPacketError
      <4>3. /\ "pkt" \in ChannelTypes /\ "pkt" # "req"
            /\ AfterPacketError(c) \in CallStates
        BY <4>2 DEF CallStates, ChannelTypes
      <4> USE <4>3
      <4> WITNESS "pkt" \in ChannelTypes, AfterPacketError(c) \in CallStates
      <4> QED
        BY <4>1, <4>2, <4>3
    <3>4. CASE pc[c] \in {"delReq", "quitReq", "abandonReq"}
      <4>1. /\ deleteDetails("req", pid[c])
            /\ pc' = [pc EXCEPT ![c] = "done"]
        BY <1>12, <3>4 DEF Finish, Goto
      <4>2. Past(c, "pkt") /\ pc[c] # "done"
        BY <3>4 DEF Past
      <4> QED
        BY <4>1, <4>2 DEF CallStates, ChannelTypes
    <3> QED
      BY <1>12, <3>2, <3>3, <3>4 DEF Finish, Goto
  <2>3. /\ NoEntry(c, t)'
        /\ \A d \in Calls, u \in ChannelTypes : NoEntry(d, u) => NoEntry(d, u)'
    BY <2>1, <2>2, DeleteNoEntry
  <2>4. UNCHANGED <<kind, ch, got, quit>>
    BY <1>12 DEF Finish, callVars
  <2>5. t = "pkt" /\ s = "done" => NoEntry(c, "req") \/ AckedAlone(c)
    BY <2>2
  <2>6. t = "req" => NoEntry(c, "pkt")
    BY <2>2 DEF ChannelTypes
  <2>7. pc'[c] = s /\ \A d \in Calls \ {c} : pc'[d] = pc[d]
    BY <2>2 DEF TypeInv, TypeOK
  <2>8. "req" \in ChannelTypes /\ "pkt" \in ChannelTypes
    BY DEF ChannelTypes
  <2>9. \A u \in ChannelTypes : Past(c, u)' => NoEntry(c, u)' \/ Leaked(c, u)'
    BY <2>2, <2>3, <2>4, <2>5, <2>6, <2>7 DEF ChannelTypes
  <2>10. \A d \in Calls \ {c}, u \in ChannelTypes :
           Past(d, u)' => NoEntry(d, u)' \/ Leaked(d, u)'
    BY <2>3, <2>4, <2>7
  <2> QED
    BY <2>2, <2>3, <2>4, <2>7, <2>8, <2>9, <2>10
<1>13. ASSUME NEW m \in Channels, ReadPacket(m)
      PROVE  LeftInv'
  BY <1>13, <1>k DEF ReadPacket, TypeInv, TypeOK, mapVars, callVars
<1>14. ASSUME FetchChannel
      PROVE  LeftInv'
  BY <1>14, <1>k DEF FetchChannel, TypeInv, TypeOK, mapVars, callVars
<1>15. ASSUME PushPacket
      PROVE  LeftInv'
  BY <1>15, <1>k DEF PushPacket, TypeInv, TypeOK, mapVars, callVars
<1>16. ASSUME Reconnect
      PROVE  LeftInv'
  BY <1>16, <1>k DEF Reconnect, TypeInv, TypeOK, mapVars, callVars
<1>17. ASSUME CancelAllRequests
       PROVE  LeftInv'
  <2>1. \A c \in Calls, t \in ChannelTypes : NoEntry(c, t)'
    BY <1>17, CallsAssumption DEF CancelAllRequests, NoEntry, Lookup
  <2> QED
    BY <1>17, <2>1 DEF CancelAllRequests, callVars, ChannelTypes
<1>18. ASSUME NEW m \in Channels, ServerRepeats(m)
      PROVE  LeftInv'
  BY <1>18, <1>k DEF ServerRepeats, TypeInv, TypeOK, mapVars, callVars
<1>19. CASE UNCHANGED vars
  BY <1>19, <1>k DEF vars
<1> QED
  BY <1>1, <1>2, <1>3, <1>4, <1>5, <1>6, <1>7, <1>8, <1>9, <1>10, <1>11,
     <1>12, <1>13, <1>14, <1>15, <1>16, <1>17, <1>18, <1>19
     DEF Next, CallStep, Registering, Sending, Waiting, ReaderStep

(* A request of any kind cleans up after itself on every return path -     *)
(* timeouts, lost channels, reconnects, IDs another call took over - but   *)
(* for the two leaks NeverSent and AckedAlone name.                        *)
THEOREM NothingIsLeftBehind == Spec => []NothingLeftBehind
<1>1. LeftInv => NothingLeftBehind
  <2>1. "pkt" \in ChannelTypes /\ "req" \in ChannelTypes
    BY DEF ChannelTypes
  <2> QED
    BY <2>1
       DEF LeftInv, Past, NoEntry, Lookup, Leaked, NothingLeftBehind
<1> QED
  BY InitTypeInv, NextTypeInv, InitMatchInv, NextMatchInv, InitCloseInv,
     NextCloseInv, InitLeftInv, NextLeftInv, <1>1, PTL DEF Spec

-----------------------------------------------------------------------------
(* Whatever the server says, the reader carries and a channel holds is     *)
(* about a request that was tried, and stays what it is - an ACK or a      *)
(* response - up to the caller that takes it.                              *)

Tried(c) == pc[c] \notin {"idle", "addPkt", "addReq", "send"}

NetTried == \A m \in owed \cup seen : Tried(m[1])
ReaderTried ==
  /\ reader.state # "read" => Tried(reader.msg[1])
  /\ reader.state = "push" => reader.ch[2] = reader.msg[2]
BufTried == \A x \in Channels :
  buf[x] # NoChan => buf[x][2] = x[2] /\ Tried(buf[x][1])
WaitTyped == \A c \in Calls :
  /\ pc[c] = "waitPkt" => ch[c][2] = "pkt"
  /\ pc[c] = "waitReq" => ch[c][2] = "req"

TriedInv == NetTried /\ ReaderTried /\ BufTried /\ WaitTyped

(* Nothing is under way at first.                                          *)
LEMMA InitTriedInv == Init => TriedInv
<1> SUFFICES ASSUME Init PROVE TriedInv
  OBVIOUS
<1>1. NetTried /\ ReaderTried /\ BufTried
  BY DEF Init, NetTried, ReaderTried, BufTried, IdleReader
<1>2. WaitTyped
  BY DEF Init, WaitTyped
<1> QED
  BY <1>1, <1>2 DEF TriedInv

(* A step of a call moves that call only, and never back before its send.  *)
LEMMA CallMoves ==
  ASSUME TypeInv, NEW c \in Calls, CallStep(c)
  PROVE  /\ \E s \in CallStates : pc' = [pc EXCEPT ![c] = s]
         /\ Tried(c) => Tried(c)'
<1> USE DEF CallStates, Tried, TypeInv, TypeOK
<1>1. CASE Registering(c)
  BY <1>1 DEF Registering, SafePacketID, addPacketChannel, addRequestChannel,
     Goto
<1>2. CASE Sending(c)
  BY <1>2 DEF Sending, sendDataOk, sendDataFail, FailPacket, FailRequest, Goto
<1>3. CASE Waiting(c)
  BY <1>3 DEF Waiting, getChannel, Receive, ReceiveClosed, GiveUp, Goto,
     AfterPacketError
<1>4. CASE Finish(c)
  BY <1>4 DEF Finish, Goto, AfterPacket, AfterPacketError
<1> QED
  BY <1>1, <1>2, <1>3, <1>4 DEF CallStep

(* A request that was tried stays so.                                      *)
LEMMA TriedStable ==
  ASSUME TypeInv, [Next]_vars, NEW d \in Calls, Tried(d)
  PROVE  Tried(d)'
<1>1. ASSUME NEW c \in Calls, CallStep(c) PROVE Tried(d)'
  <2>1. CASE d = c
    BY <1>1, <2>1, CallMoves
  <2>2. CASE d # c
    BY <1>1, <2>2, CallMoves DEF Tried, TypeInv, TypeOK
  <2> QED
    BY <2>1, <2>2
<1>2. CASE UNCHANGED pc
  BY <1>2 DEF Tried
<1>3. ASSUME ~ \E c \in Calls : CallStep(c) PROVE UNCHANGED pc
  BY <1>3 DEF Next, ReaderStep, ReadPacket, FetchChannel, PushPacket,
     Reconnect, CancelAllRequests, ServerRepeats, vars
<1> QED
  BY <1>1, <1>2, <1>3

(* Every step keeps the messages under way what they are.                  *)
LEMMA NextTriedInv == TypeInv /\ TriedInv /\ [Next]_vars => TriedInv'
<1> SUFFICES ASSUME TypeInv, TriedInv, [Next]_vars PROVE TriedInv'
  OBVIOUS
<1>0. \A d \in Calls : Tried(d) => Tried(d)'
  BY TriedStable
<1>a. \A x \in Channels : x[1] \in Calls /\ x[2] \in ChannelTypes
  BY DEF Channels
<1>b. /\ owed \subseteq Channels /\ seen \subseteq Channels
      /\ \A x \in Channels : buf[x] # NoChan => buf[x] \in Channels
      /\ reader.state # "read" => reader.msg \in Channels
      /\ reader.state = "push" => reader.ch \in Channels
  BY DEF TypeInv, TypeOK, Holding
<1>c. /\ UNCHANGED <<owed, seen>> => NetTried'
      /\ UNCHANGED reader => ReaderTried'
      /\ UNCHANGED buf => BufTried'
  <2> USE DEF TriedInv
  <2>1. UNCHANGED <<owed, seen>> => NetTried'
    BY <1>0, <1>a, <1>b DEF NetTried
  <2>2. UNCHANGED reader => ReaderTried'
    BY <1>0, <1>a, <1>b DEF ReaderTried
  <2>3. UNCHANGED buf => BufTried'
    BY <1>0, <1>a, <1>b DEF BufTried
  <2> QED
    BY <2>1, <2>2, <2>3
<1>d. UNCHANGED <<pc, ch>> => WaitTyped'
  BY DEF TriedInv, WaitTyped
<1>e. ASSUME NEW c \in Calls, NEW s \in CallStates, UNCHANGED ch,
             s \notin {"waitPkt", "waitReq"}, pc' = [pc EXCEPT ![c] = s]
      PROVE  WaitTyped'
  BY <1>e DEF TriedInv, WaitTyped, TypeInv, TypeOK
<1> USE DEF callVars, netVars
<1>1. ASSUME NEW c \in Calls, Registering(c) PROVE TriedInv'
  <2>1. PICK s \in {"addPkt", "addReq", "send"} : pc' = [pc EXCEPT ![c] = s]
    BY <1>1 DEF Registering, SafePacketID, addPacketChannel,
       addRequestChannel, Goto
  <2>2. UNCHANGED <<owed, seen, reader, buf, ch>>
    BY <1>1 DEF Registering, SafePacketID, addPacketChannel, addRequestChannel
  <2> QED
    BY <1>c, <1>e, <2>1, <2>2 DEF TriedInv, CallStates
<1>2. ASSUME NEW c \in Calls, sendDataOk(c) PROVE TriedInv'
  <2>1. UNCHANGED <<seen, reader, buf, ch>>
    BY <1>2 DEF sendDataOk
  <2>2. pc' = [pc EXCEPT ![c] = "getPkt"]
    BY <1>2 DEF sendDataOk, Goto
  <2>3. Tried(c)'
    BY <2>2 DEF Tried, TypeInv, TypeOK
  <2>4. \A m \in owed' : m \in owed \/ m[1] = c
    BY <1>2 DEF sendDataOk
  <2>5. NetTried'
    <3> SUFFICES ASSUME NEW m \in (owed \cup seen)' PROVE Tried(m[1])'
      BY DEF NetTried
    <3>1. CASE m \in owed \cup seen
      BY <1>0, <1>a, <1>b, <3>1 DEF TriedInv, NetTried
    <3>2. CASE m[1] = c
      BY <2>3, <3>2
    <3> QED
      BY <2>1, <2>4, <3>1, <3>2
  <2> QED
    BY <1>c, <1>e, <2>1, <2>2, <2>5 DEF TriedInv, CallStates
<1>3. ASSUME NEW c \in Calls,
             sendDataFail(c) \/ FailPacket(c) \/ FailRequest(c)
      PROVE TriedInv'
  <2>1. PICK s \in {"done", "failPkt", "failReq"} : pc' = [pc EXCEPT ![c] = s]
    BY <1>3 DEF sendDataFail, FailPacket, FailRequest, Goto
  <2>2. UNCHANGED <<owed, seen, reader, buf, ch>>
    BY <1>3 DEF sendDataFail, FailPacket, FailRequest
  <2> QED
    BY <1>c, <1>e, <2>1, <2>2 DEF TriedInv, CallStates
<1>4. ASSUME NEW c \in Calls, NEW t \in ChannelTypes, getChannel(c, t)
      PROVE TriedInv'
  <2>1. UNCHANGED <<owed, seen, reader, buf>>
    BY <1>4 DEF getChannel
  <2>2. WaitTyped'
    BY <1>4 DEF getChannel, Goto, AfterPacketError, ChannelTypes, NoChan,
       TriedInv, WaitTyped, TypeInv, TypeOK
  <2> QED
    BY <1>c, <2>1, <2>2 DEF TriedInv
<1>5. ASSUME NEW c \in Calls, NEW t \in ChannelTypes, Receive(c, t)
      PROVE TriedInv'
  <2>1. UNCHANGED <<owed, seen, reader, ch>>
    BY <1>5 DEF Receive
  <2>2. PICK s \in {"delPkt", "delReq"} : pc' = [pc EXCEPT ![c] = s]
    BY <1>5 DEF Receive, Goto
  <2>3. \A x \in Channels : buf'[x] \in {buf[x], NoChan}
    BY <1>5 DEF Receive, TypeInv, TypeOK
  <2>4. BufTried'
    BY <1>0, <1>a, <1>b, <2>3 DEF TriedInv, BufTried
  <2> QED
    BY <1>c, <1>e, <2>1, <2>2, <2>4 DEF TriedInv, CallStates
<1>6. ASSUME NEW c \in Calls, NEW t \in ChannelTypes,
             ReceiveClosed(c, t) \/ GiveUp(c, t)
      PROVE TriedInv'
  <2>1. PICK s \in {"done", "abandonReq", "quitPkt", "quitReq"} :
          pc' = [pc EXCEPT ![c] = s]
    BY <1>6 DEF ReceiveClosed, GiveUp, Goto, AfterPacketError
  <2>2. UNCHANGED <<owed, seen, reader, buf, ch>>
    BY <1>6 DEF ReceiveClosed, GiveUp
  <2> QED
    BY <1>c, <1>e, <2>1, <2>2 DEF TriedInv, CallStates
<1>7. ASSUME NEW c \in Calls, Finish(c) PROVE TriedInv'
  <2>1. PICK s \in {"getReq", "done", "abandonReq"} :
          pc' = [pc EXCEPT ![c] = s]
    BY <1>7 DEF Finish, Goto, AfterPacket, AfterPacketError
  <2>2. UNCHANGED <<owed, seen, reader, buf, ch>>
    BY <1>7 DEF Finish
  <2> QED
    BY <1>c, <1>e, <2>1, <2>2 DEF TriedInv, CallStates
<1>8. ASSUME NEW m \in Channels, ReadPacket(m) PROVE TriedInv'
  <2>1. UNCHANGED <<buf, pc, ch>> /\ m \in owed
    BY <1>8 DEF ReadPacket
  <2>2. NetTried'
    BY <1>8 DEF ReadPacket, TriedInv, NetTried, Tried
  <2>3. ReaderTried'
    BY <1>8 DEF ReadPacket, TriedInv, NetTried, ReaderTried, Tried, IdleReader
  <2> QED
    BY <1>c, <1>d, <2>1, <2>2, <2>3 DEF TriedInv
<1>9. ASSUME FetchChannel PROVE TriedInv'
  <2>1. UNCHANGED <<owed, seen, buf, pc, ch>>
    BY <1>9 DEF FetchChannel
  <2>2. ReaderTried'
    <3> DEFINE found == Lookup(Type(reader.msg), pid[reader.msg[1]])
    <3>1. CASE found = NoCall
      BY <1>9, <3>1 DEF FetchChannel, ReaderTried, IdleReader
    <3>2. CASE found # NoCall
      <4>1. reader' = [reader EXCEPT !.state = "push",
                                     !.ch = <<found, Type(reader.msg)>>]
        BY <1>9, <3>2 DEF FetchChannel
      <4>2. /\ reader'.msg = reader.msg
            /\ reader'.ch = <<found, reader.msg[2]>>
        BY <4>1 DEF TypeInv, TypeOK, Type
      <4> QED
        BY <1>9, <2>1, <4>2 DEF FetchChannel, TriedInv, ReaderTried, Tried
    <3> QED
      BY <3>1, <3>2
  <2> QED
    BY <1>c, <1>d, <2>1, <2>2 DEF TriedInv
<1>10. ASSUME PushPacket PROVE TriedInv'
  <2>1. UNCHANGED <<owed, seen, pc, ch>> /\ reader.state = "push"
    BY <1>10 DEF PushPacket
  <2>2. ReaderTried'
    BY <1>10 DEF PushPacket, ReaderTried, IdleReader
  <2>3. BufTried'
    BY <1>10, <1>b, <2>1
       DEF PushPacket, TriedInv, BufTried, ReaderTried, Tried, TypeInv, TypeOK
  <2> QED
    BY <1>c, <1>d, <2>1, <2>2, <2>3 DEF TriedInv
<1>11. ASSUME Reconnect \/ CancelAllRequests PROVE TriedInv'
  <2>1. UNCHANGED <<buf, pc, ch, reader>>
    BY <1>11 DEF Reconnect, CancelAllRequests
  <2>2. NetTried'
    BY <1>11 DEF Reconnect, CancelAllRequests, TriedInv, NetTried, Tried
  <2> QED
    BY <1>c, <1>d, <2>1, <2>2 DEF TriedInv
<1>12. ASSUME NEW m \in Channels, ServerRepeats(m) PROVE TriedInv'
  <2>1. UNCHANGED <<buf, pc, ch, reader>>
    BY <1>12 DEF ServerRepeats
  <2>2. NetTried'
    BY <1>12 DEF ServerRepeats, TriedInv, NetTried, Tried
  <2> QED
    BY <1>c, <1>d, <2>1, <2>2 DEF TriedInv
<1>13. CASE UNCHANGED vars
  BY <1>13, <1>c, <1>d DEF vars, TriedInv
<1> QED
  BY <1>1, <1>2, <1>3, <1>4, <1>5, <1>6, <1>7, <1>8, <1>9, <1>10, <1>11,
     <1>12, <1>13 DEF Next, CallStep, Sending, Waiting, ReaderStep

-----------------------------------------------------------------------------
(* The refinement.                                                         *)

(* A call that moves on moves its phase on.                                *)
LEMMA PhaseMoves ==
  ASSUME TypeInv, NEW c \in Calls, NEW s, NEW t,
         pc[c] = s, pc' = [pc EXCEPT ![c] = t]
  PROVE  /\ Rpc!Move(c, PhaseOf(s), PhaseOf(t))
         /\ PhaseOf(s) = PhaseOf(t) => Phase' = Phase
<1>1. \A d \in Calls : pc'[d] = IF d = c THEN t ELSE pc[d]
  BY DEF TypeInv, TypeOK
<1>2. \A d \in Calls :
        Phase[d] = PhaseOf(pc[d]) /\ Phase'[d] = PhaseOf(pc'[d])
  BY DEF Phase
<1>3. /\ Phase = [d \in Calls |-> Phase[d]]
      /\ Phase' = [d \in Calls |-> Phase'[d]]
  BY DEF Phase
<1>4. \A d \in Calls : Phase'[d] = IF d = c THEN PhaseOf(t) ELSE Phase[d]
  BY <1>1, <1>2
<1>5. Phase' = [Phase EXCEPT ![c] = PhaseOf(t)]
  BY <1>3, <1>4
<1>6. PhaseOf(s) = PhaseOf(t) => Phase' = Phase
  BY <1>2, <1>3, <1>4
<1> QED
  BY <1>2, <1>5, <1>6 DEF Rpc!Move

(* The phases of the states a call goes through.                           *)
LEMMA Phases ==
  /\ PhaseOf("idle") = "idle"
  /\ \A s \in {"addPkt", "addReq", "send"} : PhaseOf(s) = "asking"
  /\ \A s \in {"getPkt", "waitPkt"} : PhaseOf(s) = "sent"
  /\ \A s \in {"delPkt", "getReq", "waitReq"} : PhaseOf(s) = "acked"
  /\ \A s \in {"failPkt", "failReq", "quitPkt", "quitReq", "delReq",
                "abandonReq", "done"} : PhaseOf(s) = "over"
BY DEF PhaseOf

(* What a waiting call takes is about a tried request with its packet ID.  *)
LEMMA TakesAnswer ==
  ASSUME TypeInv, MatchInv, TriedInv,
         NEW c \in Calls, NEW t \in ChannelTypes, Receive(c, t)
  PROVE  \E d \in Rpc!Answering(c) :
           got' = [got EXCEPT ![c] = @ \cup {<<d, t>>}]
<1> DEFINE m == buf[ch[c]]
<1>1. ch[c] \in Channels /\ m \in Channels
  BY DEF Receive, Goto, TypeInv, TypeOK, Holding
<1>2. ch[c][2] = t
  BY DEF Receive, Goto, TriedInv, WaitTyped, ChannelTypes
<1>3. m[2] = t /\ Tried(m[1])
  BY <1>1, <1>2 DEF Receive, TriedInv, BufTried
<1>4. m = <<m[1], t>> /\ m[1] \in Calls
  BY <1>1, <1>3 DEF Channels
<1>5. pid[m[1]] = pid[c]
  <2>1. pid[ch[c][1]] = pid[c]
    BY DEF Receive, Goto, MatchInv, WaitMatch
  <2>2. pid[m[1]] = pid[ch[c][1]]
    BY <1>1 DEF Receive, MatchInv, BufMatch
  <2> QED
    BY <2>1, <2>2
<1>6. Phase[m[1]] \notin {"idle", "asking"}
  BY <1>3, <1>4 DEF Phase, PhaseOf, Tried
<1>7. m[1] \in Rpc!Answering(c)
  BY <1>4, <1>5, <1>6 DEF Rpc!Answering
<1>8. got' = [got EXCEPT ![c] = @ \cup {m}]
  BY DEF Receive
<1> QED
  BY <1>4, <1>7, <1>8

(* At first nobody has asked for anything.                                 *)
LEMMA InitRefines == Init => Rpc!Init
<1> SUFFICES ASSUME Init PROVE Rpc!Init
  OBVIOUS
<1>1. Phase = [c \in Calls |-> "idle"]
  BY Phases DEF Init, Phase
<1> QED
  BY <1>1 DEF Init, Rpc!Init

(* Every step of a call is one of RequestReply or changes nothing in it.   *)
LEMMA CallRefines ==
  ASSUME TypeInv, MatchInv, TriedInv, NEW c \in Calls, CallStep(c)
  PROVE  Rpc!Next \/ UNCHANGED Rpc!vars
<1> USE DEF callVars, Rpc!vars, Rpc!Next
<1>1. CASE SafePacketID(c)
  <2>1. NextPacketID \in PacketIDs
    BY PacketIDAssumption DEF NextPacketID, PacketIDs, TypeInv, TypeOK
  <2>2. Rpc!Move(c, "idle", "asking")
    BY <1>1, PhaseMoves, Phases DEF SafePacketID, Goto
  <2>3. Rpc!Ask(c)
    BY <1>1, <2>1, <2>2 DEF Rpc!Ask, SafePacketID
  <2> QED
    BY <2>3
<1>2. CASE addPacketChannel(c) \/ addRequestChannel(c)
  <2>1. Phase' = Phase
    BY <1>2, PhaseMoves, Phases DEF addPacketChannel, addRequestChannel, Goto
  <2> QED
    BY <1>2, <2>1 DEF addPacketChannel, addRequestChannel
<1>3. CASE sendDataOk(c)
  <2>1. Rpc!Move(c, "asking", "sent")
    BY <1>3, PhaseMoves, Phases DEF sendDataOk, Goto
  <2>2. Rpc!Send(c)
    BY <1>3, <2>1 DEF Rpc!Send, sendDataOk
  <2> QED
    BY <2>2
<1>4. CASE sendDataFail(c)
  <2>1. Rpc!Move(c, "asking", "over")
    BY <1>4, PhaseMoves, Phases DEF sendDataFail, Goto
  <2>2. Rpc!End(c)
    BY <1>4, <2>1 DEF Rpc!End, sendDataFail
  <2> QED
    BY <2>2
<1>5. CASE FailPacket(c) \/ FailRequest(c)
  <2>1. Phase' = Phase
    BY <1>5, PhaseMoves, Phases DEF FailPacket, FailRequest, Goto
  <2> QED
    BY <1>5, <2>1 DEF FailPacket, FailRequest
<1>6. ASSUME NEW t \in ChannelTypes, getChannel(c, t)
      PROVE Rpc!Next \/ UNCHANGED Rpc!vars
  <2>1. UNCHANGED <<pid, got>>
    BY <1>6 DEF getChannel
  <2>2. \/ Phase' = Phase
        \/ \E from \in {"sent", "acked"} : Rpc!Move(c, from, "over")
    <3>1. CASE t = "pkt"
      <4>1. PICK s \in {"waitPkt", "done", "abandonReq"} :
              pc[c] = "getPkt" /\ pc' = [pc EXCEPT ![c] = s]
        BY <1>6, <3>1 DEF getChannel, Goto, AfterPacketError
      <4>2. /\ Rpc!Move(c, PhaseOf("getPkt"), PhaseOf(s))
            /\ PhaseOf("getPkt") = PhaseOf(s) => Phase' = Phase
        BY <4>1, PhaseMoves
      <4> QED
        BY <4>2, Phases
    <3>2. CASE t = "req"
      <4>1. PICK s \in {"waitReq", "done"} :
              pc[c] = "getReq" /\ pc' = [pc EXCEPT ![c] = s]
        BY <1>6, <3>2 DEF getChannel, Goto
      <4>2. /\ Rpc!Move(c, PhaseOf("getReq"), PhaseOf(s))
            /\ PhaseOf("getReq") = PhaseOf(s) => Phase' = Phase
        BY <4>1, PhaseMoves
      <4> QED
        BY <4>2, Phases
    <3> QED
      BY <3>1, <3>2 DEF ChannelTypes
  <2>3. CASE Phase' = Phase
    BY <2>1, <2>3
  <2>4. CASE Phase' # Phase
    BY <2>1, <2>2, <2>4 DEF Rpc!End
  <2> QED
    BY <2>3, <2>4
<1>7. ASSUME NEW t \in ChannelTypes, Receive(c, t)
      PROVE Rpc!Next \/ UNCHANGED Rpc!vars
  <2>1. UNCHANGED pid
    BY <1>7 DEF Receive
  <2>2. CASE t = "pkt"
    <3>1. Rpc!Move(c, "sent", "acked")
      BY <1>7, <2>2, PhaseMoves, Phases DEF Receive, Goto
    <3>2. Rpc!Acknowledge(c)
      BY <1>7, <2>1, <2>2, <3>1, TakesAnswer DEF Rpc!Acknowledge
    <3> QED
      BY <3>2
  <2>3. CASE t = "req"
    <3>1. Rpc!Move(c, "acked", "over")
      BY <1>7, <2>3, PhaseMoves, Phases DEF Receive, Goto
    <3>2. Rpc!Answer(c)
      BY <1>7, <2>1, <2>3, <3>1, TakesAnswer DEF Rpc!Answer
    <3> QED
      BY <3>2
  <2> QED
    BY <2>2, <2>3 DEF ChannelTypes
<1>8. ASSUME NEW t \in ChannelTypes, ReceiveClosed(c, t) \/ GiveUp(c, t)
      PROVE Rpc!Next \/ UNCHANGED Rpc!vars
  <2>1. \E from \in {"sent", "acked"} : Rpc!Move(c, from, "over")
    BY <1>8, PhaseMoves, Phases
       DEF ReceiveClosed, GiveUp, Goto, AfterPacketError, ChannelTypes
  <2>2. Rpc!End(c)
    BY <1>8, <2>1 DEF Rpc!End, ReceiveClosed, GiveUp
  <2> QED
    BY <2>2
<1>9. CASE Finish(c)
  <2>1. UNCHANGED <<pid, got>>
    BY <1>9 DEF Finish
  <2>2. Phase' = Phase \/ Rpc!Move(c, "acked", "over")
    BY <1>9, PhaseMoves, Phases DEF Finish, Goto, AfterPacket, AfterPacketError
  <2>3. CASE Phase' = Phase
    BY <2>1, <2>3
  <2>4. CASE Phase' # Phase
    BY <2>1, <2>2, <2>4 DEF Rpc!End
  <2> QED
    BY <2>3, <2>4
<1> QED
  BY <1>1, <1>2, <1>3, <1>4, <1>5, <1>6, <1>7, <1>8, <1>9
     DEF CallStep, Registering, Sending, Waiting

(* So is every step of the system: only calls have anything to do with it. *)
LEMMA NextRefines ==
  TypeInv /\ MatchInv /\ TriedInv /\ [Next]_vars => [Rpc!Next]_(Rpc!vars)
<1> SUFFICES ASSUME TypeInv, MatchInv, TriedInv, [Next]_vars
             PROVE Rpc!Next \/ UNCHANGED Rpc!vars
  OBVIOUS
<1>1. CASE \E c \in Calls : CallStep(c)
  BY <1>1, CallRefines
<1>2. CASE ~ \E c \in Calls : CallStep(c)
  <2>1. UNCHANGED <<pc, pid, got>>
    BY <1>2 DEF Next, ReaderStep, ReadPacket, FetchChannel, PushPacket,
       Reconnect, CancelAllRequests, ServerRepeats, callVars, vars
  <2>2. Phase' = Phase
    BY <2>1 DEF Phase
  <2> QED
    BY <2>1, <2>2 DEF Rpc!vars
<1> QED
  BY <1>1, <1>2

(* The correlation keeps its promise: what its callers see of maps,        *)
(* channels, the reader, reconnections and repeated messages is what       *)
(* RequestReply describes.                                                 *)
THEOREM Refinement == Spec => KeepsPromise
BY InitTypeInv, NextTypeInv, InitMatchInv, NextMatchInv, InitTriedInv,
   NextTriedInv, InitRefines, NextRefines, PTL
   DEF Spec, KeepsPromise, Rpc!Spec

-----------------------------------------------------------------------------
(* What it takes to panic.                                                 *)

(* Nothing has gone wrong so far: no message was repeated, no caller has   *)
(* stopped waiting, and no two calls have the same ID.                     *)
Clean == dups = 0 /\ quit = {} /\ ~IdsCollide

(* A message on its way to a channel, and one that is there or was taken.  *)
UnderWay(m) == m \in owed \/ (reader.state # "read" /\ reader.msg = m)
Arrived(m) == buf[m] = m \/ m \in got[m[1]]

(* There are only messages about packets that were sent, ...               *)
Sent(c) == pc[c] \notin {"idle", "addPkt", "addReq", "send", "failPkt",
                         "failReq"}
AllSent == \A m \in Channels : UnderWay(m) \/ Arrived(m) => Sent(m[1])

(* ... each of them in one place.                                          *)
Once == /\ \A m \in Channels : Arrived(m) => ~UnderWay(m)
        /\ reader.state # "read" => reader.msg \notin owed

NoneQuit == \A c \in Calls : pc[c] \notin {"quitPkt", "quitReq"}

(* A call deletes its channel after it took the message out of it, ...     *)
TookIt == \A c \in Calls : /\ pc[c] = "delPkt" => <<c, "pkt">> \in got[c]
                           /\ pc[c] = "delReq" => <<c, "req">> \in got[c]

(* ... or after a reconnect has taken the channels of both maps from it.   *)
LostBoth == \A c \in Calls :
  (pc[c] = "waitPkt" /\ <<c, "pkt">> \in closed) \/ pc[c] = "abandonReq" =>
    Lookup("req", pid[c]) = NoCall

(* So the channel the reader is about to send on is open.                  *)
ReaderOpen == reader.state = "push" => reader.ch \notin closed

CleanParts ==
  /\ AllSent /\ Once /\ NoneQuit /\ TookIt /\ LostBoth /\ ReaderOpen
  /\ ~panicked
CleanInv == Clean => CleanParts

(* Without a collision everything that carries an ID is the call's own.    *)
LEMMA OwnId ==
  ASSUME TypeInv, MatchInv, TriedInv, ~IdsCollide
  PROVE  /\ \A x \in Channels : buf[x] # NoChan => buf[x] = x
         /\ reader.state = "push" => reader.ch = reader.msg
         /\ \A c \in Calls : \A m \in got[c] : m[1] = c
         /\ \A c \in Calls :
              /\ pc[c] = "waitPkt" => ch[c] = <<c, "pkt">>
              /\ pc[c] = "waitReq" => ch[c] = <<c, "req">>
         /\ \A c \in Calls, t \in ChannelTypes : pid[c] # 0 =>
              Lookup(t, pid[c]) \in {c, NoCall}
<1>1. \A c, d \in Calls : pid[c] # 0 /\ pid[c] = pid[d] => c = d
  BY DEF IdsCollide
<1>2. \A x, y \in Channels : x[1] = y[1] /\ x[2] = y[2] => x = y
  BY DEF Channels
<1>3. \A x \in Channels : x[1] \in Calls /\ x = <<x[1], x[2]>>
  BY DEF Channels
<1>4. \A x \in Channels : buf[x] # NoChan => buf[x] = x
  <2> SUFFICES ASSUME NEW x \in Channels, buf[x] # NoChan
               PROVE  buf[x] = x
    OBVIOUS
  <2>1. buf[x] \in Channels
    BY DEF TypeInv, TypeOK
  <2>2. pid[x[1]] # 0 /\ pid[buf[x][1]] = pid[x[1]] /\ buf[x][2] = x[2]
    BY DEF MatchInv, BufMatch, TriedInv, BufTried
  <2> QED
    BY <1>1, <1>2, <1>3, <2>1, <2>2
<1>5. reader.state = "push" => reader.ch = reader.msg
  <2> SUFFICES ASSUME reader.state = "push" PROVE reader.ch = reader.msg
    OBVIOUS
  <2>1. /\ reader.ch \in Channels /\ reader.msg \in Channels
        /\ pid[reader.msg[1]] # 0
    BY DEF TypeInv, Holding
  <2>2. pid[reader.ch[1]] = pid[reader.msg[1]] /\ reader.ch[2] = reader.msg[2]
    BY DEF MatchInv, ReaderMatch, TriedInv, ReaderTried
  <2> QED
    BY <1>1, <1>2, <1>3, <2>1, <2>2
<1>6. \A c \in Calls : \A m \in got[c] : m[1] = c
  <2> SUFFICES ASSUME NEW c \in Calls, NEW m \in got[c] PROVE m[1] = c
    OBVIOUS
  <2>1. m \in Channels
    BY DEF TypeInv, TypeOK
  <2> QED
    BY <1>1, <1>3, <2>1 DEF MatchInv, GotMatch
<1>7. \A c \in Calls : /\ pc[c] = "waitPkt" => ch[c] = <<c, "pkt">>
                       /\ pc[c] = "waitReq" => ch[c] = <<c, "req">>
  <2> SUFFICES ASSUME NEW c \in Calls, pc[c] \in {"waitPkt", "waitReq"}
               PROVE  ch[c] \in Channels /\ ch[c][1] = c
    BY <1>3 DEF TriedInv, WaitTyped
  <2>1. ch[c] \in Channels /\ pid[c] # 0
    BY DEF TypeInv, Holding, Started
  <2>2. pid[ch[c][1]] = pid[c]
    BY DEF MatchInv, WaitMatch
  <2> QED
    BY <1>1, <1>3, <2>1, <2>2
<1>8. ASSUME NEW c \in Calls, NEW t \in ChannelTypes, pid[c] # 0
      PROVE  Lookup(t, pid[c]) \in {c, NoCall}
  <2>1. pid[c] \in PacketIDs
    BY <1>8 DEF TypeInv, TypeOK, PacketIDs
  <2> QED
    BY <1>1, <1>8, <2>1, LookupMatch
<1> QED
  BY <1>4, <1>5, <1>6, <1>7, <1>8

(* What has gone wrong stays wrong.                                        *)
LEMMA CleanBefore ==
  ASSUME TypeInv, [Next]_vars, Clean'
  PROVE  Clean
<1>1. ~IdsCollide
  BY PidStable DEF Clean, IdsCollide
<1>2. quit \subseteq quit' /\ (dups' = dups \/ dups' = dups + 1)
  <2>1. ASSUME NEW c \in Calls, CallStep(c)
        PROVE  quit \subseteq quit' /\ dups' = dups
    BY <2>1 DEF CallStep, Registering, Sending, Waiting, Finish,
       SafePacketID, addPacketChannel, addRequestChannel, sendDataOk,
       sendDataFail, FailPacket, FailRequest, getChannel, Receive,
       ReceiveClosed, GiveUp, callVars, netVars
  <2>2. ASSUME ~ \E c \in Calls : CallStep(c)
        PROVE  quit' = quit /\ (dups' = dups \/ dups' = dups + 1)
    BY <2>2 DEF Next, ReaderStep, ReadPacket, FetchChannel, PushPacket,
       Reconnect, CancelAllRequests, ServerRepeats, callVars, netVars, vars
  <2> QED
    BY <2>1, <2>2
<1>3. dups = 0
  BY <1>2, MaxDupAssumption DEF Clean, TypeInv, TypeOK
<1> QED
  BY <1>1, <1>2, <1>3 DEF Clean

(* A step of one call that leaves the messages where they are.             *)
LEMMA MoveClean ==
  ASSUME TypeInv, CleanParts, NEW c \in Calls, NEW s \in CallStates,
         pc' = [pc EXCEPT ![c] = s], Sent(c) => Sent(c)',
         s \notin {"quitPkt", "quitReq", "delPkt", "delReq"},
         UNCHANGED <<owed, reader, buf, got>>, ~panicked',
         LostBoth', ReaderOpen'
  PROVE  CleanParts'
<1>1. \A d \in Calls : Sent(d) => Sent(d)'
  BY DEF Sent, TypeInv, TypeOK
<1>2. AllSent'
  BY <1>1 DEF CleanParts, AllSent, UnderWay, Arrived, Channels
<1>3. Once'
  BY DEF CleanParts, Once, UnderWay, Arrived
<1>4. NoneQuit' /\ TookIt'
  BY DEF CleanParts, NoneQuit, TookIt, TypeInv, TypeOK
<1> QED
  BY <1>2, <1>3, <1>4 DEF CleanParts

(* LostBoth and ReaderOpen, if maps and closed channels stay as they are.  *)
LEMMA KeepLost ==
  ASSUME TypeInv, CleanParts, NEW c \in Calls, NEW s,
         pc' = [pc EXCEPT ![c] = s], s \notin {"waitPkt", "abandonReq"},
         UNCHANGED <<requestChannels, closed, reader>>,
         \A d \in Calls \ {c} : pid'[d] = pid[d]
  PROVE  LostBoth' /\ ReaderOpen'
<1>1. \A i : Lookup("req", i)' = Lookup("req", i)
  BY DEF Lookup
<1> QED
  BY <1>1 DEF CleanParts, LostBoth, ReaderOpen, TypeInv, TypeOK, Lookup

(* deleteDetails by the owner of the channel, none of whose messages of    *)
(* this type is under way.                                                 *)
LEMMA DeleteClean ==
  ASSUME TypeInv, MatchInv, TriedInv, CleanParts, ~IdsCollide,
         NEW c \in Calls, NEW t \in ChannelTypes,
         pid[c] \in PacketIDs, deleteDetails(t, pid[c]),
         NEW s, pc' = [pc EXCEPT ![c] = s],
         s \notin {"waitPkt", "abandonReq"},
         ~UnderWay(<<c, t>>) \/ Lookup(t, pid[c]) = NoCall,
         UNCHANGED <<reader, pid>>
  PROVE  LostBoth' /\ ReaderOpen'
<1>1. \A x \in closed' : x \in closed
                         \/ (x = <<c, t>> /\ Lookup(t, pid[c]) # NoCall)
  <2>1. Lookup(t, pid[c]) \in {c, NoCall}
    BY OwnId DEF PacketIDs
  <2> QED
    BY <2>1 DEF deleteDetails
<1>2. ReaderOpen'
  <2> SUFFICES ASSUME reader.state = "push" PROVE reader.ch \notin closed'
    BY DEF ReaderOpen
  <2>1. reader.ch = reader.msg /\ UnderWay(reader.ch)
    BY OwnId DEF UnderWay
  <2>2. reader.ch \notin closed
    BY DEF CleanParts, ReaderOpen
  <2> QED
    BY <1>1, <2>1, <2>2
<1>3. LostBoth'
  <2> SUFFICES ASSUME NEW d \in Calls,
                      \/ pc'[d] = "waitPkt" /\ <<d, "pkt">> \in closed'
                      \/ pc'[d] = "abandonReq"
               PROVE  Lookup("req", pid[d])' = NoCall
    BY DEF LostBoth
  <2>1. d # c /\ pc'[d] = pc[d]
    BY DEF TypeInv, TypeOK
  <2>2. pid[d] \in PacketIDs
    BY <2>1 DEF TypeInv, TypeOK, Started, PacketIDs
  <2>3. <<d, "pkt">> \in closed' => <<d, "pkt">> \in closed
    BY <1>1, <2>1
  <2>4. Lookup("req", pid[d]) = NoCall
    BY <2>1, <2>3 DEF CleanParts, LostBoth
  <2> QED
    BY <2>2, <2>4, DeleteEffect DEF ChannelTypes
<1> QED
  BY <1>2, <1>3

(* A call that took its message, or has lost its channel to a reconnect,   *)
(* closes nothing that the reader may be about to send on.                 *)
LEMMA FinishClean ==
  ASSUME TypeInv, MatchInv, TriedInv, CleanParts, ~IdsCollide,
         NEW c \in Calls, Finish(c)
  PROVE  CleanParts'
<1>1. pid[c] \in PacketIDs
  BY DEF Finish, Goto, TypeInv, TypeOK, Started, PacketIDs
<1>2. UNCHANGED <<owed, reader, buf, got, pid>>
  BY DEF Finish, callVars, netVars
<1>3. \A t \in ChannelTypes : <<c, t>> \in got[c] => ~UnderWay(<<c, t>>)
  <2> SUFFICES ASSUME NEW t \in ChannelTypes, <<c, t>> \in got[c]
               PROVE  ~UnderWay(<<c, t>>)
    OBVIOUS
  <2>1. <<c, t>> \in Channels /\ Arrived(<<c, t>>)
    BY DEF Channels, Arrived
  <2> QED
    BY <2>1 DEF CleanParts, Once
<1>4. ~WrongAck(c)
  BY OwnId DEF WrongAck
<1>5. PICK t \in ChannelTypes, s \in {"getReq", "done"} :
        /\ deleteDetails(t, pid[c])
        /\ pc' = [pc EXCEPT ![c] = s]
        /\ ~UnderWay(<<c, t>>) \/ Lookup(t, pid[c]) = NoCall
  <2>1. CASE pc[c] = "delPkt"
    <3>1. ~UnderWay(<<c, "pkt">>)
      BY <1>3, <2>1 DEF CleanParts, TookIt, ChannelTypes
    <3> QED
      BY <2>1, <3>1 DEF Finish, Goto, AfterPacket, ChannelTypes
  <2>2. CASE pc[c] = "delReq"
    <3>1. ~UnderWay(<<c, "req">>)
      BY <1>3, <2>2 DEF CleanParts, TookIt, ChannelTypes
    <3> QED
      BY <2>2, <3>1 DEF Finish, Goto, ChannelTypes
  <2>3. CASE pc[c] = "abandonReq"
    <3>1. Lookup("req", pid[c]) = NoCall
      BY <2>3 DEF CleanParts, LostBoth
    <3> QED
      BY <2>3, <3>1 DEF Finish, Goto, ChannelTypes
  <2> QED
    BY <2>1, <2>2, <2>3 DEF Finish, Goto, CleanParts, NoneQuit
<1>6. ~panicked'
  BY <1>4 DEF Finish, CleanParts
<1>7. LostBoth' /\ ReaderOpen'
  BY <1>1, <1>2, <1>5, DeleteClean
<1>8. Sent(c)'
  BY <1>5 DEF Sent, TypeInv, TypeOK
<1> QED
  BY <1>2, <1>5, <1>6, <1>7, <1>8, MoveClean DEF CallStates

(* A call takes the message of its own channel.                            *)
LEMMA ReceiveClean ==
  ASSUME TypeInv, MatchInv, TriedInv, CleanParts, ~IdsCollide,
         NEW c \in Calls, NEW t \in ChannelTypes, Receive(c, t)
  PROVE  CleanParts'
<1> DEFINE x == <<c, t>>
<1>1. x \in Channels /\ ch[c] = x /\ buf[x] = x
  <2>1. x \in Channels /\ ch[c] = x
    BY OwnId DEF Receive, Goto, ChannelTypes, Channels
  <2> QED
    BY <2>1, OwnId DEF Receive
<1>2. PICK s \in {"delPkt", "delReq"} :
        /\ pc' = [pc EXCEPT ![c] = s]
        /\ s = IF t = "pkt" THEN "delPkt" ELSE "delReq"
  BY DEF Receive, Goto
<1>3. /\ got' = [got EXCEPT ![c] = @ \cup {x}]
      /\ buf' = [buf EXCEPT ![x] = NoChan]
  BY <1>1 DEF Receive
<1>4. UNCHANGED <<owed, reader, pid, requestChannels, closed, panicked>>
  BY DEF Receive, mapVars, netVars
<1>5. \A d \in Calls : Sent(d) => Sent(d)'
  BY <1>2 DEF Sent, TypeInv, TypeOK
<1>6. \A m \in Channels : UnderWay(m)' = UnderWay(m)
  BY <1>4 DEF UnderWay
<1>7. ASSUME NEW m \in Channels, Arrived(m)' PROVE Arrived(m)
  <2>1. CASE m = x
    BY <1>1, <2>1 DEF Arrived
  <2>2. CASE m # x
    BY <1>1, <1>3, <1>7, <2>2 DEF Arrived, Channels, TypeInv, TypeOK
  <2> QED
    BY <2>1, <2>2
<1>8. AllSent'
  BY <1>5, <1>6, <1>7 DEF CleanParts, AllSent, Channels
<1>9. Once'
  BY <1>4, <1>6, <1>7 DEF CleanParts, Once
<1>10. NoneQuit'
  BY <1>2 DEF CleanParts, NoneQuit, TypeInv, TypeOK
<1>11. TookIt'
  BY <1>2, <1>3 DEF CleanParts, TookIt, ChannelTypes, TypeInv, TypeOK
<1>12. LostBoth' /\ ReaderOpen'
  BY <1>2, <1>4, KeepLost
<1> QED
  BY <1>4, <1>8, <1>9, <1>10, <1>11, <1>12 DEF CleanParts

(* The first send of a packet is the first there is of its messages.       *)
LEMMA SendClean ==
  ASSUME TypeInv, CleanParts, NEW c \in Calls, sendDataOk(c)
  PROVE  CleanParts'
<1>1. pc[c] = "send" /\ pc' = [pc EXCEPT ![c] = "getPkt"]
  BY DEF sendDataOk, Goto
<1>2. UNCHANGED <<reader, buf, got, pid, requestChannels, closed, panicked>>
  BY DEF sendDataOk, mapVars, callVars
<1>3. \A m \in owed' : m \in owed \/ m[1] = c
  BY DEF sendDataOk
<1>4. \A m \in Channels : m[1] = c => ~UnderWay(m) /\ ~Arrived(m)
  BY <1>1 DEF CleanParts, AllSent, Sent
<1>5. Sent(c)' /\ \A d \in Calls : Sent(d) => Sent(d)'
  BY <1>1 DEF Sent, TypeInv, TypeOK
<1>6. \A m \in Channels : Arrived(m)' = Arrived(m)
  BY <1>2 DEF Arrived
<1>7. \A m \in Channels : UnderWay(m)' => UnderWay(m) \/ m[1] = c
  BY <1>2, <1>3 DEF UnderWay
<1>8. AllSent'
  BY <1>5, <1>6, <1>7 DEF CleanParts, AllSent, Channels
<1>9. Once'
  <2>1. \A m \in Channels : Arrived(m)' => ~UnderWay(m)'
    BY <1>4, <1>6, <1>7 DEF CleanParts, Once
  <2>2. ASSUME reader.state # "read" PROVE reader.msg \notin owed'
    <3>1. reader.msg \in Channels /\ UnderWay(reader.msg)
      BY <2>2 DEF TypeInv, Holding, UnderWay
    <3> QED
      BY <1>3, <1>4, <2>2, <3>1 DEF CleanParts, Once
  <2> QED
    BY <1>2, <2>1, <2>2 DEF Once
<1>10. NoneQuit' /\ TookIt'
  BY <1>1, <1>2 DEF CleanParts, NoneQuit, TookIt, TypeInv, TypeOK
<1>11. LostBoth' /\ ReaderOpen'
  BY <1>1, <1>2, KeepLost
<1> QED
  BY <1>2, <1>8, <1>9, <1>10, <1>11 DEF CleanParts

(* The reader carries a message from the network to the channel it is for. *)
LEMMA ReaderClean ==
  ASSUME TypeInv, MatchInv, CloseInv, TriedInv, CleanParts, ~IdsCollide,
         ReaderStep
  PROVE  CleanParts'
<1>0. UNCHANGED <<pc, pid, got, requestChannels, closed>>
  BY DEF ReaderStep, ReadPacket, FetchChannel, PushPacket, mapVars, callVars
<1>1. NoneQuit' /\ TookIt' /\ LostBoth'
  BY <1>0 DEF CleanParts, NoneQuit, TookIt, LostBoth, Lookup
<1>2. ASSUME \A m \in Channels : UnderWay(m)' \/ Arrived(m)' =>
                                   UnderWay(m) \/ Arrived(m)
      PROVE  AllSent'
  BY <1>0, <1>2 DEF CleanParts, AllSent, Sent
<1>3. ASSUME NEW x \in Channels, ReadPacket(x) PROVE CleanParts'
  <2>1. /\ x \in owed /\ owed' = owed \ {x} /\ reader.state = "read"
        /\ UNCHANGED <<buf, panicked>>
    BY <1>3 DEF ReadPacket
  <2>2. \/ reader'.state = "read"
        \/ reader'.state = "lookup" /\ reader'.msg = x
    BY <1>3 DEF ReadPacket, IdleReader
  <2>3. \A m \in Channels : Arrived(m)' = Arrived(m)
    BY <1>0, <2>1 DEF Arrived
  <2>4. \A m \in Channels : UnderWay(m)' => UnderWay(m)
    BY <2>1, <2>2 DEF UnderWay
  <2>5. AllSent'
    BY <1>2, <2>3, <2>4
  <2>6. Once' /\ ReaderOpen'
    BY <2>1, <2>2, <2>3, <2>4 DEF CleanParts, Once, ReaderOpen
  <2> QED
    BY <1>1, <2>1, <2>5, <2>6 DEF CleanParts
<1>4. ASSUME FetchChannel PROVE CleanParts'
  <2> DEFINE found == Lookup(Type(reader.msg), pid[reader.msg[1]])
  <2>1. reader.state = "lookup" /\ UNCHANGED <<owed, buf, panicked>>
    BY <1>4 DEF FetchChannel, netVars
  <2>2. \/ reader'.state = "read"
        \/ /\ reader'.state = "push" /\ reader'.msg = reader.msg
           /\ found # NoCall /\ reader'.ch = <<found, Type(reader.msg)>>
    BY <1>4 DEF FetchChannel, IdleReader, TypeInv, TypeOK
  <2>3. Type(reader.msg) \in ChannelTypes /\ pid[reader.msg[1]] \in PacketIDs
    BY <2>1 DEF TypeInv, TypeOK, Holding, Type, Channels, PacketIDs
  <2>4. found # NoCall => <<found, Type(reader.msg)>> \notin closed
    BY <2>3 DEF CloseInv, Unclosed
  <2>5. \A m \in Channels : Arrived(m)' = Arrived(m)
    BY <1>0, <2>1 DEF Arrived
  <2>6. \A m \in Channels : UnderWay(m)' => UnderWay(m)
    BY <2>1, <2>2 DEF UnderWay
  <2>7. AllSent'
    BY <1>2, <2>5, <2>6
  <2>8. Once'
    BY <2>1, <2>2, <2>5, <2>6 DEF CleanParts, Once
  <2>9. ReaderOpen'
    BY <1>0, <2>2, <2>4 DEF ReaderOpen
  <2> QED
    BY <1>1, <2>1, <2>7, <2>8, <2>9 DEF CleanParts
<1>5. ASSUME PushPacket PROVE CleanParts'
  <2>1. reader.state = "push" /\ reader'.state = "read" /\ UNCHANGED owed
    BY <1>5 DEF PushPacket, IdleReader, netVars
  <2>2. PICK x \in Channels :
          reader.msg = x /\ reader.ch = x /\ x \notin closed
    BY <2>1, OwnId DEF TypeInv, Holding, CleanParts, ReaderOpen
  <2>3. buf' = [buf EXCEPT ![x] = x] /\ UNCHANGED panicked
    BY <1>5, <2>2 DEF PushPacket
  <2>4. UnderWay(x) /\ ~UnderWay(x)'
    BY <2>1, <2>2 DEF UnderWay, CleanParts, Once
  <2>5. \A m \in Channels : UnderWay(m)' => UnderWay(m)
    BY <2>1 DEF UnderWay
  <2>6. \A m \in Channels : Arrived(m)' => Arrived(m) \/ m = x
    BY <1>0, <2>2, <2>3 DEF Arrived, TypeInv, TypeOK
  <2>7. AllSent'
    BY <1>2, <2>4, <2>5, <2>6
  <2>8. Once' /\ ReaderOpen'
    BY <2>1, <2>4, <2>5, <2>6 DEF CleanParts, Once, ReaderOpen
  <2> QED
    BY <1>1, <2>3, <2>7, <2>8 DEF CleanParts
<1> QED
  BY <1>3, <1>4, <1>5 DEF ReaderStep

(* A reconnect: nothing is under way any more, and every map is empty.     *)
LEMMA CancelClean ==
  ASSUME TypeInv, CleanParts, CancelAllRequests
  PROVE  CleanParts'
<1>1. /\ reader.state = "read" /\ owed' = {}
      /\ UNCHANGED <<reader, buf, got, pc, pid, panicked>>
  BY DEF CancelAllRequests, callVars
<1>2. \A m \in Channels : ~UnderWay(m)'
  BY <1>1 DEF UnderWay
<1>3. AllSent' /\ Once'
  BY <1>1, <1>2 DEF CleanParts, AllSent, Once, Arrived, Sent
<1>4. NoneQuit' /\ TookIt' /\ ReaderOpen'
  BY <1>1 DEF CleanParts, NoneQuit, TookIt, ReaderOpen
<1>5. LostBoth'
  <2>1. \A i \in PacketIDs : Lookup("req", i)' = NoCall
    BY DEF CancelAllRequests, Lookup
  <2>2. \A d \in Calls : pc[d] # "idle" => pid[d] \in PacketIDs
    BY DEF TypeInv, TypeOK, Started, PacketIDs
  <2>3. \A d \in Calls : pc[d] # "idle" => Lookup("req", pid[d])' = NoCall
    BY <1>1, <2>1, <2>2
  <2> QED
    BY <1>1, <2>3 DEF LostBoth
<1> QED
  BY <1>1, <1>3, <1>4, <1>5 DEF CleanParts

(* Steps that register, fail to send, look for a channel or lose it.       *)
LEMMA RestClean ==
  ASSUME TypeInv, MatchInv, CloseInv, TriedInv, CleanParts, ~IdsCollide,
         ~IdsCollide', quit' = {}, NEW c \in Calls,
         Registering(c) \/ Sending(c) \/ Waiting(c)
  PROVE  CleanParts'
<1>0. \A d \in Calls : pc[d] # "idle" => pid[d] \in PacketIDs
  BY DEF TypeInv, TypeOK, Started, PacketIDs
<1> USE DEF mapVars, callVars, netVars
<1>1. CASE SafePacketID(c)
  <2>1. /\ pc[c] = "idle" /\ pc' = [pc EXCEPT ![c] = "addPkt"]
        /\ UNCHANGED <<owed, reader, buf, got, panicked, requestChannels,
                       closed>>
        /\ \A d \in Calls \ {c} : pid'[d] = pid[d]
    BY <1>1 DEF SafePacketID, Goto, TypeInv, TypeOK
  <2>2. LostBoth' /\ ReaderOpen'
    BY <2>1, KeepLost
  <2>3. ~panicked'
    BY <2>1 DEF CleanParts
  <2> QED
    BY <2>1, <2>2, <2>3, MoveClean DEF Sent, CallStates
<1>2. CASE addPacketChannel(c) \/ sendDataFail(c)
  <2>1. PICK s \in {"send", "addReq", "done", "failPkt"} :
          pc' = [pc EXCEPT ![c] = s]
    BY <1>2 DEF addPacketChannel, sendDataFail, Goto
  <2>2. /\ ~Sent(c)
        /\ UNCHANGED <<owed, reader, buf, got, panicked, requestChannels,
                       closed, pid>>
    BY <1>2 DEF addPacketChannel, sendDataFail, Goto, SetEntry, Sent
  <2>3. LostBoth' /\ ReaderOpen'
    BY <2>1, <2>2, KeepLost
  <2>4. ~panicked'
    BY <2>2 DEF CleanParts
  <2> QED
    BY <2>1, <2>2, <2>3, <2>4, MoveClean DEF CallStates
<1>3. CASE addRequestChannel(c)
  <2>1. /\ pc[c] = "addReq" /\ pc' = [pc EXCEPT ![c] = "send"]
        /\ UNCHANGED <<owed, reader, buf, got, panicked, closed, pid>>
        /\ SetEntry("req", pid[c], c)
    BY <1>3 DEF addRequestChannel, Goto
  <2>2. LostBoth'
    <3> SUFFICES ASSUME NEW d \in Calls,
                        \/ pc'[d] = "waitPkt" /\ <<d, "pkt">> \in closed'
                        \/ pc'[d] = "abandonReq"
                 PROVE  Lookup("req", pid[d])' = NoCall
      BY <2>1 DEF LostBoth
    <3>1. d # c /\ pc'[d] = pc[d]
      BY <2>1 DEF TypeInv, TypeOK
    <3>2. Lookup("req", pid[d]) = NoCall
      BY <2>1, <3>1 DEF CleanParts, LostBoth
    <3>3. pid[c] \in PacketIDs /\ pid[d] \in PacketIDs
      BY <1>0, <2>1, <3>1
    <3>4. pid[d] # pid[c]
      BY <3>1, <3>3 DEF IdsCollide, PacketIDs
    <3> QED
      BY <2>1, <3>2, <3>3, <3>4, SetEntryEffect DEF ChannelTypes
  <2>3. ReaderOpen' /\ ~panicked'
    BY <2>1 DEF CleanParts, ReaderOpen
  <2> QED
    BY <2>1, <2>2, <2>3, MoveClean DEF Sent, CallStates
<1>4. CASE FailPacket(c) \/ FailRequest(c)
  <2>1. PICK t \in ChannelTypes, s \in {"failReq", "done"} :
          pc' = [pc EXCEPT ![c] = s] /\ deleteDetails(t, pid[c])
    BY <1>4 DEF FailPacket, FailRequest, Goto, ChannelTypes
  <2>2. /\ ~Sent(c) /\ pc[c] # "idle"
        /\ UNCHANGED <<owed, reader, buf, got, panicked, pid>>
    BY <1>4 DEF FailPacket, FailRequest, Goto, Sent
  <2>3. ~UnderWay(<<c, t>>)
    BY <2>2 DEF CleanParts, AllSent, Channels
  <2>4. LostBoth' /\ ReaderOpen'
    BY <1>0, <2>1, <2>2, <2>3, DeleteClean
  <2>5. ~panicked'
    BY <2>2 DEF CleanParts
  <2> QED
    BY <2>1, <2>2, <2>4, <2>5, MoveClean DEF CallStates
<1>5. ASSUME NEW t \in ChannelTypes, getChannel(c, t) PROVE CleanParts'
  <2> DEFINE found == Lookup(t, pid[c])
  <2>1. pc[c] \in {"getPkt", "getReq"} /\ Sent(c) /\ pid[c] \in PacketIDs
    BY <1>0, <1>5 DEF getChannel, Goto, Sent
  <2>2. found = c
    <3>1. found # NoCall
      BY <1>5 DEF getChannel
    <3> QED
      BY <2>1, <3>1, OwnId DEF PacketIDs
  <2>3. <<c, t>> \notin closed
    BY <2>1, <2>2, CallsAssumption DEF CloseInv, Unclosed
  <2>4. PICK s \in {"waitPkt", "waitReq"} :
          pc' = [pc EXCEPT ![c] = s] /\ (s = "waitPkt" => t = "pkt")
    BY <1>5, <2>2, CallsAssumption DEF getChannel, Goto
  <2>5. UNCHANGED <<owed, reader, buf, got, panicked, pid, requestChannels,
                    closed>>
    BY <1>5 DEF getChannel
  <2>6. LostBoth' /\ ReaderOpen'
    BY <2>3, <2>4, <2>5 DEF CleanParts, LostBoth, ReaderOpen, Lookup, TypeInv,
       TypeOK
  <2>7. ~panicked' /\ Sent(c)'
    BY <2>4, <2>5 DEF CleanParts, Sent, TypeInv, TypeOK
  <2> QED
    BY <2>4, <2>5, <2>6, <2>7, MoveClean DEF CallStates
<1>6. ASSUME NEW t \in ChannelTypes, ReceiveClosed(c, t) PROVE CleanParts'
  <2>1. PICK s \in {"done", "abandonReq"} :
          /\ pc' = [pc EXCEPT ![c] = s]
          /\ s = "abandonReq" => pc[c] = "waitPkt"
    BY <1>6 DEF ReceiveClosed, Goto, AfterPacketError
  <2>2. /\ ch[c] \in closed
        /\ UNCHANGED <<owed, reader, buf, got, panicked, pid, requestChannels,
                       closed>>
    BY <1>6 DEF ReceiveClosed
  <2>3. pc[c] = "waitPkt" => ch[c] = <<c, "pkt">>
    BY OwnId
  <2>4. LostBoth' /\ ReaderOpen'
    BY <2>1, <2>2, <2>3 DEF CleanParts, LostBoth, ReaderOpen, Lookup, TypeInv,
       TypeOK
  <2>5. ~panicked' /\ Sent(c)'
    BY <2>1, <2>2 DEF CleanParts, Sent, TypeInv, TypeOK
  <2> QED
    BY <2>1, <2>2, <2>4, <2>5, MoveClean DEF CallStates
<1>7. ~ \E t \in ChannelTypes : GiveUp(c, t)
  BY DEF GiveUp
<1> QED
  BY <1>1, <1>2, <1>3, <1>4, <1>5, <1>6, <1>7, SendClean, ReceiveClean
     DEF Registering, Sending, Waiting

(* Every step that leaves nothing wrong keeps the channel of the reader    *)
(* open and the process up.                                                *)
LEMMA NextCleanInv ==
  TypeInv /\ MatchInv /\ CloseInv /\ TriedInv /\ CleanInv /\ [Next]_vars
    => CleanInv'
<1> SUFFICES ASSUME TypeInv, MatchInv, CloseInv, TriedInv, CleanInv,
                    [Next]_vars, Clean'
             PROVE  CleanParts'
  BY DEF CleanInv
<1>0. Clean /\ CleanParts
  BY CleanBefore DEF CleanInv
<1>1. ~IdsCollide /\ ~IdsCollide' /\ quit' = {} /\ dups' = 0
  BY <1>0 DEF Clean
<1>2. ASSUME NEW c \in Calls, CallStep(c) PROVE CleanParts'
  BY <1>0, <1>1, <1>2, RestClean, FinishClean DEF CallStep
<1>3. CASE ReaderStep
  BY <1>0, <1>1, <1>3, ReaderClean
<1>4. CASE CancelAllRequests
  BY <1>0, <1>4, CancelClean
<1>5. ASSUME NEW m \in Channels, ServerRepeats(m) PROVE FALSE
  BY <1>1, <1>5, MaxDupAssumption DEF ServerRepeats, TypeInv, TypeOK
<1>6. CASE Reconnect \/ UNCHANGED vars
  <2>1. UNCHANGED <<owed, reader, buf, got, pc, pid, requestChannels, closed,
                    panicked>>
    BY <1>6 DEF Reconnect, vars, mapVars, callVars, netVars
  <2> QED
    BY <1>0, <2>1 DEF CleanParts, AllSent, Once, NoneQuit, TookIt, LostBoth,
       ReaderOpen, UnderWay, Arrived, Sent, Lookup
<1> QED
  BY <1>2, <1>3, <1>4, <1>5, <1>6 DEF Next

(* Nothing is under way at first.                                          *)
LEMMA InitCleanInv == Init => CleanInv
<1> SUFFICES ASSUME Init PROVE CleanParts
  BY DEF CleanInv
<1>1. reader.state = "read" /\ owed = {} /\ ~panicked
  BY DEF Init, IdleReader
<1>2. NoChan \notin Channels
  BY CallsAssumption DEF NoChan, Channels
<1>3. \A m \in Channels : ~UnderWay(m) /\ ~Arrived(m)
  BY <1>1, <1>2 DEF Init, UnderWay, Arrived, Channels
<1>4. AllSent /\ Once /\ ReaderOpen
  BY <1>1, <1>3 DEF AllSent, Once, ReaderOpen
<1>5. NoneQuit /\ TookIt /\ LostBoth
  BY DEF Init, NoneQuit, TookIt, LostBoth
<1> QED
  BY <1>1, <1>4, <1>5 DEF CleanParts

-----------------------------------------------------------------------------
(* What it takes for two calls to have one ID.                             *)

(* How many IDs were handed out since the call took its own, as long as    *)
(* the counter has not gone all the way round.                             *)
Age(c) == IF pid[c] <= packetsSent THEN packetsSent - pid[c]
          ELSE packetsSent + MaxPacketID - pid[c]

(* Each ID handed out since went to another call, so an ID comes up again  *)
(* only after as many calls as there are IDs.                              *)
Begun == {c \in Calls : pid[c] # 0}
AgeBounded == \A c \in Begun : packetsSent # 0 /\ Age(c) < Cardinality(Begun)
CollideLate == IdsCollide => Cardinality(Begun) > MaxPacketID
WindowInv == AgeBounded /\ CollideLate

(* No call has begun at first.                                             *)
LEMMA InitWindowInv == Init => WindowInv
BY DEF Init, WindowInv, AgeBounded, CollideLate, Begun, IdsCollide

(* Every step hands out at most one ID, to a call that has none.           *)
LEMMA NextWindowInv ==
  ASSUME IsFiniteSet(Calls)
  PROVE  TypeInv /\ WindowInv /\ [Next]_vars => WindowInv'
<1> SUFFICES ASSUME TypeInv, WindowInv, [Next]_vars PROVE WindowInv'
  OBVIOUS
<1>1. ASSUME NEW c \in Calls, SafePacketID(c) PROVE WindowInv'
  <2> DEFINE n == Cardinality(Begun)
             M == MaxPacketID
  <2>1. /\ M \in Nat \ {0} /\ packetsSent \in 0..M
        /\ \A d \in Calls : pid[d] \in 0..M
    BY PacketIDAssumption DEF TypeInv, TypeOK
  <2>2. /\ pid[c] = 0 /\ packetsSent' = NextPacketID
        /\ \A d \in Calls : pid'[d] = IF d = c THEN NextPacketID ELSE pid[d]
    BY <1>1 DEF SafePacketID, Goto, TypeInv, TypeOK, Started
  <2>3. NextPacketID \in 1..M
    BY <2>1 DEF NextPacketID
  <2>4. IsFiniteSet(Begun) /\ n \in Nat
    BY FS_Subset, FS_CardinalityType DEF Begun
  <2>5. Begun' = Begun \cup {c} /\ c \notin Begun
    BY <2>2, <2>3 DEF Begun
  <2>6. Cardinality(Begun') = n + 1
    BY <2>4, <2>5, FS_AddElement
  <2>7. ASSUME NEW d \in Begun
        PROVE  /\ Age(d) \in Nat /\ Age(d) < n
               /\ Age(d)' <= Age(d) + 1
               /\ pid[d] = NextPacketID => Age(d) = M - 1
    <3>1. packetsSent # 0 /\ Age(d) < n
      BY DEF WindowInv, AgeBounded
    <3>2. d \in Calls /\ d # c /\ pid[d] # 0 /\ pid'[d] = pid[d]
      BY <2>2, <2>5 DEF Begun
    <3>3. pid[d] \in 1..M /\ packetsSent \in 1..M
      BY <2>1, <3>1, <3>2
    <3>4. Age(d) \in Nat
      BY <2>1, <3>3 DEF Age
    <3>5. Age(d)' <= Age(d) + 1
      BY <2>1, <2>2, <3>2, <3>3 DEF Age, NextPacketID
    <3>6. pid[d] = NextPacketID => Age(d) = M - 1
      BY <2>1, <3>3 DEF Age, NextPacketID
    <3> QED
      BY <3>1, <3>4, <3>5, <3>6
  <2>8. Age(c)' = 0
    BY <2>2, <2>3 DEF Age
  <2>9. AgeBounded'
    <3> SUFFICES ASSUME NEW d \in Begun'
                 PROVE  packetsSent' # 0 /\ Age(d)' < n + 1
      BY <2>6 DEF AgeBounded
    <3>1. packetsSent' # 0
      BY <2>2, <2>3
    <3>2. CASE d = c
      BY <2>4, <2>8, <3>1, <3>2
    <3>3. CASE d \in Begun
      <4>1. Age(d)' \in Int
        BY <2>1, <2>2, <2>3, <3>3 DEF Age, Begun
      <4> QED
        BY <2>4, <2>7, <3>1, <3>3, <4>1
    <3> QED
      BY <2>5, <3>2, <3>3
  <2>10. CollideLate'
    <3> SUFFICES ASSUME IdsCollide' PROVE n + 1 > M
      BY <2>6 DEF CollideLate
    <3>1. CASE IdsCollide
      BY <2>1, <2>4, <3>1 DEF WindowInv, CollideLate
    <3>2. CASE ~IdsCollide
      <4>1. PICK d \in Calls : d # c /\ pid[d] = NextPacketID
        BY <2>2, <3>2 DEF IdsCollide
      <4>2. d \in Begun
        BY <2>3, <4>1 DEF Begun
      <4> QED
        BY <2>1, <2>4, <2>7, <4>1, <4>2
    <3> QED
      BY <3>1, <3>2
  <2> QED
    BY <2>9, <2>10 DEF WindowInv
<1>2. CASE UNCHANGED <<pid, packetsSent>>
  <2>1. Begun' = Begun /\ IdsCollide' = IdsCollide
    BY <1>2 DEF Begun, IdsCollide
  <2>2. \A c : Age(c)' = Age(c)
    BY <1>2 DEF Age
  <2> QED
    BY <1>2, <2>1, <2>2 DEF WindowInv, AgeBounded, CollideLate
<1>3. ASSUME NEW c \in Calls, CallStep(c), ~SafePacketID(c)
      PROVE  UNCHANGED <<pid, packetsSent>>
  BY <1>3 DEF CallStep, Registering, Sending, Waiting, Finish,
     addPacketChannel, addRequestChannel, sendDataOk, sendDataFail,
     FailPacket, FailRequest, getChannel, Receive, ReceiveClosed, GiveUp,
     callVars
<1>4. ASSUME ~ \E c \in Calls : CallStep(c)
      PROVE  UNCHANGED <<pid, packetsSent>>
  BY <1>4 DEF Next, ReaderStep, ReadPacket, FetchChannel, PushPacket,
     Reconnect, CancelAllRequests, ServerRepeats, callVars, vars
<1> QED
  BY <1>1, <1>2, <1>3, <1>4

(* A send on a closed channel takes the process down only after the server *)
(* repeated a message, a caller stopped waiting, or the packet ID counter  *)
(* went all the way round under a call: with fewer calls than IDs, in      *)
(* whatever order channels, ACKs, responses and reconnects come, the send  *)
(* outside the lock in updatePacketChannel and updateRequestChannel is     *)
(* safe.                                                                   *)
THEOREM PanicsHaveCause ==
  ASSUME IsFiniteSet(Calls)
  PROVE  Spec => []PanicNeedsCause
<1>1. TypeInv /\ CleanInv /\ WindowInv => PanicNeedsCause
  <2> SUFFICES ASSUME TypeInv, CleanInv, WindowInv, panicked
               PROVE  \/ dups > 0
                      \/ quit # {}
                      \/ IdsCollide /\ Cardinality(Calls) > MaxPacketID
    BY DEF PanicNeedsCause
  <2>1. ~Clean
    BY DEF CleanInv, CleanParts
  <2>2. dups \in Nat /\ MaxPacketID \in Nat
    BY MaxDupAssumption, PacketIDAssumption DEF TypeInv, TypeOK
  <2>3. ASSUME IdsCollide PROVE Cardinality(Calls) > MaxPacketID
    <3>1. /\ Cardinality(Begun) <= Cardinality(Calls)
          /\ Cardinality(Begun) \in Nat /\ Cardinality(Calls) \in Nat
      BY FS_Subset, FS_CardinalityType DEF Begun
    <3>2. Cardinality(Begun) > MaxPacketID
      BY <2>3 DEF WindowInv, CollideLate
    <3> QED
      BY <2>2, <3>1, <3>2
  <2> QED
    BY <2>1, <2>2, <2>3 DEF Clean
<1> QED
  BY InitTypeInv, NextTypeInv, InitMatchInv, NextMatchInv, InitCloseInv,
     NextCloseInv, InitTriedInv, NextTriedInv, InitCleanInv, NextCleanInv,
     InitWindowInv, NextWindowInv, <1>1, PTL DEF Spec
=============================================================================
