--------------------------- MODULE DGWSocketProofs --------------------------
(***************************************************************************)
(* Proofs about DGWSocket, for any number of connections, messages and     *)
(* pings.                                                                  *)
(***************************************************************************)
EXTENDS DGWSocket, TLAPS

USE DEF roundVars

Processes == Goroutines \cup {"main"}
Places == {"dial", "backoff", "stopped", "send subscription",
           "await subscription", "send parameters", "await parameters",
           "select", "wait", "give up", "read", "unmarshal", "repeat",
           "send", "range", "handle", "write", "ended"}
Errors == {"read", "refused", "write", "pong timeout", "no ack", "context"}

(* Where everyone is; what only the reader, the processor and readLoop do. *)
PcTyped ==
  /\ pc \in [Processes -> Places]
  /\ pc["main"] \notin {"ended", "send"}
  /\ data \in Seq(Frames)
  /\ held \in Frames \cup {NoFrame} /\ inHand \in Frames \cup {NoFrame}

(* The parts of TypeOK about counters, about the connection and about the  *)
(* frames that the reader and the processor hold.                          *)
Counters ==
  /\ rounds \in 0..MaxRounds /\ received \in 0..MaxMessages
  /\ pings \in 0..MaxPings
Flags ==
  /\ ctx \in BOOLEAN /\ open \in BOOLEAN /\ done \in BOOLEAN
  /\ err \in Errors \cup {"none"}
Holding ==
  /\ pc["reader"] \in {"unmarshal", "repeat"} => data # <<>>
  /\ (pc["reader"] = "send") <=> (held # NoFrame)
  /\ (pc["processor"] = "handle") <=> (inHand # NoFrame)

(* The channel done is closed with an error in place, and readLoop waits   *)
(* only when it is closed.                                                 *)
DoneHasError ==
  /\ done => err # "none"
  /\ pc["main"] \in {"wait", "give up"} => done

(* No goroutine of a connection outlives readLoop.                         *)
NoLeftovers ==
  ~Connected => \A g \in Goroutines : pc[g] = "ended"

Inv ==
  PcTyped /\ Counters /\ Flags /\ Holding /\ NoLeftovers /\ DoneHasError

(* Before the first connection nothing runs.                               *)
LEMMA InitInv == Init => Inv
<1> SUFFICES ASSUME Init PROVE Inv
  OBVIOUS
<1>1. Counters
  BY BoundsAssumption DEF Init, Counters
<1>2. PcTyped
  BY DEF Init, PcTyped, Processes, Places, Goroutines
<1>3. Flags
  BY DEF Init, Flags
<1>4. Holding
  <2>1. pc["reader"] = "ended" /\ pc["processor"] = "ended"
    BY DEF Init, Goroutines
  <2> QED
    BY <2>1 DEF Init, Holding
<1>5. NoLeftovers /\ DoneHasError
  BY DEF Init, NoLeftovers, DoneHasError, Connected, Goroutines
<1> QED
  BY <1>1, <1>2, <1>3, <1>4, <1>5 DEF Inv

(* A fatal error leaves an error in place, the first one.                  *)
LEMMA FatalStores ==
  ASSUME Inv, NEW e \in Errors, fatalError(e)
  PROVE  done' = TRUE /\ err' \in Errors /\ open' \in BOOLEAN
BY DEF Inv, Flags, DoneHasError, Errors, fatalError

(* What a step does to the connection: nothing or a fatal error.           *)
Fatal == UNCHANGED connVars \/ \E e \in Errors : fatalError(e)

(* fatalError closes done only with an error stored, and keeps a stored    *)
(* one.                                                                    *)
LEMMA FatalKeeps ==
  ASSUME Inv, Fatal, UNCHANGED ctx
  PROVE  Flags' /\ (done' => err' # "none") /\ (done => done')
<1>1. CASE UNCHANGED connVars
  BY <1>1 DEF Inv, Flags, DoneHasError, connVars
<1>2. ASSUME NEW e \in Errors, fatalError(e)
      PROVE Flags' /\ (done' => err' # "none") /\ (done => done')
  <2>1. done' = TRUE /\ err' \in Errors /\ open' \in BOOLEAN
    BY <1>2, FatalStores
  <2> QED
    BY <2>1 DEF Inv, Flags, Errors
<1> QED
  BY <1>1, <1>2 DEF Fatal

(* A goroutine that is still running belongs to a connection.              *)
LEMMA RunningIsConnected ==
  ASSUME Inv, NEW g \in Goroutines, pc[g] # "ended"
  PROVE  Connected
BY DEF Inv, NoLeftovers

(* While there is a connection, a process that moves leaves nothing behind *)
(* unless it is readLoop, and it returns.                                  *)
LEMMA MoveKeeps ==
  ASSUME Inv, NEW g \in Processes, NEW s \in Places, Connected,
         pc' = [pc EXCEPT ![g] = s],
         g = "main" => s \notin {"dial", "backoff", "stopped"}
  PROVE  NoLeftovers' /\ pc' \in [Processes -> Places]
BY DEF Inv, PcTyped, NoLeftovers, Connected, Processes, Goroutines

(* A step that only moves a process other than the reader, counts pings or *)
(* is fatal, keeps the invariant.                                          *)
LEMMA QuietStep ==
  ASSUME Inv, NEW g \in Processes \ {"reader"}, NEW s \in Places, Connected,
         pc' = [pc EXCEPT ![g] = s],
         g = "main" =>
           s \notin {"dial", "backoff", "stopped", "ended", "send"},
         g = "processor" => pc[g] # "handle" /\ s # "handle",
         g = "main" /\ s \in {"wait", "give up"} => done',
         UNCHANGED <<rounds, ctx, readVars, inHand>>, pings' \in 0..MaxPings,
         Fatal
  PROVE  Inv'
<1>1. NoLeftovers' /\ pc' \in [Processes -> Places]
  BY MoveKeeps
<1>2. PcTyped'
  BY <1>1 DEF Inv, PcTyped, readVars, Processes
<1>3. Counters'
  BY DEF Inv, Counters, readVars
<1>4. Flags' /\ (done' => err' # "none") /\ (done => done')
  BY FatalKeeps
<1>5. Holding'
  <2>1. pc'["reader"] = pc["reader"]
    BY DEF Inv, PcTyped, Processes, Goroutines
  <2>2. (pc'["processor"] = "handle") <=> (pc["processor"] = "handle")
    BY DEF Inv, PcTyped, Processes, Goroutines
  <2> QED
    BY <2>1, <2>2 DEF Inv, Holding, readVars
<1>6. pc'["main"] \in {"wait", "give up"} => done'
  BY <1>4 DEF Inv, DoneHasError, PcTyped, Processes
<1> QED
  BY <1>1, <1>2, <1>3, <1>4, <1>5, <1>6 DEF Inv, DoneHasError

(* The steps of connectDGW while there is no connection.                   *)
LEMMA DialInv == Inv /\ (Connect \/ DialFails \/ Backoff) => Inv'
<1> SUFFICES ASSUME Inv, Connect \/ DialFails \/ Backoff PROVE Inv'
  OBVIOUS
<1>1. CASE Connect
  <2>1. pc' \in [Processes -> Places]
    BY <1>1 DEF Connect, StartsAt, Processes, Places
  <2>2. /\ pc'["main"] = "send subscription" /\ pc'["reader"] = "read"
        /\ pc'["processor"] = "range"
    BY <1>1 DEF Connect, StartsAt, Goroutines
  <2>3. PcTyped'
    <3>1. data' = <<>> /\ held' = NoFrame /\ inHand' = NoFrame
      BY <1>1 DEF Connect
    <3>2. <<>> \in Seq(Frames)
      OBVIOUS
    <3> QED
      BY <2>1, <2>2, <3>1, <3>2 DEF PcTyped
  <2>4. Counters'
    BY <1>1, BoundsAssumption DEF Connect, Inv, Counters
  <2>5. Flags' /\ DoneHasError'
    BY <1>1, <2>2 DEF Connect, Inv, Flags, DoneHasError
  <2>6. Holding'
    BY <1>1, <2>2 DEF Connect, Holding
  <2>7. NoLeftovers'
    BY <2>2 DEF NoLeftovers, Connected
  <2> QED
    BY <2>3, <2>4, <2>5, <2>6, <2>7 DEF Inv
<1>2. CASE DialFails \/ Backoff
  <2>1. /\ ~Connected /\ UNCHANGED <<rounds, ctx, connVars, readVars, inHand,
                                     pings>>
        /\ \E s \in {"dial", "backoff", "stopped"} :
             pc' = [pc EXCEPT !["main"] = s]
    BY <1>2 DEF DialFails, Backoff, Goto, Connected
  <2>2. /\ pc' \in [Processes -> Places]
        /\ \A g \in Goroutines : pc'[g] = pc[g]
        /\ pc'["main"] \in {"dial", "backoff", "stopped"}
    BY <2>1 DEF Inv, PcTyped, Processes, Goroutines, Places
  <2>3. PcTyped'
    BY <2>1, <2>2 DEF Inv, PcTyped, readVars
  <2>4. Counters' /\ Flags' /\ DoneHasError'
    BY <2>1, <2>2
       DEF Inv, Counters, Flags, DoneHasError, readVars, connVars
  <2>5. Holding'
    BY <2>1, <2>2 DEF Inv, Holding, readVars, Goroutines
  <2>6. NoLeftovers'
    BY <2>1, <2>2 DEF Inv, NoLeftovers
  <2> QED
    BY <2>3, <2>4, <2>5, <2>6 DEF Inv
<1> QED
  BY <1>1, <1>2

(* readLoop returns when everyone it started has ended.                    *)
LEMMA ReturnInv == Inv /\ readLoopReturns => Inv'
<1> SUFFICES ASSUME Inv, readLoopReturns PROVE Inv'
  OBVIOUS
<1>1. /\ UNCHANGED <<rounds, ctx, connVars, readVars, inHand, pings>>
      /\ \A g \in Goroutines : pc[g] = "ended"
      /\ \E s \in {"backoff", "stopped"} : pc' = [pc EXCEPT !["main"] = s]
  BY DEF readLoopReturns, Goto
<1>2. /\ pc' \in [Processes -> Places]
      /\ \A g \in Goroutines : pc'[g] = pc[g]
      /\ pc'["main"] \in {"backoff", "stopped"}
  BY <1>1 DEF Inv, PcTyped, Processes, Goroutines, Places
<1>3. PcTyped'
  BY <1>1, <1>2 DEF Inv, PcTyped, readVars
<1>4. Counters' /\ Flags' /\ DoneHasError'
  BY <1>1, <1>2 DEF Inv, Counters, Flags, DoneHasError, readVars, connVars
<1>5. Holding'
  BY <1>1, <1>2 DEF Inv, Holding, readVars, Goroutines
<1>6. NoLeftovers'
  BY <1>1, <1>2 DEF NoLeftovers
<1> QED
  BY <1>3, <1>4, <1>5, <1>6 DEF Inv

(* The reader's steps and the handling of a frame.                         *)
LEMMA FrameInv ==
  Inv /\ (ReadMessage \/ ReadFails \/ Unmarshal \/ Deliver \/ HandleFrame)
    => Inv'
<1> SUFFICES ASSUME Inv, \/ ReadMessage \/ ReadFails \/ Unmarshal \/ Deliver
                         \/ HandleFrame
             PROVE Inv'
  OBVIOUS
<1>0. "reader" \in Goroutines /\ "processor" \in Goroutines
  BY DEF Goroutines
<1>a. Connected
  <2>1. pc["reader"] # "ended" \/ pc["processor"] # "ended"
    BY DEF ReadMessage, ReadFails, Unmarshal, Deliver, HandleFrame
  <2> QED
    BY <1>0, <2>1, RunningIsConnected
<1>b. Fatal /\ UNCHANGED <<rounds, ctx, pings>>
  <2>1. UNCHANGED <<rounds, ctx, pings>>
    BY DEF ReadMessage, ReadFails, Unmarshal, Deliver, HandleFrame
  <2>2. Fatal
    BY DEF ReadMessage, ReadFails, Unmarshal, Deliver, HandleFrame, Fatal,
       Errors
  <2> QED
    BY <2>1, <2>2
<1>c. Flags' /\ (done' => err' # "none") /\ (done => done')
  BY <1>b, FatalKeeps
<1>d. Counters'
  <2>1. received' \in 0..MaxMessages
    <3>1. CASE ReadMessage
      BY <3>1, BoundsAssumption DEF ReadMessage, Inv, Counters
    <3>2. CASE ReadFails \/ Unmarshal \/ Deliver \/ HandleFrame
      BY <3>2 DEF ReadFails, Unmarshal, Deliver, HandleFrame, readVars, Inv,
         Counters
    <3> QED
      BY <3>1, <3>2
  <2> QED
    BY <1>b, <2>1 DEF Inv, Counters
<1>e. /\ \A f \in Frames : f # NoFrame
      /\ \A m \in Messages : m \in Seq(Frames) /\ m # <<>>
  <2>1. \A f \in Frames : f # NoFrame
    BY DEF Frames, NoFrame
  <2>2. ASSUME NEW m \in Messages
        PROVE  \/ \E f \in Frames : m = <<f>>
               \/ \E f, g \in Frames : m = <<f, g>>
    <3>1. "data to be acked" \in Frames
      BY DEF Frames
    <3> QED
      BY <3>1 DEF Messages
  <2>3. \A f, g \in Frames :
          /\ <<f>> \in Seq(Frames) /\ <<f>> # <<>>
          /\ <<f, g>> \in Seq(Frames) /\ <<f, g>> # <<>>
    OBVIOUS
  <2> QED
    BY <2>1, <2>2, <2>3
<1>f. ASSUME pc' \in [Processes -> Places], pc'["main"] = pc["main"],
             data' \in Seq(Frames), held' \in Frames \cup {NoFrame},
             inHand' \in Frames \cup {NoFrame}, Holding'
      PROVE  Inv'
  <2>1. PcTyped'
    BY <1>f DEF Inv, PcTyped
  <2>2. NoLeftovers' /\ DoneHasError'
    BY <1>a, <1>c, <1>f DEF Inv, NoLeftovers, DoneHasError, Connected
  <2> QED
    BY <1>c, <1>d, <1>f, <2>1, <2>2 DEF Inv
<1>1. CASE ReadMessage
  <2>1. pc' = [pc EXCEPT !["reader"] = "unmarshal"] /\ data' \in Messages
        /\ UNCHANGED <<held, inHand>>
    BY <1>1 DEF ReadMessage, Goto
  <2>2. pc' \in [Processes -> Places] /\ pc'["main"] = pc["main"]
        /\ pc'["reader"] = "unmarshal" /\ pc'["processor"] = pc["processor"]
    BY <2>1 DEF Inv, PcTyped, Processes, Goroutines, Places
  <2>3. Holding'
    BY <1>1, <1>e, <2>1, <2>2 DEF ReadMessage, Inv, Holding
  <2> QED
    BY <1>e, <1>f, <2>1, <2>2, <2>3 DEF Inv, PcTyped
<1>2. CASE ReadFails
  <2>1. pc' = [pc EXCEPT !["reader"] = "ended"]
        /\ UNCHANGED <<data, held, inHand>>
    BY <1>2 DEF ReadFails, Goto, readVars
  <2>2. pc' \in [Processes -> Places] /\ pc'["main"] = pc["main"]
        /\ pc'["reader"] = "ended" /\ pc'["processor"] = pc["processor"]
    BY <2>1 DEF Inv, PcTyped, Processes, Goroutines, Places
  <2>3. Holding'
    BY <1>2, <2>1, <2>2 DEF ReadFails, Inv, Holding
  <2> QED
    BY <1>f, <2>1, <2>2, <2>3 DEF Inv, PcTyped
<1>3. CASE Unmarshal
  <2>1. data # <<>> /\ pc["reader"] = "unmarshal"
    BY <1>3 DEF Unmarshal, Inv, Holding
  <2>2. Head(data) \in Frames /\ Tail(data) \in Seq(Frames)
    BY <2>1 DEF Inv, PcTyped
  <2>3. PICK s \in {"repeat", "read", "send"} :
          /\ pc' = [pc EXCEPT !["reader"] = s]
          /\ UNCHANGED inHand
          /\ s = "repeat" => UNCHANGED <<data, held>>
          /\ s = "read" => UNCHANGED held /\ data' \in Seq(Frames)
          /\ s = "send" => held' \in Frames /\ data' \in Seq(Frames)
    <3> DEFINE f == Head(data)
    <3>1. <<>> \in Seq(Frames)
      OBVIOUS
    <3>2. CASE f \in {"open not JSON", "text"}
      BY <1>3, <3>2 DEF Unmarshal, Goto
    <3>3. CASE f = "too short"
      BY <1>3, <3>1, <3>3 DEF Unmarshal, Goto
    <3>4. CASE f \notin {"open not JSON", "text", "too short"}
      <4>1. /\ pc' = [pc EXCEPT !["reader"] = "send"]
            /\ data' \in {<<>>, Tail(data)} /\ held' = f
            /\ UNCHANGED inHand
        BY <1>3, <3>4 DEF Unmarshal, Goto
      <4> QED
        BY <2>2, <3>1, <4>1
    <3> QED
      BY <3>2, <3>3, <3>4
  <2>4. pc' \in [Processes -> Places] /\ pc'["main"] = pc["main"]
        /\ pc'["reader"] = s /\ pc'["processor"] = pc["processor"]
    BY <2>3 DEF Inv, PcTyped, Processes, Goroutines, Places
  <2>5. held = NoFrame
    BY <2>1 DEF Inv, Holding
  <2>6. Holding'
    BY <1>e, <2>1, <2>3, <2>4, <2>5 DEF Inv, Holding
  <2> QED
    BY <1>f, <2>3, <2>4, <2>6 DEF Inv, PcTyped
<1>4. CASE Deliver
  <2>1. /\ pc' = [pc EXCEPT !["reader"] = AfterFrames(data),
                            !["processor"] = "handle"]
        /\ inHand' = held /\ held' = NoFrame /\ data' = data
        /\ pc["reader"] = "send"
    BY <1>4 DEF Deliver
  <2>2. /\ AfterFrames(data) \in {"read", "unmarshal"}
        /\ AfterFrames(data) = "unmarshal" => data # <<>>
    BY DEF AfterFrames
  <2>3. pc' \in [Processes -> Places] /\ pc'["main"] = pc["main"]
        /\ pc'["reader"] = AfterFrames(data) /\ pc'["processor"] = "handle"
    BY <2>1, <2>2 DEF Inv, PcTyped, Processes, Goroutines, Places
  <2>4. held # NoFrame
    BY <2>1 DEF Inv, Holding
  <2>5. Holding'
    BY <2>1, <2>2, <2>3, <2>4 DEF Holding
  <2> QED
    BY <1>f, <2>1, <2>3, <2>5 DEF Inv, PcTyped
<1>5. CASE HandleFrame
  <2>1. PICK s \in {"send", "range"} : pc' = [pc EXCEPT !["processor"] = s]
    BY <1>5 DEF HandleFrame, Goto
  <2>2. inHand' = NoFrame /\ UNCHANGED <<data, held>>
    BY <1>5 DEF HandleFrame, readVars
  <2>3. pc' \in [Processes -> Places] /\ pc'["main"] = pc["main"]
        /\ pc'["reader"] = pc["reader"] /\ pc'["processor"] = s
    BY <2>1 DEF Inv, PcTyped, Processes, Goroutines, Places
  <2>4. Holding'
    BY <2>2, <2>3 DEF Inv, Holding
  <2> QED
    BY <1>f, <2>2, <2>3, <2>4 DEF Inv, PcTyped
<1> QED
  BY <1>1, <1>2, <1>3, <1>4, <1>5

(* Sending on outgoing: the sender and the writer move.                    *)
LEMMA TakeInv ==
  ASSUME Inv, NEW g \in {"main", "processor", "pinger"}, Take(g)
  PROVE  Inv'
<1> DEFINE s == AfterSending(g)
<1>1. /\ pc["writer"] = "select" /\ Sending(g)
      /\ pc' = [pc EXCEPT ![g] = s, !["writer"] = "write"]
      /\ UNCHANGED <<rounds, ctx, connVars, readVars, inHand, pings>>
  BY DEF Take
<1>2. Connected
  BY <1>1, RunningIsConnected DEF Goroutines
<1>3. /\ g = "main" => s \in {"await subscription", "await parameters"}
      /\ g = "processor" => s = "range" /\ pc[g] # "handle"
      /\ g = "pinger" => s = "select"
  <2>1. CASE g = "main"
    <3>1. pc["main"] \in {"send subscription", "send parameters"}
      BY <1>1, <2>1 DEF Sending, Inv, PcTyped
    <3>2. CASE pc["main"] = "send subscription"
      BY <2>1, <3>2 DEF AfterSending
    <3>3. CASE pc["main"] = "send parameters"
      BY <2>1, <3>3 DEF AfterSending
    <3> QED
      BY <2>1, <3>1, <3>2, <3>3
  <2>2. CASE g = "processor"
    BY <1>1, <2>2 DEF Sending, AfterSending
  <2>3. CASE g = "pinger"
    BY <2>3 DEF AfterSending
  <2> QED
    BY <2>1, <2>2, <2>3
<1>4. pc' \in [Processes -> Places]
  BY <1>1, <1>3 DEF Inv, PcTyped, Processes, Goroutines, Places
<1>5. /\ pc'["reader"] = pc["reader"]
      /\ pc'["processor"] = "handle" <=> pc["processor"] = "handle"
      /\ pc'["main"] \in {pc["main"], "await subscription",
                          "await parameters"}
  BY <1>1, <1>3 DEF Inv, PcTyped, Processes, Goroutines
<1>6. PcTyped'
  BY <1>1, <1>4, <1>5 DEF Inv, PcTyped, readVars
<1>7. Counters' /\ Flags' /\ DoneHasError'
  BY <1>1, <1>5 DEF Inv, Counters, Flags, DoneHasError, connVars, readVars
<1>8. Holding'
  BY <1>1, <1>5 DEF Inv, Holding, readVars
<1>9. NoLeftovers'
  BY <1>2, <1>5 DEF NoLeftovers, Connected
<1> QED
  BY <1>6, <1>7, <1>8, <1>9 DEF Inv

(* Every step keeps the invariant.                                         *)
LEMMA NextInv == Inv /\ [Next]_vars => Inv'
<1> SUFFICES ASSUME Inv, [Next]_vars PROVE Inv'
  OBVIOUS
<1>0. /\ Goroutines \subseteq Processes /\ "main" \in Processes
      /\ \A g \in {"reader", "processor", "writer", "watcher", "pinger"} :
           g \in Goroutines
  BY DEF Processes, Goroutines
<1>1. CASE Connect \/ DialFails \/ Backoff
  BY <1>1, DialInv
<1>2. CASE readLoopReturns
  BY <1>2, ReturnInv
<1>3. CASE ReadMessage \/ ReadFails \/ Unmarshal \/ Deliver \/ HandleFrame
  BY <1>3, FrameInv
<1>4. ASSUME NEW g \in {"main", "processor", "pinger"}, Take(g) PROVE Inv'
  BY <1>4, TakeInv
<1>5. CASE Disconnect \/ ConnectionCloses \/ UNCHANGED vars
  <2>1. /\ UNCHANGED <<pc, rounds, done, err, readVars, inHand, pings>>
        /\ ctx' \in BOOLEAN /\ open' \in BOOLEAN
    BY <1>5 DEF Disconnect, ConnectionCloses, vars, connVars, readVars, Inv,
       Flags
  <2>2. PcTyped' /\ Counters' /\ Flags'
    BY <2>1 DEF Inv, PcTyped, Counters, Flags, readVars
  <2>3. Holding' /\ NoLeftovers' /\ DoneHasError'
    BY <2>1 DEF Inv, Holding, NoLeftovers, DoneHasError, Connected, readVars
  <2> QED
    BY <2>2, <2>3 DEF Inv
<1> DEFINE Quiet(g, s) ==
      /\ pc' = [pc EXCEPT ![g] = s]
      /\ UNCHANGED <<rounds, ctx, readVars, inHand>>
      /\ pings' \in 0..MaxPings /\ Fatal
<1>p. pings \in 0..MaxPings
  BY DEF Inv, Counters
<1>6. CASE SubscriptionAcked \/ ParametersAcked
  <2>1. PICK s \in {"send parameters", "select"} : Quiet("main", s)
    BY <1>6, <1>p DEF SubscriptionAcked, ParametersAcked, Goto, Fatal
  <2>2. Connected
    BY <1>6 DEF SubscriptionAcked, ParametersAcked, Connected
  <2> QED
    BY <1>0, <2>1, <2>2, QuietStep DEF Places
<1>7. CASE AckTimesOut \/ LoopEnds
  <2>1. PICK s \in {"wait", "give up"} : Quiet("main", s)
    BY <1>7, <1>p DEF AckTimesOut, LoopEnds, Goto, Fatal, Errors
  <2>2. Connected
    BY <1>7 DEF AckTimesOut, LoopEnds, Connected
  <2>3. done'
    BY <1>7 DEF AckTimesOut, LoopEnds, fatalError, connVars
  <2> QED
    BY <1>0, <2>1, <2>2, <2>3, QuietStep DEF Places
<1>8. CASE WriteMessage \/ PongTimesOut \/ PingTick
  <2>1. PICK g \in {"writer", "watcher", "pinger"},
             s \in {"select", "ended", "send"} :
          Quiet(g, s) /\ pc[g] # "ended"
    <3>1. CASE WriteMessage
      BY <1>p, <3>1 DEF WriteMessage, Goto, Fatal, Errors
    <3>2. CASE PongTimesOut
      BY <1>p, <3>2 DEF PongTimesOut, Goto, Fatal, Errors
    <3>3. CASE PingTick
      <4>1. pings' \in 0..MaxPings
        BY <1>p, <3>3, BoundsAssumption DEF PingTick
      <4> QED
        BY <3>3, <4>1 DEF PingTick, Goto, Fatal
    <3> QED
      BY <1>8, <3>1, <3>2, <3>3
  <2>2. Connected
    BY <1>0, <2>1, RunningIsConnected
  <2> QED
    BY <1>0, <2>1, <2>2, QuietStep DEF Places
<1>9. CASE ProcessorEnds
  <2>1. Quiet("processor", "ended") /\ pc["processor"] = "range"
    BY <1>9, <1>p DEF ProcessorEnds, Goto, Fatal
  <2>2. Connected
    BY <1>0, <2>1, RunningIsConnected
  <2> QED
    BY <1>0, <2>1, <2>2, QuietStep DEF Places
<1>10. ASSUME NEW g \in {"writer", "watcher", "pinger"}, Ends(g) PROVE Inv'
  <2>1. Quiet(g, "ended") /\ pc[g] = "select"
    BY <1>10, <1>p DEF Ends, Goto, Fatal
  <2>2. Connected
    BY <1>0, <2>1, RunningIsConnected
  <2> QED
    BY <1>0, <2>1, <2>2, QuietStep DEF Places
<1> QED
  BY <1>1, <1>2, <1>3, <1>4, <1>5, <1>6, <1>7, <1>8, <1>9, <1>10
     DEF Next, Steps

(* The stored error is the first that was reported, and there is one as    *)
(* soon as done is closed; what was returned is it or a missing            *)
(* acknowledgement.                                                        *)
FirstInv ==
  /\ err = first
  /\ done = (first # "none")
  /\ first \in Errors \cup {"none"} /\ returned \in Errors \cup {"none"}
  /\ FirstErrorReturned

(* A fatal error becomes the first one or changes nothing.                 *)
LEMMA FatalFirst ==
  ASSUME FirstInv, NEW e \in Errors, fatalError(e), UNCHANGED returned
  PROVE  FirstInv'
<1>0. e # "none"
  BY DEF Errors
<1>1. CASE done
  BY <1>1 DEF fatalError, Reported, FirstInv, FirstErrorReturned
<1>2. CASE ~done
  <2>1. first = "none" /\ returned \in {"none", "no ack"}
    BY <1>2 DEF FirstInv, FirstErrorReturned
  <2>2. first' = e /\ err' = e /\ done' = TRUE
    BY <1>2, <2>1 DEF fatalError, Reported
  <2> QED
    BY <1>0, <2>1, <2>2 DEF FirstInv, FirstErrorReturned
<1> QED
  BY <1>1, <1>2 DEF FirstInv

(* Every step keeps the first error.                                       *)
LEMMA NextFirst == FirstInv /\ [Next]_vars => FirstInv'
<1> SUFFICES ASSUME FirstInv, [Next]_vars PROVE FirstInv'
  OBVIOUS
<1>1. CASE Connect
  BY <1>1 DEF Connect, FirstInv, FirstErrorReturned
<1>2. CASE readLoopReturns
  BY <1>2 DEF readLoopReturns, connVars, FirstInv, FirstErrorReturned, Errors
<1>3. ASSUME NEW e \in Errors, fatalError(e), UNCHANGED returned
      PROVE  FirstInv'
  BY <1>3, FatalFirst
<1>4. ASSUME UNCHANGED <<done, err, first, returned>> PROVE FirstInv'
  BY <1>4 DEF FirstInv, FirstErrorReturned
<1>5. CASE \/ Disconnect \/ ConnectionCloses \/ ReadMessage \/ PingTick
           \/ UNCHANGED vars
  BY <1>4, <1>5 DEF Disconnect, ConnectionCloses, ReadMessage, PingTick,
     vars, connVars
<1>6. CASE PongTimesOut \/ ReadFails \/ AckTimesOut
  BY <1>3, <1>6 DEF PongTimesOut, ReadFails, AckTimesOut, Errors
<1>7. CASE HandleFrame \/ WriteMessage \/ LoopEnds
  BY <1>3, <1>4, <1>7
     DEF HandleFrame, WriteMessage, LoopEnds, connVars, Errors
<1>8. CASE \/ DialFails \/ Backoff \/ Unmarshal \/ Deliver \/ ProcessorEnds
           \/ SubscriptionAcked \/ ParametersAcked
  BY <1>4, <1>8 DEF DialFails, Backoff, Unmarshal, Deliver, ProcessorEnds,
     SubscriptionAcked, ParametersAcked, connVars
<1>9. ASSUME NEW g, Take(g) \/ Ends(g) PROVE FirstInv'
  BY <1>4, <1>9 DEF Take, Ends, connVars
<1> QED
  BY <1>1, <1>2, <1>5, <1>6, <1>7, <1>8, <1>9 DEF Next, Steps

(* There is no error before the first connection.                          *)
LEMMA InitFirst == Init => FirstInv
BY DEF Init, FirstInv, FirstErrorReturned

(* Every behaviour of the DGW socket is well typed: the reader holds a     *)
(* frame exactly while it sends one, the processor while it handles one.   *)
THEOREM TypeCorrect == Spec => []TypeOK
<1>1. Inv /\ FirstInv => TypeOK
  BY DEF Inv, PcTyped, Counters, Flags, Holding, TypeOK, Errors, Processes,
     FirstInv
<1> QED
  BY InitInv, NextInv, InitFirst, NextFirst, <1>1, PTL DEF Spec

(* However the goroutines race, readLoop returns the error that ended the  *)
(* connection first, or that the handshake was not acknowledged.           *)
THEOREM FirstIsReturned == Spec => []FirstErrorReturned
<1>1. FirstInv => FirstErrorReturned
  BY DEF FirstInv
<1> QED
  BY InitFirst, NextFirst, <1>1, PTL DEF Spec

(* The error that readLoop returns is there, whoever ended the connection. *)
THEOREM ErrorStored == Spec => []ErrorIsStored
<1>1. Inv => ErrorIsStored
  BY DEF Inv, DoneHasError, ErrorIsStored
<1> QED
  BY InitInv, NextInv, <1>1, PTL DEF Spec
=============================================================================
