----------------------------- MODULE DGWSocket ------------------------------
(***************************************************************************)
(* The DGW socket, from which typing notifications of Instagram come:      *)
(* connectDGW in pkg/messagix/client.go and readLoop in                    *)
(* pkg/messagix/dgw/dgwsocket.go.                                          *)
(*                                                                         *)
(* readLoop runs five goroutines and does the handshake itself.  They talk *)
(* over two channels without a buffer: incoming from the reader to the     *)
(* processor, outgoing from the processor, the pinger and readLoop to the  *)
(* writer.  The first fatal error is stored, closes the channel done and   *)
(* the connection, and readLoop waits for all of them.                     *)
(***************************************************************************)
EXTENDS Naturals, Sequences

CONSTANTS MaxRounds,     \* connections that are made
          MaxMessages,   \* websocket messages received, of all connections
          MaxPings       \* pings sent on a connection

ASSUME BoundsAssumption ==
  MaxRounds \in Nat /\ MaxMessages \in Nat /\ MaxPings \in Nat

VARIABLES pc,          \* where connectDGW ("main") and each goroutine is
          rounds,      \* connections made
          ctx,         \* whether the context was cancelled
          open,        \* whether the connection is open
          done,        \* whether the channel done is closed
          err,         \* the error that was stored
          first,       \* history: the first fatal error of the connection
          returned,    \* the error readLoop returned for it
          data,        \* the frames left of the message that was read
          held,        \* the frame the reader is sending on incoming
          inHand,      \* the frame the processor works on
          ackSubscription, ackParameters,
          received,    \* messages received
          pings        \* pings sent on the connection
vars == <<pc, rounds, ctx, open, done, err, first, returned, data, held,
          inHand, ackSubscription, ackParameters, received, pings>>

Goroutines == {"reader", "processor", "writer", "watcher", "pinger"}

NoFrame == "none"
Frames == {"pong", "open 200", "open refused", "open not JSON", "data",
           "data to be acked", "ack", "other stream", "too short",
           "unsupported", "text"}

(* One websocket message.  What the server sends in text counts as one     *)
(* frame that cannot be read.                                              *)
Messages == {<<f>> : f \in Frames}
              \cup {<<"data to be acked", f>> : f \in Frames \ {"text"}}

Init ==
  /\ pc = [g \in Goroutines \cup {"main"} |->
             IF g = "main" THEN "dial" ELSE "ended"]
  /\ rounds = 0 /\ received = 0 /\ pings = 0
  /\ ctx = FALSE /\ open = FALSE /\ done = FALSE
  /\ err = "none" /\ first = "none" /\ returned = "none"
  /\ data = <<>> /\ held = NoFrame /\ inHand = NoFrame
  /\ ackSubscription = FALSE /\ ackParameters = FALSE

Goto(g, place) == pc' = [pc EXCEPT ![g] = place]

(* fatalError: once per connection.                                        *)
Reported(e) == first' = IF first = "none" THEN e ELSE first

MutFatalError(e) ==
  /\ done' = TRUE
  /\ err' = IF done THEN err ELSE e
  /\ open' = open
  /\ Reported(e)

MutStoreError(e) ==
  /\ done' = TRUE
  /\ err' = IF done \/ e = "pong timeout" THEN err ELSE e
  /\ open' = IF done THEN open ELSE FALSE
  /\ Reported(e)

MutLastError(e) ==
  /\ done' = TRUE
  /\ err' = e
  /\ open' = FALSE
  /\ Reported(e)

fatalError(e) ==
  /\ done' = TRUE
  /\ err' = IF done THEN err ELSE e
  /\ open' = IF done THEN open ELSE FALSE
  /\ Reported(e)

connVars == <<open, done, err, first>>
roundVars == <<rounds, returned>>
readVars == <<data, held, received>>
ackVars == <<ackSubscription, ackParameters>>

-----------------------------------------------------------------------------
(* connectDGW.                                                             *)

(* A new socket: the dial succeeds, and readLoop starts its goroutines.    *)
StartsAt(g) ==
  CASE g = "main" -> "send subscription"
    [] g = "reader" -> "read"
    [] g = "processor" -> "range"
    [] OTHER -> "select"

Connect ==
  /\ pc["main"] = "dial" /\ ~ctx /\ rounds < MaxRounds
  /\ rounds' = rounds + 1
  /\ pc' = [g \in Goroutines \cup {"main"} |-> StartsAt(g)]
  /\ open' = TRUE /\ done' = FALSE /\ pings' = 0
  /\ err' = "none" /\ first' = "none" /\ returned' = "none"
  /\ data' = <<>> /\ held' = NoFrame /\ inHand' = NoFrame
  /\ ackSubscription' = FALSE /\ ackParameters' = FALSE
  /\ UNCHANGED <<ctx, received>>

(* Not authenticated, or the dial fails, as it does without a context.     *)
DialFails ==
  /\ pc["main"] = "dial" /\ Goto("main", "backoff")
  /\ UNCHANGED <<roundVars, ctx, connVars, readVars, inHand, ackVars, pings>>

(* After the time to reconnect; a cancelled context ends the loop.         *)
Backoff ==
  /\ pc["main"] = "backoff"
  /\ Goto("main", IF ctx THEN "stopped" ELSE "dial")
  /\ UNCHANGED <<roundVars, ctx, connVars, readVars, inHand, ackVars, pings>>

(* Client.Disconnect cancels the context and closes the connection, if     *)
(* there is one by then; ForceReconnect only closes it.                    *)
Disconnect ==
  /\ ~ctx /\ ctx' = TRUE
  /\ UNCHANGED <<pc, roundVars, connVars, readVars, inHand, ackVars, pings>>

(* Closed by either of these, by the server or by the network.             *)
ConnectionCloses ==
  /\ open /\ open' = FALSE
  /\ UNCHANGED <<pc, roundVars, ctx, done, err, first, readVars, inHand,
                 ackVars, pings>>

-----------------------------------------------------------------------------
(* The reader.                                                             *)

ReadMessage ==
  /\ pc["reader"] = "read" /\ open /\ received < MaxMessages
  /\ received' = received + 1
  /\ data' \in Messages
  /\ Goto("reader", "unmarshal")
  /\ UNCHANGED <<roundVars, ctx, connVars, held, inHand, ackVars, pings>>

ReadFails ==
  /\ pc["reader"] = "read" /\ ~open
  /\ fatalError("read") /\ Goto("reader", "ended")
  /\ UNCHANGED <<roundVars, ctx, readVars, inHand, ackVars, pings>>

(* Unmarshal returns what is left after the frame.  A frame that is too    *)
(* short takes the rest of the message with it, and so does an unsupported *)
(* one.  After an OpenFrame that is not JSON, and after text, what is left *)
(* is the frame itself: the loop never gets past it.                       *)
AfterFrames(rest) == IF rest = <<>> THEN "read" ELSE "unmarshal"

Unmarshal ==
  LET frame == Head(data)
      rest == IF frame \in {"too short", "unsupported"} THEN <<>>
              ELSE Tail(data)
  IN /\ pc["reader"] = "unmarshal"
     /\ IF frame \in {"open not JSON", "text"}
        THEN Goto("reader", "repeat") /\ UNCHANGED <<data, held>>
        ELSE IF frame = "too short"
        THEN Goto("reader", "read") /\ data' = rest /\ UNCHANGED held
        ELSE Goto("reader", "send") /\ data' = rest /\ held' = frame
     /\ UNCHANGED <<roundVars, ctx, connVars, received, inHand, ackVars,
                    pings>>

(* incoming <- frame, received by the processor.                           *)
Deliver ==
  /\ pc["reader"] = "send"
  /\ pc["processor"] = "range"
  /\ pc' = [pc EXCEPT !["reader"] = AfterFrames(data),
                      !["processor"] = "handle"]
  /\ inHand' = held /\ held' = NoFrame
  /\ UNCHANGED <<roundVars, ctx, connVars, data, received, ackVars, pings>>

-----------------------------------------------------------------------------
(* The processor.  A typing notification goes to the client's event        *)
(* handler, which returns.                                                 *)

HandleFrame ==
  /\ pc["processor"] = "handle" /\ inHand' = NoFrame
  /\ Goto("processor",
          IF inHand = "data to be acked" THEN "send" ELSE "range")
  /\ ackSubscription' = (ackSubscription \/ inHand = "open 200")
  /\ ackParameters' = (ackParameters \/ inHand = "ack")
  /\ IF inHand = "open refused" THEN fatalError("refused")
     ELSE UNCHANGED connVars
  /\ UNCHANGED <<roundVars, ctx, readVars, pings>>

(* The reader has closed incoming.                                         *)
ProcessorEnds ==
  /\ pc["processor"] = "range" /\ pc["reader"] = "ended"
  /\ Goto("processor", "ended")
  /\ UNCHANGED <<roundVars, ctx, connVars, readVars, inHand, ackVars, pings>>

-----------------------------------------------------------------------------
(* The writer and those who send to it.                                    *)

Sending(g) ==
  pc[g] \in {"send", "send subscription", "send parameters"} /\ g # "reader"

AfterSending(g) ==
  CASE g = "pinger" -> "select"
    [] g = "processor" -> "range"
    [] g = "main" /\ pc[g] = "send subscription" -> "await subscription"
    [] OTHER -> "await parameters"

(* outgoing <- frame.                                                      *)
Take(g) ==
  /\ pc["writer"] = "select" /\ Sending(g)
  /\ pc' = [pc EXCEPT ![g] = AfterSending(g), !["writer"] = "write"]
  /\ UNCHANGED <<roundVars, ctx, connVars, readVars, inHand, ackVars, pings>>

(* A failure to write is fatal, but the writer goes on.                    *)
WriteMessage ==
  /\ pc["writer"] = "write" /\ Goto("writer", "select")
  /\ IF open THEN UNCHANGED connVars ELSE fatalError("write")
  /\ UNCHANGED <<roundVars, ctx, readVars, inHand, ackVars, pings>>

Ends(g) ==
  /\ pc[g] = "select" /\ done /\ Goto(g, "ended")
  /\ UNCHANGED <<roundVars, ctx, connVars, readVars, inHand, ackVars, pings>>

(* No pong for PongTimeout.                                                *)
PongTimesOut ==
  /\ pc["watcher"] = "select"
  /\ fatalError("pong timeout") /\ Goto("watcher", "ended")
  /\ UNCHANGED <<roundVars, ctx, readVars, inHand, ackVars, pings>>

PingTick ==
  /\ pc["pinger"] = "select" /\ pings < MaxPings
  /\ pings' = pings + 1 /\ Goto("pinger", "send")
  /\ UNCHANGED <<roundVars, ctx, connVars, readVars, inHand, ackVars>>

-----------------------------------------------------------------------------
(* readLoop.                                                               *)

SubscriptionAcked ==
  /\ pc["main"] = "await subscription" /\ ackSubscription
  /\ Goto("main", "send parameters")
  /\ UNCHANGED <<roundVars, ctx, connVars, readVars, inHand, ackVars, pings>>

ParametersAcked ==
  /\ pc["main"] = "await parameters" /\ ackParameters
  /\ Goto("main", "select")
  /\ UNCHANGED <<roundVars, ctx, connVars, readVars, inHand, ackVars, pings>>

(* AckTimeout, or the context was cancelled: readLoop will return this     *)
(* error of its own.  (So it would one of getTypingIndicatorParametersFrame *)
(* between the two, without a wait; but that only marshals constants.)     *)
AckTimesOut ==
  /\ pc["main"] \in {"await subscription", "await parameters"}
  /\ fatalError("no ack") /\ Goto("main", "give up")
  /\ UNCHANGED <<roundVars, ctx, readVars, inHand, ackVars, pings>>

MutLoopEnds ==
  /\ pc["main"] = "select" /\ done
  /\ Goto("main", "wait") /\ UNCHANGED connVars
  /\ UNCHANGED <<roundVars, ctx, readVars, inHand, ackVars, pings>>

LoopEnds ==
  /\ pc["main"] = "select" /\ (done \/ ctx)
  /\ IF done THEN UNCHANGED connVars ELSE fatalError("context")
  /\ Goto("main", "wait")
  /\ UNCHANGED <<roundVars, ctx, readVars, inHand, ackVars, pings>>

(* wg.Wait and the return: of the stored error, or of the missing          *)
(* acknowledgement; connectDGW looks at the context.                       *)
readLoopReturns ==
  /\ pc["main"] \in {"wait", "give up"}
  /\ \A g \in Goroutines : pc[g] = "ended"
  /\ returned' = IF pc["main"] = "wait" THEN err ELSE "no ack"
  /\ Goto("main", IF ctx THEN "stopped" ELSE "backoff")
  /\ UNCHANGED <<rounds, ctx, connVars, readVars, inHand, ackVars, pings>>

-----------------------------------------------------------------------------
Steps ==
  \/ DialFails \/ Backoff
  \/ ReadFails \/ Unmarshal \/ Deliver \/ HandleFrame \/ ProcessorEnds
  \/ WriteMessage
  \/ SubscriptionAcked \/ ParametersAcked \/ AckTimesOut
  \/ LoopEnds \/ readLoopReturns

Next ==
  \/ Connect \/ Disconnect \/ ConnectionCloses \/ ReadMessage
  \/ PongTimesOut \/ PingTick
  \/ Steps
  \/ \E g \in {"main", "processor", "pinger"} : Take(g)
  \/ \E g \in {"writer", "watcher", "pinger"} : Ends(g)

Spec == Init /\ [][Next]_vars

(* Every goroutine runs, and the timeouts of the handshake and of the      *)
(* reconnection come.  Nothing is assumed of the server.                   *)
Fairness ==
  /\ WF_vars(DialFails) /\ WF_vars(Backoff)
  /\ WF_vars(ReadFails) /\ WF_vars(Unmarshal) /\ WF_vars(Deliver)
  /\ WF_vars(HandleFrame) /\ WF_vars(ProcessorEnds)
  /\ WF_vars(WriteMessage) /\ WF_vars(AckTimesOut)
  /\ WF_vars(LoopEnds) /\ WF_vars(readLoopReturns)
  /\ \A g \in {"main", "processor", "pinger"} : WF_vars(Take(g))
  /\ \A g \in {"writer", "watcher", "pinger"} : WF_vars(Ends(g))

FairSpec == Spec /\ Fairness

-----------------------------------------------------------------------------
(* Properties.                                                             *)

(* The reader has a frame to send exactly when it is sending one, and the  *)
(* processor works on one exactly when it has one.                         *)
TypeOK ==
  /\ DOMAIN pc = Goroutines \cup {"main"}
  /\ rounds \in 0..MaxRounds /\ received \in 0..MaxMessages
  /\ pings \in 0..MaxPings
  /\ ctx \in BOOLEAN /\ open \in BOOLEAN /\ done \in BOOLEAN
  /\ {err, first, returned} \subseteq
       {"none", "read", "refused", "write", "pong timeout", "no ack",
        "context"}
  /\ pc["reader"] \in {"unmarshal", "repeat"} => data # <<>>
  /\ (pc["reader"] = "send") <=> (held # NoFrame)
  /\ (pc["processor"] = "handle") <=> (inHand # NoFrame)

Connected == pc["main"] \notin {"dial", "backoff", "stopped"}

(* "It's wrapped in Once so only the first error is stored": what readLoop *)
(* returns is the error that ended the connection, and none that follows   *)
(* from it, as the reader's once the connection is closed, however the     *)
(* five goroutines race.  The one exception is a handshake that was not    *)
(* over: then it is the missing acknowledgement, whatever came first.      *)
FirstErrorReturned ==
  returned # "none" => returned = first \/ returned = "no ack"

(* readLoop ends with return *s.err.Load(): an error is stored by the time *)
(* it waits for the goroutines, whoever ended the connection.              *)
ErrorIsStored ==
  pc["main"] \in {"wait", "give up"} => err # "none" /\ done

(* The two ways readLoop gets stuck: someone sends to a writer that has    *)
(* ended, or the reader repeats a frame it cannot read.                    *)
Stuck ==
  \/ pc["writer"] = "ended" /\ \E g \in DOMAIN pc : Sending(g)
  \/ pc["reader"] = "repeat"

(* After a fatal error readLoop returns, and after Disconnect connectDGW   *)
(* stops, unless they are stuck in one of the two ways.                    *)
EndsUnlessStuck ==
  /\ (Connected /\ done) ~> (~Connected \/ Stuck)
  /\ ctx ~> (pc["main"] = "stopped" \/ Stuck)

(* What the comment on fatalError says: it stores the error "so that it    *)
(* can be returned from the main loop".                                    *)
ErrorIsReturned == (Connected /\ done) ~> ~Connected
=============================================================================
