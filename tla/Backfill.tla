------------------------------ MODULE Backfill ------------------------------
(***************************************************************************)
(* History of one thread: FetchMessages, the backfill collector and the    *)
(* handlers of the server's answers (pkg/connector/backfill.go), with      *)
(* UpsertMessages.Join of pkg/messagix/table/wrappedmessage.go.            *)
(*                                                                         *)
(* The thread has the messages 1..Last, named by their timestamps.  A      *)
(* request asks for what comes before a timestamp; its answer is not a     *)
(* response but an upsert that the table loop handles whenever it comes,   *)
(* late or never.  Three kinds of goroutine take part: the fetches, the    *)
(* table loop, and the server's side ("wire").  Messages are kept as a     *)
(* set: wrapBackfillEvents sorts them and removes duplicates.              *)
(***************************************************************************)
EXTENDS Naturals, FiniteSets

CONSTANTS Fetches,      \* goroutines, each making one call of FetchMessages
          NoFetch,      \* the absent entry of backfillCollectors
          Last,         \* bound: number of messages in the thread
          Count,        \* FetchMessagesParams.Count
          PageSize,     \* bound: messages in one answer
          TimeoutTicks, \* five-second ticks to the timeout: 2, 3 or 6
          MaxReRequests, \* MaxBackfillReRequests; 1 in the code
          MaxWire       \* bound: equal requests on the wire

ASSUME FetchAssumption == NoFetch \notin Fetches
ASSUME SizeAssumption == /\ Last \in Nat \ {0} /\ Count \in Nat \ {0}
                         /\ PageSize \in Nat \ {0} /\ MaxWire \in Nat \ {0}
ASSUME TimeAssumption == TimeoutTicks \in Nat \ {0} /\ MaxReRequests \in Nat

Messages == 1..Last
NoAnchor == 0

(* A request, by the fetch it was made for and its reference timestamp.    *)
(* Only the history variable mixed looks at the fetch: nothing in the      *)
(* answer says whom it is for.                                             *)
Requests == Fetches \X Messages

(* UpsertMessages with the Range fields that matter, the parameters of the *)
(* collector, and oldest, the timestamp the first request was made with.   *)
Collectors ==
  [msgs : SUBSET Messages, min : 0..Last, more : BOOLEAN, left : 0..Count,
   forward : BOOLEAN, anchor : 0..Last, oldest : 0..Last, top : 0..Last]
NoCollector == [msgs |-> {}, min |-> 0, more |-> FALSE, left |-> 0,
                forward |-> FALSE, anchor |-> 0, oldest |-> 0, top |-> 0]

FetchStates == {"idle", "request", "waiting", "wrap", "remove", "returned"}
Results == [ok : BOOLEAN, msgs : SUBSET Messages, more : BOOLEAN]
NoResult == [ok |-> FALSE, msgs |-> {}, more |-> TRUE]

VARIABLES
  registered, \* backfillCollectors[thread]: whose collector it is
  st,         \* per fetch: where it is
  col,        \* per fetch: its collector
  done,       \* fetches whose doneCh has been closed
  ticks,      \* per fetch: timeouts
  result,     \* per fetch: what FetchMessages returned
  wire,       \* per request: how many like it are yet to be answered
  deleting,   \* the table loop is between Done and delete in
              \* handleUpdateExistingMessageRange
  robbed,     \* history: fetches whose entry that delete took
  mixed       \* history: fetches whose collector got an answer to another's

vars == <<registered, st, col, done, ticks, result, wire, deleting, robbed,
          mixed>>
history == <<robbed, mixed>>

TypeOK ==
  /\ registered \in Fetches \cup {NoFetch}
  /\ st \in [Fetches -> FetchStates]
  /\ col \in [Fetches -> Collectors]
  /\ done \in SUBSET Fetches
  /\ ticks \in [Fetches -> 0..TimeoutTicks]
  /\ result \in [Fetches -> Results]
  /\ wire \in [Requests -> 0..MaxWire]
  /\ deleting \in BOOLEAN
  /\ robbed \in SUBSET Fetches
  /\ mixed \in SUBSET Fetches

Init ==
  /\ registered = NoFetch
  /\ st = [f \in Fetches |-> "idle"]
  /\ col = [f \in Fetches |-> NoCollector]
  /\ done = {}
  /\ ticks = [f \in Fetches |-> 0]
  /\ result = [f \in Fetches |-> NoResult]
  /\ wire = [q \in Requests |-> 0]
  /\ deleting = FALSE
  /\ robbed = {}
  /\ mixed = {}

Goto(f, from, to) == st[f] = from /\ st' = [st EXCEPT ![f] = to]

(* wrapBackfillEvents: what the bridge gets of the collected messages.     *)
wrapBackfillEvents(c) ==
  {m \in c.msgs : \/ c.anchor = NoAnchor
                  \/ c.forward /\ m > c.anchor
                  \/ ~c.forward /\ m < c.anchor}
Success(c) == [ok |-> TRUE, msgs |-> wrapBackfillEvents(c), more |-> c.more]

-----------------------------------------------------------------------------
(* FetchMessages.                                                          *)

(* A forward fetch comes with the messages lo..hi of the resync and, in a  *)
(* room that has messages, the newest of them as the anchor; a backward    *)
(* fetch has the oldest one.                                               *)
Bundle(lo, hi, anchor) ==
  [msgs |-> lo..hi, min |-> lo, more |-> lo > 1, left |-> Count,
   forward |-> TRUE, anchor |-> anchor, oldest |-> lo, top |-> hi]
FromAnchor(anchor) ==
  [msgs |-> {}, min |-> anchor, more |-> TRUE, left |-> Count,
   forward |-> FALSE, anchor |-> anchor, oldest |-> anchor, top |-> anchor - 1]

(* The bundle is enough, or reaches back to the anchor.                    *)
Enough(c) ==
  c.forward /\ \/ Cardinality(c.msgs) >= Count
               \/ c.anchor # NoAnchor /\ c.min <= c.anchor

FetchBundled(f, c) ==
  /\ Enough(c)
  /\ Goto(f, "idle", "returned")
  /\ col' = [col EXCEPT ![f] = c]
  /\ result' = [result EXCEPT ![f] = Success(c)]
  /\ UNCHANGED <<registered, done, ticks, wire, deleting, history>>

(* One collector per thread: a second fetch fails at once.                 *)
addBackfillCollector(f, c) ==
  /\ ~Enough(c)
  /\ IF registered = NoFetch
       THEN /\ Goto(f, "idle", "request") /\ registered' = f
       ELSE Goto(f, "idle", "returned") /\ UNCHANGED registered
  /\ col' = [col EXCEPT ![f] = c]
  /\ UNCHANGED <<done, ticks, result, wire, deleting, history>>

MutAskedBelow(f, r) ==
  IF r > 1 /\ wire[<<f, r - 1>>] < MaxWire
    THEN {wire, [wire EXCEPT ![<<f, r - 1>>] = @ + 1]} ELSE {wire}
(* A request for what comes before r reaches the server, or does not.      *)
(* (The Mut* operators are faulty variants of the definition after them,   *)
(* used only to show that the properties notice the fault.)                *)
Asked(f, r) ==
  IF wire[<<f, r>>] < MaxWire
    THEN {wire, [wire EXCEPT ![<<f, r>>] = @ + 1]} ELSE {wire}

(* The first requestMoreHistory, which may fail.                           *)
RequestHistory(f) ==
  /\ \/ Goto(f, "request", "waiting") /\ wire' \in Asked(f, col[f].oldest)
     \/ Goto(f, "request", "remove") /\ UNCHANGED wire
  /\ UNCHANGED <<registered, col, done, ticks, result, deleting, history>>

(* <-doneCh                                                                *)
CollectorDone(f) ==
  /\ f \in done
  /\ Goto(f, "waiting", "remove")
  /\ result' = [result EXCEPT ![f] = Success(col[f])]
  /\ UNCHANGED <<registered, col, done, ticks, wire, deleting, history>>

(* <-ticker.C: a forward fetch whose collector has not moved returns what  *)
(* it has; else a timeout; else ask again, once, with the first timestamp. *)
MutNoTimeout(f) ==
  /\ ticks[f] < TimeoutTicks
  /\ ticks' = [ticks EXCEPT ![f] = @ + 1]
  /\ \/ /\ col[f].forward /\ col[f].min >= col[f].oldest
        /\ Goto(f, "waiting", "wrap")
        /\ UNCHANGED wire
     \/ /\ ~(col[f].forward /\ col[f].min >= col[f].oldest)
        /\ Goto(f, "waiting", "waiting")
        /\ IF ticks[f] < MaxReRequests THEN wire' \in Asked(f, col[f].oldest)
           ELSE UNCHANGED wire
  /\ UNCHANGED <<registered, col, done, result, deleting, history>>
Tick(f) ==
  /\ ticks' = [ticks EXCEPT ![f] = @ + 1]
  /\ \/ /\ col[f].forward /\ col[f].min >= col[f].oldest
        /\ Goto(f, "waiting", "wrap")
        /\ UNCHANGED wire
     \/ /\ ~(col[f].forward /\ col[f].min >= col[f].oldest)
        /\ ticks[f] + 1 >= TimeoutTicks
        /\ Goto(f, "waiting", "remove")
        /\ UNCHANGED wire
     \/ /\ ~(col[f].forward /\ col[f].min >= col[f].oldest)
        /\ ticks[f] + 1 < TimeoutTicks
        /\ Goto(f, "waiting", "waiting")
        /\ IF ticks[f] < MaxReRequests THEN wire' \in Asked(f, col[f].oldest)
           ELSE UNCHANGED wire
  /\ UNCHANGED <<registered, col, done, result, deleting, history>>

(* The second request fails, or the context is done.                       *)
FetchFails(f) ==
  /\ Goto(f, "waiting", "remove")
  /\ UNCHANGED <<registered, col, done, ticks, result, wire, deleting,
                 history>>

(* The collector is still registered while wrapBackfillEvents runs after a *)
(* tick: what is joined meanwhile, without a lock, may or may not be seen. *)
WrapAfterTick(f) ==
  /\ Goto(f, "wrap", "remove")
  /\ \E ms \in {col[f].msgs, col[f].msgs \cap col[f].oldest..col[f].top} :
       result' = [result EXCEPT ![f] = Success([col[f] EXCEPT !.msgs = ms])]
  /\ UNCHANGED <<registered, col, done, ticks, wire, deleting, history>>

MutRemoveAny(f) ==
  /\ Goto(f, "remove", "returned")
  /\ registered' = NoFetch
  /\ UNCHANGED <<col, done, ticks, result, wire, deleting, history>>
(* Deferred: take the collector out, if the entry is still this one.       *)
removeBackfillCollector(f) ==
  /\ Goto(f, "remove", "returned")
  /\ registered' = IF registered = f THEN NoFetch ELSE registered
  /\ UNCHANGED <<col, done, ticks, result, wire, deleting, history>>

-----------------------------------------------------------------------------
(* The table loop.                                                         *)

(* UpsertMessages.Join: the range keeps its upper end and gets the lower   *)
(* end of the page lo..hi.                                                 *)
MutJoinUnclamped(c, lo, hi) ==
  [c EXCEPT !.msgs = @ \cup lo..hi, !.min = lo, !.more = lo > 1,
            !.left = @ - Cardinality(lo..hi)]
Join(c, lo, hi) ==
  LET n == Cardinality(lo..hi)
  IN [c EXCEPT !.msgs = @ \cup lo..hi, !.min = lo, !.more = lo > 1,
               !.left = IF @ > n THEN @ - n ELSE 0]

Finished(c) == \/ c.left = 0
               \/ ~c.more
               \/ c.forward /\ c.anchor # NoAnchor /\ c.min <= c.anchor

(* The messages lo..hi arrive, in a range that ends at template.  Without  *)
(* a collector they go to the bridge as an event; above the collected      *)
(* range they are ignored; else they are joined to it, whoever asked for   *)
(* them (by, if anybody), and the collector is done or asks for more.      *)
handleUpsertMessages(lo, hi, template, w, by) ==
  /\ ~deleting
  /\ IF registered = NoFetch \/ template > col[registered].min
       THEN UNCHANGED <<registered, col, done, mixed>> /\ wire' = w
       ELSE LET f == registered
                c == Join(col[f], lo, hi)
            IN /\ col' = [col EXCEPT ![f] = c]
               /\ mixed' = IF by \in {f, NoFetch} THEN mixed
                           ELSE mixed \cup {f}
               /\ IF Finished(c)
                    THEN /\ registered' = NoFetch /\ done' = done \cup {f}
                         /\ wire' = w
                    ELSE /\ UNCHANGED <<registered, done>>
                         /\ wire' \in {w, [w EXCEPT ![<<f, lo>>] =
                                             IF @ < MaxWire THEN @ + 1 ELSE @]}
  /\ UNCHANGED <<st, ticks, result, deleting, robbed>>

(* An answer: messages before the reference timestamp, or word that there  *)
(* are none.                                                               *)
Taken(q) == [wire EXCEPT ![q] = @ - 1]

UpsertAnswer(g, r, lo) ==
  /\ wire[<<g, r>>] > 0 /\ lo < r /\ r - lo <= PageSize
  /\ handleUpsertMessages(lo, r - 1, r, Taken(<<g, r>>), g)

(* Nothing asked for this one: the newest messages of the thread.          *)
UpsertPushed(lo) == handleUpsertMessages(lo, Last, Last, wire, NoFetch)

(* handleUpdateExistingMessageRange takes no lock and calls Done before it *)
(* deletes.  noMore: UnknownBool2 without UnknownBool3.                    *)
MutAnyTimestamp(g, r, noMore) ==
  /\ ~deleting /\ wire[<<g, r>>] > 0
  /\ wire' = Taken(<<g, r>>)
  /\ IF registered = NoFetch
       THEN UNCHANGED <<col, done, deleting>>
       ELSE /\ col' = [col EXCEPT ![registered].more =
                         @ /\ col[registered].msgs # {} /\ ~noMore]
            /\ done' = done \cup {registered} /\ deleting' = TRUE
  /\ UNCHANGED <<registered, st, ticks, result, history>>
handleUpdateExistingMessageRange(g, r, noMore) ==
  /\ ~deleting /\ wire[<<g, r>>] > 0
  /\ wire' = Taken(<<g, r>>)
  /\ IF registered = NoFetch \/ col[registered].min # r
       THEN UNCHANGED <<col, done, deleting>>
       ELSE /\ col' = [col EXCEPT ![registered].more =
                         @ /\ col[registered].msgs # {} /\ ~noMore]
            /\ done' = done \cup {registered} /\ deleting' = TRUE
  /\ UNCHANGED <<registered, st, ticks, result, history>>

(* delete(m.backfillCollectors, tk.ID): whoever's collector is there.      *)
DeleteCollector ==
  /\ deleting
  /\ deleting' = FALSE /\ registered' = NoFetch
  /\ robbed' = IF registered = NoFetch \/ registered \in done THEN robbed
               ELSE robbed \cup {registered}
  /\ UNCHANGED <<st, col, done, ticks, result, wire, mixed>>

-----------------------------------------------------------------------------
FetchStarts(f) ==
  \/ \E lo \in Messages, a \in 0..Last - 1 :
       \/ FetchBundled(f, Bundle(lo, Last, a))
       \/ addBackfillCollector(f, Bundle(lo, Last, a))
  \/ \E a \in Messages : addBackfillCollector(f, FromAnchor(a))

FetchStep(f) == \/ RequestHistory(f) \/ CollectorDone(f) \/ Tick(f)
                \/ WrapAfterTick(f) \/ removeBackfillCollector(f)

(* External: the server has nothing before message 1.                      *)
TableStep == \/ \E g \in Fetches, r, lo \in Messages : UpsertAnswer(g, r, lo)
             \/ \E lo \in Messages : UpsertPushed(lo)
             \/ \E g \in Fetches, noMore \in BOOLEAN :
                  handleUpdateExistingMessageRange(g, 1, noMore)
             \/ DeleteCollector

Next == \/ \E f \in Fetches : FetchStarts(f) \/ FetchStep(f) \/ FetchFails(f)
        \/ TableStep

Spec == Init /\ [][Next]_vars

(* A fetch's own steps are bounded by its ticker; nothing is owed by the   *)
(* server, and nobody has to cancel a fetch.                               *)
FairSpec == Spec /\ \A f \in Fetches : WF_vars(FetchStep(f))

-----------------------------------------------------------------------------
(* Properties.                                                             *)

(* A fetch that waits for its collector is the registered one, so that its *)
(* answers reach it - unless the unlocked delete after Done in             *)
(* handleUpdateExistingMessageRange took its entry in place of the entry   *)
(* of the fetch before it.                                                 *)
WaitingIsRegistered ==
  \A f \in Fetches :
    st[f] \in {"request", "waiting"} /\ f \notin done =>
      registered = f \/ f \in robbed

(* What a fetch returns has no gap up to the newest message it was to      *)
(* bring, since a later fetch only asks for what is older still - unless   *)
(* its collector was given the answer to a request of another fetch, which *)
(* comes from further down and nothing tells apart (backfill.go:61).       *)
GapFree ==
  \A f \in Fetches : result[f].ok /\ f \notin mixed =>
    \A m \in result[f].msgs : m..col[f].top \subseteq result[f].msgs

(* A fetch that says there is no more history has reached the first        *)
(* message of the thread: the bridge never asks again.                     *)
NoFalseEnd ==
  \A f \in Fetches : result[f].ok /\ ~result[f].more => col[f].min = 1

(* Every fetch returns, whatever becomes of its answers.                   *)
FetchReturns == \A f \in Fetches : st[f] = "request" ~> st[f] = "returned"

(* "Backfill collector did not call done, but has all messages"            *)
(* (backfill.go).  Refuted: the branch is taken at the first tick when no  *)
(* answer has come at all.                                                 *)
HasAllMessages ==
  \A f \in Fetches : st[f] = "wrap" /\ col[f].anchor # NoAnchor =>
    col[f].anchor + 1..col[f].top \subseteq col[f].msgs
=============================================================================
