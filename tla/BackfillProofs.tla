---------------------------- MODULE BackfillProofs --------------------------
(***************************************************************************)
(* Proofs about Backfill, for any set of fetches, any thread, any sizes of *)
(* the request and of the answers and any timeout.                         *)
(***************************************************************************)
EXTENDS Backfill, FiniteSetTheorems, TLAPS

(* The parts of TypeOK: places, flags, collectors, ticks, results, wire.   *)
PlacesTyped ==
  /\ registered \in Fetches \cup {NoFetch} /\ st \in [Fetches -> FetchStates]
  /\ done \in SUBSET Fetches /\ robbed \in SUBSET Fetches
  /\ mixed \in SUBSET Fetches
ColsTyped == col \in [Fetches -> Collectors]
TicksTyped == ticks \in [Fetches -> 0..TimeoutTicks]
ResultsTyped == result \in [Fetches -> Results]
WireTyped == wire \in [Requests -> 0..MaxWire]

(* A fetch that still waits has ticks left.                                *)
TicksLeft == \A f \in Fetches :
  st[f] \in {"idle", "request", "waiting"} => ticks[f] < TimeoutTicks

(* What holds of the collector of every fetch that has started.  It says   *)
(* that there is no more history only at the first message, and moves only *)
(* down from where its first request was made.  A forward fetch is to      *)
(* bring everything up to the newest message, a backward one everything    *)
(* before its anchor.                                                      *)
Good(c) ==
  /\ 1 <= c.min /\ c.min <= c.oldest
  /\ c.more \/ c.min = 1
  /\ IF c.forward THEN c.top = Last ELSE c.anchor = c.top + 1
ColsGood == \A f \in Fetches : st[f] # "idle" => Good(col[f])
IdleIsNew == \A f \in Fetches : st[f] = "idle" => ~result[f].ok
RegisteredIsBusy == registered # NoFetch => st[registered] # "idle"

Inv == /\ PlacesTyped /\ deleting \in BOOLEAN /\ ColsTyped /\ TicksTyped
       /\ ResultsTyped /\ WireTyped /\ TicksLeft /\ ColsGood /\ IdleIsNew
       /\ RegisteredIsBusy /\ WaitingIsRegistered /\ NoFalseEnd

(* The collected messages have no gap.  Every request on the wire was made *)
(* for a timestamp that its own fetch's collector has reached, so that an  *)
(* answer to it which is not above the collected range continues the range *)
(* without a gap.  An answer to another fetch's request need not, and      *)
(* leaves its trace in mixed.                                              *)
Contiguous(c) == c.min..c.top \subseteq c.msgs /\ \A m \in c.msgs : c.min <= m
ColsContiguous ==
  \A f \in Fetches : st[f] # "idle" /\ f \notin mixed => Contiguous(col[f])
WireContinues ==
  \A f \in Fetches, r \in Messages :
    wire[<<f, r>>] > 0 => st[f] # "idle" /\ col[f].min <= r
GapInv == ColsContiguous /\ WireContinues /\ GapFree

-----------------------------------------------------------------------------
(* Collectors and results.                                                 *)

(* A collector as FetchMessages makes it.                                  *)
Fresh == {Bundle(lo, Last, a) : lo \in Messages, a \in 0..Last - 1}
           \cup {FromAnchor(a) : a \in Messages}

(* A new collector holds its bundle, or nothing yet, without a gap.        *)
LEMMA FreshFacts ==
  ASSUME NEW c \in Fresh
  PROVE  c \in Collectors /\ Good(c) /\ Contiguous(c)
<1>1. ASSUME NEW lo \in Messages, NEW a \in 0..Last - 1
      PROVE  /\ Bundle(lo, Last, a) \in Collectors
             /\ Good(Bundle(lo, Last, a)) /\ Contiguous(Bundle(lo, Last, a))
  <2>1. lo..Last \subseteq Messages /\ lo \in 0..Last /\ a \in 0..Last
        /\ (lo > 1) \in BOOLEAN /\ Count \in 0..Count /\ Last \in 0..Last
    BY SizeAssumption DEF Messages
  <2>2. Bundle(lo, Last, a) \in Collectors
    BY <2>1 DEF Bundle, Collectors
  <2>0. Bundle(lo, Last, a).more \/ lo = 1
    <3>1. Bundle(lo, Last, a).more = (lo > 1)
      BY Zenon DEF Bundle
    <3>2. lo > 1 \/ lo = 1
      BY SizeAssumption DEF Messages
    <3> QED
      BY <3>1, <3>2, Zenon
  <2>3. /\ Bundle(lo, Last, a).min = lo /\ Bundle(lo, Last, a).oldest = lo
        /\ Bundle(lo, Last, a).forward /\ Bundle(lo, Last, a).top = Last
        /\ Bundle(lo, Last, a).msgs = lo..Last
    BY DEF Bundle
  <2>4. Good(Bundle(lo, Last, a)) /\ Contiguous(Bundle(lo, Last, a))
    BY <2>0, <2>3, SizeAssumption DEF Good, Contiguous, Messages
  <2> QED
    BY <2>2, <2>4
<1>2. ASSUME NEW a \in Messages
      PROVE  /\ FromAnchor(a) \in Collectors
             /\ Good(FromAnchor(a)) /\ Contiguous(FromAnchor(a))
  <2>1. a \in 0..Last /\ a - 1 \in 0..Last /\ Count \in 0..Count
    BY SizeAssumption DEF Messages
  <2>2. FromAnchor(a) \in Collectors
    BY <2>1 DEF FromAnchor, Collectors
  <2>3. Good(FromAnchor(a)) /\ Contiguous(FromAnchor(a))
    BY SizeAssumption DEF FromAnchor, Good, Contiguous, Messages
  <2> QED
    BY <2>2, <2>3
<1> QED
  BY <1>1, <1>2 DEF Fresh

(* Join with a page that is not above the collected range.                 *)
LEMMA JoinFacts ==
  ASSUME NEW c \in Collectors, Good(c),
         NEW lo \in Messages, NEW hi \in Messages, lo <= c.min
  PROVE  /\ Join(c, lo, hi) \in Collectors /\ Good(Join(c, lo, hi))
         /\ Join(c, lo, hi).min = lo /\ Join(c, lo, hi).top = c.top
         /\ Join(c, lo, hi).msgs = c.msgs \cup lo..hi
<1> DEFINE n == Cardinality(lo..hi)
           left == IF c.left > n THEN c.left - n ELSE 0
<1>1. n \in Nat
  <2>1. lo \in Int /\ hi \in Int
    BY DEF Messages
  <2>2. Cardinality(lo..hi) = IF lo > hi THEN 0 ELSE hi - lo + 1
    BY <2>1, FS_Interval
  <2> QED
    BY <2>1, <2>2
<1>2. left \in 0..Count
  BY <1>1, SizeAssumption DEF Collectors
<1>3. Join(c, lo, hi) = [c EXCEPT !.msgs = @ \cup lo..hi, !.min = lo,
                                  !.more = lo > 1, !.left = left]
  BY DEF Join
<1> HIDE DEF left
<1>4. lo..hi \subseteq Messages /\ lo \in 0..Last /\ (lo > 1) \in BOOLEAN
  BY SizeAssumption DEF Messages
<1>5. Join(c, lo, hi) \in Collectors
  BY <1>2, <1>3, <1>4 DEF Collectors
<1>6. /\ Join(c, lo, hi).min = lo /\ Join(c, lo, hi).top = c.top
      /\ Join(c, lo, hi).msgs = c.msgs \cup lo..hi
      /\ Join(c, lo, hi).oldest = c.oldest
      /\ Join(c, lo, hi).forward = c.forward
      /\ Join(c, lo, hi).anchor = c.anchor
  BY <1>3 DEF Collectors
<1>7. Good(Join(c, lo, hi))
  <2>0. Join(c, lo, hi).more \/ lo = 1
    <3>1. Join(c, lo, hi).more = (lo > 1)
      BY <1>3, Zenon DEF Collectors
    <3>2. lo > 1 \/ lo = 1
      BY SizeAssumption DEF Messages
    <3> QED
      BY <3>1, <3>2, Zenon
  <2>1. lo \in Nat /\ 1 <= lo /\ c.min \in Nat /\ c.oldest \in Nat
    BY SizeAssumption DEF Messages, Collectors
  <2> QED
    BY <1>6, <2>0, <2>1 DEF Good
<1> QED
  BY <1>5, <1>6, <1>7

(* What a fetch returns is what its collector held.                        *)
LEMMA SuccessFacts ==
  ASSUME NEW c \in Collectors
  PROVE  /\ Success(c) \in Results /\ Success(c).ok
         /\ Success(c).more = c.more
         /\ Success(c).msgs = wrapBackfillEvents(c)
BY DEF Success, Results, wrapBackfillEvents, Collectors

(* What a gapless collector gives the bridge has no gap.                   *)
LEMMA WrapContiguous ==
  ASSUME NEW c \in Collectors, Good(c), Contiguous(c),
         NEW m \in wrapBackfillEvents(c)
  PROVE  m..c.top \subseteq wrapBackfillEvents(c)
<1>1. /\ m \in Nat /\ c.min \in Nat /\ c.top \in Nat /\ c.anchor \in Nat
      /\ c.forward \in BOOLEAN /\ m \in c.msgs /\ c.min <= m
  BY SizeAssumption
  DEF wrapBackfillEvents, Collectors, Messages, Contiguous
<1>2. m..c.top \subseteq c.msgs
  BY <1>1 DEF Contiguous
<1>3. ~c.forward => c.anchor = c.top + 1
  BY <1>1 DEF Good
<1> SUFFICES ASSUME NEW k \in m..c.top PROVE k \in wrapBackfillEvents(c)
  OBVIOUS
<1>4. CASE c.forward
  BY <1>1, <1>2, <1>4 DEF wrapBackfillEvents
<1>5. CASE ~c.forward
  BY <1>1, <1>2, <1>3, <1>5 DEF wrapBackfillEvents
<1> QED
  BY <1>1, <1>4, <1>5

-----------------------------------------------------------------------------
(* The steps keep Inv.                                                     *)

(* No fetch has started at first.                                          *)
LEMMA InitInv == Init => Inv
<1> SUFFICES ASSUME Init PROVE Inv
  OBVIOUS
<1>1. PlacesTyped /\ deleting \in BOOLEAN
  BY DEF Init, PlacesTyped, FetchStates
<1>2. ColsTyped
  <2>1. 0 \in 0..Last /\ 0 \in 0..Count
    BY SizeAssumption
  <2>2. NoCollector \in Collectors
    BY <2>1 DEF NoCollector, Collectors
  <2> QED
    BY <2>2 DEF Init, ColsTyped
<1>3. TicksTyped /\ WireTyped
  BY TimeAssumption, SizeAssumption DEF Init, TicksTyped, WireTyped
<1>4. ResultsTyped
  BY DEF Init, ResultsTyped, Results, NoResult
<1>5. TicksLeft
  BY TimeAssumption DEF Init, TicksLeft
<1>6. ColsGood /\ IdleIsNew /\ RegisteredIsBusy
  BY DEF Init, ColsGood, IdleIsNew, RegisteredIsBusy, NoResult
<1>7. WaitingIsRegistered /\ NoFalseEnd
  BY DEF Init, WaitingIsRegistered, NoFalseEnd, NoResult
<1> QED
  BY <1>1, <1>2, <1>3, <1>4, <1>5, <1>6, <1>7 DEF Inv

Start(f, c) == FetchBundled(f, c) \/ addBackfillCollector(f, c)

(* FetchMessages registers a collector that is as it should be.            *)
LEMMA StartKeeps ==
  ASSUME Inv, NEW f \in Fetches, NEW c \in Fresh, Start(f, c)
  PROVE  Inv'
<1> USE DEF Start, FetchBundled, addBackfillCollector, Goto, history
<1>1. c \in Collectors /\ Good(c)
  BY FreshFacts
<1>2. /\ st[f] = "idle" /\ col' = [col EXCEPT ![f] = c]
      /\ st' \in [Fetches -> FetchStates] /\ st'[f] \in {"request", "returned"}
      /\ \A g \in Fetches \ {f} : st'[g] = st[g]
      /\ UNCHANGED <<done, ticks, wire, deleting, robbed, mixed>>
      /\ result' \in {result, [result EXCEPT ![f] = Success(c)]}
      /\ \/ registered' = registered /\ st'[f] = "returned"
         \/ registered = NoFetch /\ registered' = f
  BY DEF Inv, PlacesTyped, FetchStates
<1>3. WireTyped'
  BY SizeAssumption DEF Inv, WireTyped
<1> HIDE DEF Start
<1>4. PlacesTyped' /\ deleting' \in BOOLEAN
  BY <1>2 DEF Inv, PlacesTyped
<1>5. ColsTyped' /\ ColsGood'
  BY <1>1, <1>2 DEF Inv, ColsTyped, ColsGood
<1>6. ResultsTyped'
  BY <1>1, <1>2, SuccessFacts DEF Inv, ResultsTyped
<1>7. TicksTyped' /\ TicksLeft'
  BY <1>2 DEF Inv, TicksTyped, TicksLeft
<1>8. IdleIsNew'
  BY <1>2 DEF Inv, ResultsTyped, IdleIsNew
<1>9. RegisteredIsBusy'
  BY <1>2 DEF Inv, PlacesTyped, RegisteredIsBusy
<1>10. WaitingIsRegistered'
  BY <1>2, FetchAssumption DEF Inv, PlacesTyped, WaitingIsRegistered
<1>11. NoFalseEnd'
  <2>1. Success(c).more = c.more
    BY <1>1, SuccessFacts
  <2> QED
    BY <1>1, <1>2, <2>1
    DEF Inv, ColsTyped, ResultsTyped, IdleIsNew, NoFalseEnd, Good
<1> QED
  BY <1>3, <1>4, <1>5, <1>6, <1>7, <1>8, <1>9, <1>10, <1>11 DEF Inv

(* The later steps of a fetch.                                             *)
OwnStep(f) == FetchStep(f) \/ FetchFails(f)

(* A request raises one count on the wire, up to its bound.                *)
LEMMA AskedTyped ==
  ASSUME WireTyped, NEW f \in Fetches, NEW r \in Messages,
         NEW w \in Asked(f, r)
  PROVE  w \in [Requests -> 0..MaxWire]
<1>1. CASE w = wire
  BY <1>1 DEF WireTyped
<1>2. CASE w = [wire EXCEPT ![<<f, r>>] = @ + 1] /\ wire[<<f, r>>] < MaxWire
  <2>1. <<f, r>> \in Requests
    BY DEF Requests
  <2> QED
    BY <1>2, <2>1, SizeAssumption DEF WireTyped
<1> QED
  BY <1>1, <1>2 DEF Asked

(* What wrapBackfillEvents may see of a collector.                         *)
Seen(c) == {c.msgs, c.msgs \cap c.oldest..c.top}

(* What the waiting, timing out and returning of a fetch can change: its   *)
(* own state and result, its registration, and one request more.           *)
LEMMA OwnFacts ==
  ASSUME Inv, NEW f \in Fetches, OwnStep(f)
  PROVE  /\ UNCHANGED <<col, done, deleting, robbed, mixed>>
         /\ st[f] # "idle" /\ st' \in [Fetches -> FetchStates]
         /\ \A g \in Fetches \ {f} : st'[g] = st[g]
         /\ st'[f] \in {"waiting", "wrap", "remove", "returned"}
         /\ st'[f] = "waiting" => st[f] \in {"request", "waiting"}
         /\ \/ registered' = registered
            \/ registered = f /\ registered' = NoFetch /\ st'[f] = "returned"
         /\ \/ result' = result
            \/ \E ms \in Seen(col[f]) :
                 result' = [result EXCEPT ![f] =
                              Success([col[f] EXCEPT !.msgs = ms])]
         /\ wire' \in Asked(f, col[f].oldest)
<1> USE DEF OwnStep, FetchStep, RequestHistory, CollectorDone, Tick,
            FetchFails, WrapAfterTick, removeBackfillCollector, Goto, history
<1>1. UNCHANGED <<col, done, deleting, robbed, mixed>>
  OBVIOUS
<1>2. /\ st[f] # "idle" /\ st' \in [Fetches -> FetchStates]
      /\ \A g \in Fetches \ {f} : st'[g] = st[g]
      /\ st'[f] \in {"waiting", "wrap", "remove", "returned"}
      /\ st'[f] = "waiting" => st[f] \in {"request", "waiting"}
  BY DEF Inv, PlacesTyped, FetchStates
<1>3. \/ registered' = registered
      \/ registered = f /\ registered' = NoFetch /\ st'[f] = "returned"
  BY DEF Inv, PlacesTyped
<1>4. \/ result' = result
      \/ \E ms \in Seen(col[f]) :
           result' = [result EXCEPT ![f] =
                        Success([col[f] EXCEPT !.msgs = ms])]
  <2>1. col[f] = [col[f] EXCEPT !.msgs = col[f].msgs]
    BY DEF Inv, ColsTyped, Collectors
  <2> QED
    BY <2>1 DEF Seen
<1>5. wire' \in Asked(f, col[f].oldest)
  BY DEF Asked
<1> QED
  BY <1>1, <1>2, <1>3, <1>4, <1>5

(* Wrapping only leaves messages out.                                      *)
LEMMA SeenFacts ==
  ASSUME NEW c \in Collectors, NEW ms \in Seen(c)
  PROVE  /\ [c EXCEPT !.msgs = ms] \in Collectors
         /\ [c EXCEPT !.msgs = ms].msgs = ms
         /\ [c EXCEPT !.msgs = ms].more = c.more
         /\ [c EXCEPT !.msgs = ms].min = c.min
         /\ [c EXCEPT !.msgs = ms].top = c.top
         /\ [c EXCEPT !.msgs = ms].anchor = c.anchor
         /\ [c EXCEPT !.msgs = ms].forward = c.forward
BY DEF Seen, Collectors

(* The timestamps that a started fetch asks with are messages.             *)
LEMMA OldestFacts ==
  ASSUME Inv, NEW f \in Fetches, st[f] # "idle"
  PROVE  /\ col[f] \in Collectors /\ Good(col[f])
         /\ col[f].min \in Messages /\ col[f].oldest \in Messages
         /\ col[f].min <= col[f].oldest
<1>1. col[f] \in Collectors /\ Good(col[f])
  BY DEF Inv, ColsTyped, ColsGood
<1> QED
  BY <1>1, SizeAssumption DEF Collectors, Good, Messages

(* The own steps of a fetch keep the invariant.                            *)
LEMMA OwnKeeps ==
  ASSUME Inv, NEW f \in Fetches, OwnStep(f)
  PROVE  Inv'
<1>1. /\ UNCHANGED <<col, done, deleting, robbed, mixed>>
      /\ st[f] # "idle" /\ st' \in [Fetches -> FetchStates]
      /\ \A g \in Fetches \ {f} : st'[g] = st[g]
      /\ st'[f] \in {"waiting", "wrap", "remove", "returned"}
      /\ st'[f] = "waiting" => st[f] \in {"request", "waiting"}
      /\ \/ registered' = registered
         \/ registered = f /\ registered' = NoFetch /\ st'[f] = "returned"
      /\ wire' \in Asked(f, col[f].oldest)
  BY OwnFacts
<1>2. TicksTyped' /\ TicksLeft'
  BY TimeAssumption
  DEF OwnStep, FetchStep, RequestHistory, CollectorDone, Tick, FetchFails,
      WrapAfterTick, removeBackfillCollector, Goto, Inv, PlacesTyped,
      TicksTyped, TicksLeft
<1>3. \/ result' = result
      \/ \E r \in Results : /\ result' = [result EXCEPT ![f] = r]
                            /\ r.more = col[f].more
  <2>1. ASSUME NEW ms \in Seen(col[f])
        PROVE  /\ Success([col[f] EXCEPT !.msgs = ms]) \in Results
               /\ Success([col[f] EXCEPT !.msgs = ms]).more = col[f].more
    <3>1. col[f] \in Collectors
      BY DEF Inv, ColsTyped
    <3>2. /\ [col[f] EXCEPT !.msgs = ms] \in Collectors
          /\ [col[f] EXCEPT !.msgs = ms].more = col[f].more
      BY <3>1, SeenFacts
    <3> QED
      BY <3>2, SuccessFacts
  <2>2. \/ result' = result
        \/ \E ms \in Seen(col[f]) :
             result' = [result EXCEPT ![f] =
                          Success([col[f] EXCEPT !.msgs = ms])]
    BY OwnFacts
  <2>3. ASSUME NEW ms \in Seen(col[f]),
               result' = [result EXCEPT ![f] =
                            Success([col[f] EXCEPT !.msgs = ms])]
        PROVE  \E r \in Results : /\ result' = [result EXCEPT ![f] = r]
                                  /\ r.more = col[f].more
    <3> Success([col[f] EXCEPT !.msgs = ms]) \in Results
      BY <2>1
    <3> WITNESS Success([col[f] EXCEPT !.msgs = ms]) \in Results
    <3> QED
      BY <2>1, <2>3
  <2> QED
    BY <2>2, <2>3
<1>4. PlacesTyped' /\ deleting' \in BOOLEAN
  BY <1>1 DEF Inv, PlacesTyped
<1>5. ColsTyped' /\ ColsGood'
  BY <1>1 DEF Inv, ColsTyped, ColsGood
<1>6. ResultsTyped'
  BY <1>3 DEF Inv, ResultsTyped
<1>7. WireTyped'
  <2>1. col[f].oldest \in Messages
    BY <1>1, OldestFacts
  <2> QED
    BY <1>1, <2>1, AskedTyped DEF Inv, WireTyped
<1>8. IdleIsNew'
  BY <1>1, <1>3 DEF Inv, ResultsTyped, IdleIsNew
<1>9. RegisteredIsBusy'
  BY <1>1 DEF Inv, PlacesTyped, RegisteredIsBusy
<1>10. WaitingIsRegistered'
  BY <1>1 DEF Inv, PlacesTyped, WaitingIsRegistered
<1>11. NoFalseEnd'
  <2>1. col[f].more \/ col[f].min = 1
    BY <1>1, OldestFacts DEF Good
  <2> QED
    BY <1>1, <1>3, <2>1 DEF Inv, ResultsTyped, NoFalseEnd
<1> QED
  BY <1>2, <1>4, <1>5, <1>6, <1>7, <1>8, <1>9, <1>10, <1>11 DEF Inv

(* One request more.                                                       *)
More(w, f, lo) == [w EXCEPT ![<<f, lo>>] = IF @ < MaxWire THEN @ + 1 ELSE @]

(* The wire stays typed, and only this request can be new on it.           *)
LEMMA MoreFacts ==
  ASSUME NEW w \in [Requests -> 0..MaxWire],
         NEW f \in Fetches, NEW lo \in Messages
  PROVE  /\ More(w, f, lo) \in [Requests -> 0..MaxWire]
         /\ \A q \in Requests : q # <<f, lo>> => More(w, f, lo)[q] = w[q]
<1>1. <<f, lo>> \in Requests
  BY DEF Requests
<1> QED
  BY <1>1, SizeAssumption DEF More

(* handleUpsertMessages, for an answer or for a push.                      *)
Upsert(lo, hi, template, w, by) ==
  /\ lo \in Messages /\ hi \in Messages /\ template \in Messages
  /\ lo <= template /\ w \in [Requests -> 0..MaxWire]
  /\ handleUpsertMessages(lo, hi, template, w, by)

(* What handleUpsertMessages does to the registered collector when the     *)
(* messages are not above its range: it joins them, and is either done or  *)
(* asks for more from the new minimum.                                     *)
LEMMA UpsertFacts ==
  ASSUME Inv, NEW lo, NEW hi, NEW template, NEW w, NEW by,
         Upsert(lo, hi, template, w, by),
         NEW f, f = registered, f # NoFetch, ~(template > col[f].min)
  PROVE  /\ f \in Fetches /\ st[f] # "idle"
         /\ Join(col[f], lo, hi) \in Collectors /\ Good(Join(col[f], lo, hi))
         /\ Join(col[f], lo, hi).min = lo /\ lo <= col[f].min
         /\ Join(col[f], lo, hi).top = col[f].top
         /\ Join(col[f], lo, hi).msgs = col[f].msgs \cup lo..hi
         /\ col' = [col EXCEPT ![f] = Join(col[f], lo, hi)]
         /\ \/ registered' = NoFetch /\ done' = done \cup {f} /\ wire' = w
            \/ UNCHANGED <<registered, done>>
         /\ wire' \in {w, More(w, f, lo)}
         /\ mixed' = IF by \in {f, NoFetch} THEN mixed ELSE mixed \cup {f}
<1>1. f \in Fetches /\ st[f] # "idle"
  BY DEF Inv, PlacesTyped, RegisteredIsBusy
<1>2. col[f] \in Collectors /\ Good(col[f]) /\ col[f].min \in Messages
  BY <1>1, OldestFacts
<1>3. lo \in Messages /\ hi \in Messages /\ lo <= col[f].min
  BY <1>2, SizeAssumption DEF Upsert, Messages
<1>4. /\ Join(col[f], lo, hi) \in Collectors /\ Good(Join(col[f], lo, hi))
      /\ Join(col[f], lo, hi).min = lo
      /\ Join(col[f], lo, hi).top = col[f].top
      /\ Join(col[f], lo, hi).msgs = col[f].msgs \cup lo..hi
  BY <1>2, <1>3, JoinFacts
<1>5. /\ col' = [col EXCEPT ![f] = Join(col[f], lo, hi)]
      /\ \/ registered' = NoFetch /\ done' = done \cup {f} /\ wire' = w
         \/ UNCHANGED <<registered, done>>
      /\ wire' \in {w, More(w, f, lo)}
      /\ mixed' = IF by \in {f, NoFetch} THEN mixed ELSE mixed \cup {f}
  BY DEF Upsert, handleUpsertMessages, More
<1> QED
  BY <1>1, <1>3, <1>4, <1>5

(* An answer or a push keeps the invariant.                                *)
LEMMA UpsertKeeps ==
  ASSUME Inv, NEW lo, NEW hi, NEW template, NEW w, NEW by,
         Upsert(lo, hi, template, w, by)
  PROVE  Inv'
<1>1. /\ UNCHANGED <<st, ticks, result, deleting, robbed>>
      /\ w \in [Requests -> 0..MaxWire] /\ lo \in Messages
  BY DEF Upsert, handleUpsertMessages
<1>2. TicksTyped' /\ TicksLeft' /\ ResultsTyped' /\ IdleIsNew'
  BY <1>1 DEF Inv, TicksTyped, TicksLeft, ResultsTyped, IdleIsNew
<1>3. CASE registered = NoFetch \/ template > col[registered].min
  <2>1. UNCHANGED <<registered, col, done, mixed>> /\ wire' = w
    BY <1>3 DEF Upsert, handleUpsertMessages
  <2> QED
    BY <1>1, <1>2, <2>1
    DEF Inv, PlacesTyped, ColsTyped, WireTyped, ColsGood, RegisteredIsBusy,
        WaitingIsRegistered, NoFalseEnd
<1>4. CASE ~(registered = NoFetch \/ template > col[registered].min)
  <2>1. PICK f : f = registered
    OBVIOUS
  <2> DEFINE c == Join(col[f], lo, hi)
  <2>2. /\ f \in Fetches /\ st[f] # "idle" /\ c \in Collectors /\ Good(c)
        /\ c.min = lo /\ lo <= col[f].min
        /\ col' = [col EXCEPT ![f] = c]
        /\ \/ registered' = NoFetch /\ done' = done \cup {f}
           \/ UNCHANGED <<registered, done>>
        /\ wire' \in {w, More(w, f, lo)}
        /\ mixed' \in {mixed, mixed \cup {f}}
    BY <1>4, <2>1, UpsertFacts
  <2> HIDE DEF c
  <2>3. ColsTyped' /\ ColsGood'
    BY <1>1, <2>2 DEF Inv, ColsTyped, ColsGood
  <2>4. WireTyped'
    BY <1>1, <2>2, MoreFacts DEF WireTyped
  <2>5. PlacesTyped' /\ deleting' \in BOOLEAN /\ RegisteredIsBusy'
    BY <1>1, <2>2 DEF Inv, PlacesTyped, RegisteredIsBusy
  <2>6. WaitingIsRegistered'
    BY <1>1, <2>1, <2>2 DEF Inv, WaitingIsRegistered
  <2>7. NoFalseEnd'
    <3>1. col[f].min = 1 => lo = 1
      BY <2>2, SizeAssumption DEF Upsert, Messages
    <3> QED
      BY <1>1, <2>2, <3>1 DEF Inv, ColsTyped, NoFalseEnd
  <2> QED
    BY <1>2, <2>3, <2>4, <2>5, <2>6, <2>7 DEF Inv
<1> QED
  BY <1>3, <1>4

(* Word that there is nothing before the first message.                    *)
LEMMA TheEndKeeps ==
  ASSUME Inv, NEW g \in Fetches, NEW noMore \in BOOLEAN,
         handleUpdateExistingMessageRange(g, 1, noMore)
  PROVE  Inv'
<1> USE DEF handleUpdateExistingMessageRange, history
<1>1. UNCHANGED <<registered, st, ticks, result, robbed, mixed>>
  OBVIOUS
<1>2. WireTyped'
  <2>1. wire[<<g, 1>>] > 0 /\ wire' = [wire EXCEPT ![<<g, 1>>] = @ - 1]
    BY DEF Taken
  <2>2. <<g, 1>> \in Requests
    BY SizeAssumption DEF Messages, Requests
  <2> HIDE DEF handleUpdateExistingMessageRange
  <2> QED
    BY <2>1, <2>2, SizeAssumption DEF Inv, WireTyped
<1>3. TicksTyped' /\ TicksLeft' /\ ResultsTyped' /\ IdleIsNew'
      /\ RegisteredIsBusy'
  BY <1>1
  DEF Inv, TicksTyped, TicksLeft, ResultsTyped, IdleIsNew, RegisteredIsBusy
<1>4. PlacesTyped' /\ deleting' \in BOOLEAN /\ done \subseteq done'
  BY <1>1 DEF Inv, PlacesTyped
<1>5. \/ col' = col
      \/ /\ registered # NoFetch /\ col[registered].min = 1
         /\ \E more \in BOOLEAN :
              col' = [col EXCEPT ![registered].more = more]
  <2>1. \/ col' = col
        \/ /\ registered # NoFetch /\ col[registered].min = 1
           /\ col' = [col EXCEPT ![registered].more =
                        @ /\ col[registered].msgs # {} /\ ~noMore]
    OBVIOUS
  <2> QED
    BY <2>1
<1> HIDE DEF handleUpdateExistingMessageRange
<1>6. ASSUME NEW f \in Fetches
      PROVE  /\ col'[f] \in Collectors /\ col'[f].min = col[f].min
             /\ st[f] # "idle" => Good(col'[f])
  <2>1. col[f] \in Collectors /\ (st[f] # "idle" => Good(col[f]))
    BY DEF Inv, ColsTyped, ColsGood
  <2>2. CASE col'[f] = col[f]
    BY <2>1, <2>2
  <2>3. CASE col'[f] # col[f]
    <3>1. PICK more \in BOOLEAN :
            col' = [col EXCEPT ![registered].more = more]
      BY <1>5, <2>3
    <3>2. f = registered /\ col'[f] = [col[f] EXCEPT !.more = more]
      BY <2>3, <3>1 DEF Inv, ColsTyped
    <3>3. col[f].min = 1
      BY <1>5, <2>3, <3>2
    <3>4. /\ col'[f] \in Collectors /\ col'[f].min = col[f].min
          /\ col'[f].oldest = col[f].oldest /\ col'[f].top = col[f].top
          /\ col'[f].forward = col[f].forward
          /\ col'[f].anchor = col[f].anchor
      BY <2>1, <3>2 DEF Collectors
    <3> QED
      BY <2>1, <3>3, <3>4 DEF Good
  <2> QED
    BY <2>2, <2>3
<1>7. ColsTyped'
  <2>1. col' = [f \in Fetches |-> col'[f]]
    BY <1>5 DEF Inv, ColsTyped
  <2> QED
    BY <1>6, <2>1 DEF ColsTyped
<1>8. ColsGood' /\ WaitingIsRegistered' /\ NoFalseEnd'
  BY <1>1, <1>4, <1>6 DEF Inv, ColsGood, WaitingIsRegistered, NoFalseEnd
<1> QED
  BY <1>2, <1>3, <1>4, <1>7, <1>8 DEF Inv

(* So does the delete without the lock, which leaves a trace.              *)
LEMMA DeleteKeeps == Inv /\ DeleteCollector => Inv'
<1> SUFFICES ASSUME Inv, DeleteCollector PROVE Inv'
  OBVIOUS
<1> USE DEF DeleteCollector
<1>1. /\ UNCHANGED <<st, col, done, ticks, result, wire, mixed>>
      /\ registered' = NoFetch /\ deleting' = FALSE
      /\ robbed \subseteq robbed'
      /\ robbed' \subseteq robbed \cup ({registered} \ {NoFetch})
      /\ registered \in Fetches \ done => registered \in robbed'
  BY FetchAssumption
<1>2. PlacesTyped' /\ deleting' \in BOOLEAN
  BY <1>1 DEF Inv, PlacesTyped
<1>3. WaitingIsRegistered'
  BY <1>1 DEF Inv, WaitingIsRegistered
<1> QED
  BY <1>1, <1>2, <1>3
  DEF Inv, ColsTyped, TicksTyped, ResultsTyped, WireTyped, TicksLeft,
      ColsGood, IdleIsNew, RegisteredIsBusy, NoFalseEnd

(* Stuttering changes nothing.                                             *)
LEMMA StutterKeeps == Inv /\ UNCHANGED vars => Inv'
BY DEF vars, Inv, PlacesTyped, ColsTyped, TicksTyped, ResultsTyped, WireTyped,
       TicksLeft, ColsGood, IdleIsNew, RegisteredIsBusy, WaitingIsRegistered,
       NoFalseEnd

(* An answer to a request of g, as handleUpsertMessages gets it.           *)
Answer(g, r, lo) == /\ wire[<<g, r>>] > 0 /\ lo < r
                    /\ Upsert(lo, r - 1, r, Taken(<<g, r>>), g)

(* Every step is one of these.                                             *)
LEMMA Steps ==
  ASSUME Inv, [Next]_vars
  PROVE  \/ \E f \in Fetches, c \in Fresh : Start(f, c)
         \/ \E f \in Fetches : OwnStep(f)
         \/ \E g \in Fetches, r, lo \in Messages : Answer(g, r, lo)
         \/ \E lo \in Messages : Upsert(lo, Last, Last, wire, NoFetch)
         \/ \E g \in Fetches, noMore \in BOOLEAN :
              handleUpdateExistingMessageRange(g, 1, noMore)
         \/ DeleteCollector
         \/ UNCHANGED vars
<1>1. ASSUME NEW f \in Fetches, FetchStarts(f)
      PROVE  \E c \in Fresh : Start(f, c)
  BY <1>1 DEF FetchStarts, Fresh, Start
<1>2. ASSUME NEW g \in Fetches, NEW r \in Messages, NEW lo \in Messages,
             UpsertAnswer(g, r, lo)
      PROVE  Answer(g, r, lo)
  <2>1. /\ wire[<<g, r>>] > 0 /\ lo < r
        /\ handleUpsertMessages(lo, r - 1, r, Taken(<<g, r>>), g)
    BY <1>2 DEF UpsertAnswer
  <2>2. r - 1 \in Messages /\ lo <= r
    BY <2>1, SizeAssumption DEF Messages
  <2>3. Taken(<<g, r>>) \in [Requests -> 0..MaxWire]
    <3>1. <<g, r>> \in Requests
      BY DEF Requests
    <3> QED
      BY <2>1, <3>1, SizeAssumption DEF Taken, Inv, WireTyped
  <2> QED
    BY <2>1, <2>2, <2>3 DEF Upsert, Answer
<1>3. ASSUME NEW lo \in Messages, UpsertPushed(lo)
      PROVE  Upsert(lo, Last, Last, wire, NoFetch)
  <2>1. Last \in Messages /\ lo <= Last
    BY SizeAssumption DEF Messages
  <2> QED
    BY <1>3, <2>1 DEF UpsertPushed, Upsert, Inv, WireTyped
<1> QED
  BY <1>1, <1>2, <1>3 DEF Next, TableStep, OwnStep

(* Every step keeps the invariant.                                         *)
LEMMA NextKeeps == Inv /\ [Next]_vars => Inv'
<1> SUFFICES ASSUME Inv, [Next]_vars PROVE Inv'
  OBVIOUS
<1>1. ASSUME NEW g \in Fetches, NEW r \in Messages, NEW lo \in Messages,
             Answer(g, r, lo)
      PROVE  Inv'
  BY <1>1, UpsertKeeps DEF Answer
<1> QED
  BY <1>1, Steps, StartKeeps, OwnKeeps, UpsertKeeps, TheEndKeeps, DeleteKeeps,
     StutterKeeps

(* The invariant holds in every behaviour.                                 *)
LEMMA Invariance == Spec => []Inv
BY InitInv, NextKeeps, PTL DEF Spec

(* The variables keep their types; in particular a fetch takes no tick     *)
(* after its timeout.                                                      *)
THEOREM TypeCorrect == Spec => []TypeOK
<1>1. Inv => TypeOK
  BY DEF Inv, PlacesTyped, ColsTyped, TicksTyped, ResultsTyped, WireTyped,
         TypeOK
<1> QED
  BY <1>1, Invariance, PTL

(* The answers of a fetch that waits reach it, unless the delete without a *)
(* lock took its entry.                                                    *)
THEOREM AnswersReachFetch == Spec => []WaitingIsRegistered
<1>1. Inv => WaitingIsRegistered
  BY DEF Inv
<1> QED
  BY <1>1, Invariance, PTL

(* The bridge is told that there is no more history only once the first    *)
(* message has been reached, late answers and lost entries included.       *)
THEOREM EndIsTrue == Spec => []NoFalseEnd
<1>1. Inv => NoFalseEnd
  BY DEF Inv
<1> QED
  BY <1>1, Invariance, PTL

-----------------------------------------------------------------------------
(* No gaps, unless an answer reaches the collector of another fetch.       *)

(* No fetch has collected anything at first.                               *)
LEMMA InitGap == Init => GapInv
<1> SUFFICES ASSUME Init PROVE GapInv
  OBVIOUS
<1>1. WireContinues
  BY SizeAssumption DEF Init, WireContinues, Requests
<1> QED
  BY <1>1 DEF Init, GapInv, ColsContiguous, GapFree, NoResult

(* A fetch that starts has no request on the wire yet.                     *)
LEMMA StartGap ==
  ASSUME Inv, GapInv,
         NEW f \in Fetches, NEW c \in Fresh, Start(f, c)
  PROVE  GapInv'
<1>1. c \in Collectors /\ Good(c) /\ Contiguous(c)
  BY FreshFacts
<1> USE DEF Start, FetchBundled, addBackfillCollector, Goto, history
<1>2. /\ st[f] = "idle" /\ col' = [col EXCEPT ![f] = c]
      /\ \A g \in Fetches \ {f} : st'[g] = st[g]
      /\ st'[f] # "idle" /\ UNCHANGED <<wire, mixed>>
  BY DEF Inv, PlacesTyped
<1>3. \/ result' = result
      \/ result' = [result EXCEPT ![f] = Success(c)]
  OBVIOUS
<1> HIDE DEF Start
<1>4. ColsContiguous'
  BY <1>1, <1>2 DEF Inv, ColsTyped, GapInv, ColsContiguous
<1>5. WireContinues'
  <2>1. \A g \in Fetches \ {f} : col'[g] = col[g] /\ st'[g] = st[g]
    BY <1>2 DEF Inv, ColsTyped
  <2>2. \A r \in Messages : ~(wire[<<f, r>>] > 0)
    BY <1>2 DEF GapInv, WireContinues
  <2> QED
    BY <1>2, <2>1, <2>2 DEF GapInv, WireContinues
<1>6. GapFree'
  <2> SUFFICES ASSUME NEW g \in Fetches, result'[g].ok, g \notin mixed',
                      NEW m \in result'[g].msgs
               PROVE  m..col'[g].top \subseteq result'[g].msgs
    BY DEF GapFree
  <2>1. CASE g = f /\ result' = [result EXCEPT ![f] = Success(c)]
    <3>1. result'[g].msgs = wrapBackfillEvents(c) /\ col'[g] = c
      BY <1>1, <1>2, <2>1, SuccessFacts DEF Inv, ColsTyped, ResultsTyped
    <3> QED
      BY <1>1, <3>1, WrapContiguous
  <2>2. CASE ~(g = f /\ result' = [result EXCEPT ![f] = Success(c)])
    <3>1. result'[g] = result[g]
      BY <1>3, <2>2 DEF Inv, ResultsTyped
    <3>2. g # f /\ col'[g] = col[g]
      BY <1>2, <3>1 DEF Inv, ColsTyped, IdleIsNew
    <3> QED
      BY <1>2, <3>1, <3>2 DEF GapInv, GapFree
  <2> QED
    BY <2>1, <2>2
<1> QED
  BY <1>4, <1>5, <1>6 DEF GapInv

(* A fetch asks again with a timestamp its collector has reached.          *)
LEMMA OwnGap ==
  ASSUME Inv, GapInv, NEW f \in Fetches, OwnStep(f)
  PROVE  GapInv'
<1>1. /\ UNCHANGED <<col, mixed>> /\ st[f] # "idle" /\ st'[f] # "idle"
      /\ \A g \in Fetches \ {f} : st'[g] = st[g]
      /\ wire' \in Asked(f, col[f].oldest)
      /\ \/ result' = result
         \/ \E ms \in Seen(col[f]) :
              result' = [result EXCEPT ![f] =
                           Success([col[f] EXCEPT !.msgs = ms])]
  BY OwnFacts
<1>2. /\ col[f] \in Collectors /\ Good(col[f])
      /\ f \notin mixed => Contiguous(col[f])
      /\ col[f].oldest \in Messages /\ col[f].min <= col[f].oldest
  BY <1>1, OldestFacts DEF GapInv, ColsContiguous
<1>3. ColsContiguous'
  BY <1>1 DEF GapInv, ColsContiguous
<1>4. WireContinues'
  <2>1. CASE wire' = wire
    BY <1>1, <2>1 DEF GapInv, WireContinues
  <2>2. CASE wire' # wire
    <3>1. wire' = [wire EXCEPT ![<<f, col[f].oldest>>] = @ + 1]
      BY <1>1, <2>2 DEF Asked
    <3>2. \A q \in Requests : q # <<f, col[f].oldest>> => wire'[q] = wire[q]
      BY <3>1 DEF Inv, WireTyped
    <3> SUFFICES ASSUME NEW g \in Fetches, NEW r \in Messages,
                        wire'[<<g, r>>] > 0
                 PROVE  st'[g] # "idle" /\ col'[g].min <= r
      BY DEF WireContinues
    <3>3. CASE g = f /\ r = col[f].oldest
      BY <1>1, <1>2, <3>3
    <3>4. CASE ~(g = f /\ r = col[f].oldest)
      <4>1. wire[<<g, r>>] > 0
        BY <3>2, <3>4 DEF Requests
      <4> QED
        BY <1>1, <4>1 DEF GapInv, WireContinues
    <3> QED
      BY <3>3, <3>4
  <2> QED
    BY <2>1, <2>2
<1>5. GapFree'
  <2>1. CASE result' = result
    BY <1>1, <2>1 DEF GapInv, GapFree
  <2>2. ASSUME NEW ms \in Seen(col[f]),
               result' = [result EXCEPT ![f] =
                            Success([col[f] EXCEPT !.msgs = ms])]
        PROVE  GapFree'
    <3> DEFINE c == [col[f] EXCEPT !.msgs = ms]
    <3>1. /\ c \in Collectors /\ c.msgs = ms /\ c.min = col[f].min
          /\ c.top = col[f].top /\ c.anchor = col[f].anchor
          /\ c.forward = col[f].forward
      BY <1>2, SeenFacts
    <3> HIDE DEF c
    <3>2. result' = [result EXCEPT ![f] = Success(c)]
      BY <2>2 DEF c
    <3>3. \A g \in Fetches \ {f} : result'[g] = result[g]
      BY <3>2 DEF Inv, ResultsTyped
    <3>4. result'[f].msgs = wrapBackfillEvents(c)
      BY <3>1, <3>2, SuccessFacts DEF Inv, ResultsTyped
    <3>5. ASSUME f \notin mixed, NEW m \in wrapBackfillEvents(c)
          PROVE  m..c.top \subseteq wrapBackfillEvents(c)
      <4>1. /\ m \in ms /\ m \in Nat /\ c.top \in Nat /\ c.anchor \in Nat
            /\ col[f].oldest \in Nat /\ col[f].min \in Nat
        BY <1>2, <3>1, SizeAssumption
        DEF wrapBackfillEvents, Collectors, Messages
      <4>2. m..c.top \subseteq col[f].msgs
        BY <1>2, <3>1, <3>5, <4>1 DEF Seen, Contiguous
      <4>3. m..c.top \subseteq ms
        BY <3>1, <4>1, <4>2 DEF Seen
      <4>4. c.forward \in BOOLEAN /\ (~c.forward => c.anchor = c.top + 1)
        BY <1>2, <3>1 DEF Good, Collectors
      <4>5. CASE c.forward
        BY <3>1, <4>1, <4>3, <4>5 DEF wrapBackfillEvents
      <4>6. CASE ~c.forward
        BY <3>1, <4>1, <4>3, <4>4, <4>6 DEF wrapBackfillEvents
      <4> QED
        BY <4>4, <4>5, <4>6
    <3> QED
      BY <1>1, <3>1, <3>3, <3>4, <3>5 DEF GapInv, GapFree
  <2> QED
    BY <1>1, <2>1, <2>2
<1> QED
  BY <1>3, <1>4, <1>5 DEF GapInv

(* A page that reaches up to the collected range, or into it.              *)
LEMMA UpsertGap ==
  ASSUME Inv, GapInv, NEW lo, NEW hi, NEW template, NEW w, NEW by,
         Upsert(lo, hi, template, w, by),
         \A q \in Requests : w[q] > 0 => wire[q] > 0,
         registered # NoFetch /\ by \in {registered, NoFetch} =>
           col[registered].min <= hi + 1
  PROVE  GapInv'
<1>1. UNCHANGED <<st, result>> /\ w \in [Requests -> 0..MaxWire]
      /\ lo \in Messages /\ hi \in Messages
  BY DEF Upsert, handleUpsertMessages
<1>0. \A g \in Fetches, r \in Messages :
        w[<<g, r>>] > 0 => wire[<<g, r>>] > 0
  BY DEF Requests
<1>2. CASE registered = NoFetch \/ template > col[registered].min
  <2>1. UNCHANGED <<registered, col, mixed>> /\ wire' = w
    BY <1>2 DEF Upsert, handleUpsertMessages
  <2> QED
    BY <1>0, <1>1, <2>1 DEF GapInv, ColsContiguous, WireContinues, GapFree
<1>3. CASE ~(registered = NoFetch \/ template > col[registered].min)
  <2>1. PICK f : f = registered
    OBVIOUS
  <2> DEFINE c == Join(col[f], lo, hi)
  <2>2. /\ f \in Fetches /\ st[f] # "idle" /\ c.min = lo /\ lo <= col[f].min
        /\ c.top = col[f].top /\ c.msgs = col[f].msgs \cup lo..hi
        /\ col' = [col EXCEPT ![f] = c]
        /\ wire' \in {w, More(w, f, lo)}
        /\ mixed' = IF by \in {f, NoFetch} THEN mixed ELSE mixed \cup {f}
    BY <1>3, <2>1, UpsertFacts
  <2> HIDE DEF c
  <2>3. /\ lo \in Nat /\ hi \in Nat /\ col[f].min \in Nat /\ col[f].top \in Nat
        /\ col[f].msgs \subseteq Nat
    BY <1>1, <2>2, SizeAssumption DEF Inv, ColsTyped, Collectors, Messages
  <2>4. ASSUME f \notin mixed' PROVE Contiguous(c)
    <3>1. Contiguous(col[f]) /\ col[f].min <= hi + 1
      BY <1>3, <2>1, <2>2, <2>4 DEF GapInv, ColsContiguous
    <3> QED
      BY <2>2, <2>3, <3>1 DEF Contiguous
  <2>5. /\ col'[f] = c /\ \A g \in Fetches \ {f} : col'[g] = col[g]
    BY <2>2 DEF Inv, ColsTyped
  <2>0. mixed \subseteq mixed'
    BY <2>2
  <2>6. ColsContiguous'
    BY <1>1, <2>0, <2>4, <2>5 DEF GapInv, ColsContiguous
  <2>7. GapFree'
    BY <1>1, <2>0, <2>2, <2>5 DEF GapInv, GapFree
  <2>8. WireContinues'
    <3> SUFFICES ASSUME NEW g \in Fetches, NEW r \in Messages,
                        wire'[<<g, r>>] > 0
                 PROVE  st[g] # "idle" /\ col'[g].min <= r
      BY <1>1 DEF WireContinues
    <3>1. CASE g = f /\ r = lo
      BY <2>2, <2>3, <2>5, <3>1
    <3>2. CASE ~(g = f /\ r = lo)
      <4>1. wire'[<<g, r>>] = w[<<g, r>>]
        BY <1>1, <2>2, <3>2, MoreFacts DEF Requests
      <4>2. st[g] # "idle" /\ col[g].min <= r
        BY <1>0, <4>1 DEF GapInv, WireContinues
      <4>3. CASE g = f
        BY <2>2, <2>3, <2>5, <4>2, <4>3 DEF Messages
      <4>4. CASE g # f
        BY <2>5, <4>2, <4>4
      <4> QED
        BY <4>3, <4>4
    <3> QED
      BY <3>1, <3>2
  <2> QED
    BY <2>6, <2>7, <2>8 DEF GapInv
<1> QED
  BY <1>2, <1>3

(* That there is no more history adds no message.                          *)
LEMMA TheEndGap ==
  ASSUME Inv, GapInv, NEW g \in Fetches, NEW noMore \in BOOLEAN,
         handleUpdateExistingMessageRange(g, 1, noMore)
  PROVE  GapInv'
<1> USE DEF handleUpdateExistingMessageRange, history
<1>1. UNCHANGED <<st, result, mixed>>
  OBVIOUS
<1>2. \A q \in Requests : wire'[q] > 0 => wire[q] > 0
  <2>1. wire[<<g, 1>>] > 0 /\ wire' = [wire EXCEPT ![<<g, 1>>] = @ - 1]
    BY DEF Taken
  <2> HIDE DEF handleUpdateExistingMessageRange
  <2> QED
    BY <2>1 DEF Inv, WireTyped
<1>3. ASSUME NEW f \in Fetches
      PROVE  /\ col'[f].msgs = col[f].msgs /\ col'[f].min = col[f].min
             /\ col'[f].top = col[f].top
  BY DEF Inv, ColsTyped, Collectors
<1> HIDE DEF handleUpdateExistingMessageRange
<1>4. ColsContiguous' /\ GapFree'
  BY <1>1, <1>3 DEF GapInv, ColsContiguous, Contiguous, GapFree
<1>5. WireContinues'
  BY <1>1, <1>2, <1>3 DEF Requests, GapInv, WireContinues
<1> QED
  BY <1>4, <1>5 DEF GapInv

(* The late delete, and stuttering, add no message either.                 *)
LEMMA OthersGap == GapInv /\ (DeleteCollector \/ UNCHANGED vars) => GapInv'
BY DEF DeleteCollector, vars, GapInv, ColsContiguous, WireContinues, GapFree

(* Every step keeps the collected ranges without a gap.                    *)
LEMMA NextGap ==
  ASSUME Inv, GapInv, [Next]_vars
  PROVE  GapInv'
<1>1. ASSUME NEW g \in Fetches, NEW r \in Messages, NEW lo \in Messages,
             Answer(g, r, lo)
      PROVE  GapInv'
  <2>1. \A q \in Requests : Taken(<<g, r>>)[q] > 0 => wire[q] > 0
    BY <1>1 DEF Answer, Taken, Inv, WireTyped
  <2>2. registered # NoFetch /\ g \in {registered, NoFetch} =>
          col[registered].min <= (r - 1) + 1
    <3>1. (r - 1) + 1 = r
      BY DEF Messages
    <3>2. col[g].min <= r
      BY <1>1 DEF Answer, GapInv, WireContinues
    <3> QED
      BY <3>1, <3>2, FetchAssumption
  <2> QED
    BY <1>1, <2>1, <2>2, UpsertGap DEF Answer
<1>2. ASSUME NEW lo \in Messages, Upsert(lo, Last, Last, wire, NoFetch)
      PROVE  GapInv'
  <2>1. registered # NoFetch => col[registered].min <= Last + 1
    BY SizeAssumption DEF Inv, PlacesTyped, ColsTyped, Collectors
  <2> QED
    BY <1>2, <2>1, UpsertGap
<1> QED
  BY <1>1, <1>2, Steps, StartGap, OwnGap, TheEndGap, OthersGap

(* What a fetch brings has no gap, in whatever order requests, answers,    *)
(* ticks and pushes come, late answers included, unless                    *)
(* handleUpsertMessages joined an answer to another fetch's request to it. *)
THEOREM HistoryHasNoGap == Spec => []GapFree
<1>1. Init => Inv /\ GapInv
  BY InitInv, InitGap
<1>2. (Inv /\ GapInv) /\ [Next]_vars => (Inv /\ GapInv)'
  BY NextKeeps, NextGap
<1>3. GapInv => GapFree
  BY DEF GapInv
<1> QED
  BY <1>1, <1>2, <1>3, PTL DEF Spec
=============================================================================
