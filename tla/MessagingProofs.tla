--------------------------- MODULE MessagingProofs --------------------------
(***************************************************************************)
(* Proofs about Messaging, for any finite set of sends, any set of edits,  *)
(* any number of tries and any capacity of the edit channels; then about   *)
(* the other handlers of Matrix events (MatrixHandlers), for any event and *)
(* any answers, and about the IDs of direct media (DirectMedia).           *)
(***************************************************************************)
EXTENDS Messaging, Integers, FiniteSetTheorems, SequenceTheorems, TLAPS

CONSTANTS Sent,                 \* the messages of a chat
          Self                  \* the user
VARIABLES firstRead, lastRead,  \* the times of the receipts so far
          marks, marked         \* messages marked by the last one, by all

MH == INSTANCE MatrixHandlers
DM == INSTANCE DirectMedia

(* The parts of TypeOK: connection, sends, edits, channels.                *)
FlagsTyped == up \in BOOLEAN /\ recent \in BOOLEAN
CountersTyped == flaps \in 0..MaxFlaps /\ others \in 0..MaxOther
ConnTyped == FlagsTyped /\ CountersTyped
SendsTyped ==
  /\ spc \in [Sends -> SendSteps] /\ result \in [Sends -> Results]
  /\ otid \in [Sends -> Nat] /\ nextOtid \in Nat \ {0}
  /\ stored \in [Otids -> SUBSET Sends]
  /\ tries \in [Sends -> 0..MaxTries]
EditsTyped ==
  /\ epc \in [Edits -> EditSteps] /\ verdict \in [Edits -> Verdicts]
  /\ asked \in [Edits -> {"none"} \cup EditAnswers]
  /\ channel \in Edits \cup {None}
  /\ cause \in [Edits -> SUBSET {"late", "overlap", "dropped", "unknown"}]
BuffersTyped ==
  /\ buf \in [Edits -> Seq(Texts)] /\ pushes \in Seq(Texts)
  /\ \A e \in Edits : Len(buf[e]) <= EditCap

(* The invariant behind ExactlyOnce: an otid is given when a send starts,  *)
(* once, and no other send gets it; the server has a message only under    *)
(* the otid of the send that made it.                                      *)
Started == {s \in Sends : spc[s] # "idle"}
OtidsCounted == nextOtid = Cardinality(Started) + 1
OtidsGiven ==
  \A s \in Sends : IF spc[s] = "idle" THEN otid[s] = 0
                                      ELSE otid[s] \in 1..nextOtid - 1
OtidsDistinct == \A s, t \in Started : otid[s] = otid[t] => s = t
StoredByOwner ==
  \A o \in Otids : \A s \in stored[o] : s \in Started /\ otid[s] = o
OkIsStored == \A s \in Sends :
  result[s] = "ok" => spc[s] = "done" /\ s \in stored[otid[s]]
TriesLeft == \A s \in Sends : spc[s] # "done" => tries[s] < MaxTries
SendInv == /\ SendsTyped /\ OtidsCounted /\ OtidsGiven /\ OtidsDistinct
           /\ StoredByOwner /\ OkIsStored /\ TriesLeft

(* The invariant behind EditReportIsTrue: only an edit that the server     *)
(* took and did not say so is ever pushed; while its handler waits, the    *)
(* push is on its way, or in the handler's channel, or there is a cause;   *)
(* and a handler that waits has its channel registered, or another edit    *)
(* of the message overlapped.                                              *)
PushedIsLate ==
  \A e \in Edits :
    /\ e \in ToSet(pushes) => asked[e] = "late"
    /\ \A x \in Edits : e \in ToSet(buf[x]) => asked[e] = "late"
NotYetAsked == \A e \in Edits : epc[e] \in {"idle", "ask"} => asked[e] = "none"
WaitingPushed ==
  \A e \in Edits : epc[e] = "correction" /\ asked[e] = "late" =>
    e \in ToSet(pushes) \cup ToSet(buf[e]) \/ cause[e] # {}
WaitingRegistered ==
  \A e \in Edits : epc[e] \in {"ask", "correction"} =>
    channel = e \/ cause[e] # {}
VerdictLast == \A e \in Edits : verdict[e] # "none" => epc[e] = "done"
EditInv == /\ EditsTyped /\ BuffersTyped /\ PushedIsLate /\ NotYetAsked
           /\ WaitingPushed /\ WaitingRegistered /\ VerdictLast
           /\ EditReportIsTrue

-----------------------------------------------------------------------------
(* ToSet of the sequences that the handlers build and take apart.          *)
LEMMA SetIs ==
  ASSUME NEW S, NEW q \in Seq(S)
  PROVE  ToSet(q) = {q[n] : n \in 1..Len(q)} /\ Len(q) \in Nat
BY DEF ToSet

(* A queue after a push, as a set.                                         *)
LEMMA AppendSet ==
  ASSUME NEW S, NEW q \in Seq(S), NEW x \in S
  PROVE  /\ Append(q, x) \in Seq(S) /\ Len(Append(q, x)) = Len(q) + 1
         /\ ToSet(Append(q, x)) = ToSet(q) \cup {x}
<1>1. /\ Append(q, x) \in Seq(S) /\ Len(Append(q, x)) = Len(q) + 1
      /\ \A n \in 1..Len(q) : Append(q, x)[n] = q[n]
      /\ Append(q, x)[Len(q) + 1] = x /\ Len(q) \in Nat
  OBVIOUS
<1>2. /\ ToSet(q) = {q[n] : n \in 1..Len(q)}
      /\ ToSet(Append(q, x)) = {Append(q, x)[n] : n \in 1..Len(q) + 1}
  BY <1>1, SetIs
<1> QED
  BY <1>1, <1>2

(* A queue after a pop, as a set.                                          *)
LEMMA TailSet ==
  ASSUME NEW S, NEW q \in Seq(S), q # <<>>
  PROVE  /\ Head(q) \in S /\ Tail(q) \in Seq(S)
         /\ ToSet(q) = ToSet(Tail(q)) \cup {Head(q)}
         /\ Len(q) \in Nat /\ Len(Tail(q)) = Len(q) - 1
<1>1. /\ Head(q) \in S /\ Tail(q) \in Seq(S) /\ Head(q) = q[1]
      /\ Len(q) \in Nat \ {0} /\ Len(Tail(q)) = Len(q) - 1
      /\ \A n \in 1..Len(Tail(q)) :
           Tail(q)[n] = q[n + 1] /\ n + 1 \in 1..Len(q)
  OBVIOUS
<1>2. \A m \in 1..Len(q) :
        m = 1 \/ (m - 1 \in 1..Len(Tail(q)) /\ q[m] = Tail(q)[m - 1])
  BY <1>1
<1>3. /\ ToSet(q) = {q[n] : n \in 1..Len(q)}
      /\ ToSet(Tail(q)) = {Tail(q)[n] : n \in 1..Len(Tail(q))}
  BY <1>1, SetIs
<1>4. ToSet(q) \subseteq ToSet(Tail(q)) \cup {Head(q)}
  BY <1>1, <1>2, <1>3
<1>5. ToSet(Tail(q)) \cup {Head(q)} \subseteq ToSet(q)
  BY <1>1, <1>3
<1> QED
  BY <1>1, <1>4, <1>5

(* There are at least as many otids as sends.                              *)
LEMMA Enough == \A c \in Nat, m \in Nat \ {0} : c <= c * m /\ c * m \in Nat
OBVIOUS


(* The otids handed out lie in Otids, one per started send.                *)
LEMMA OtidFacts ==
  SendInv => /\ IsFiniteSet(Started) /\ Cardinality(Started) \in Nat
             /\ Cardinality(Started) <= Cardinality(Sends)
             /\ \A s \in Started : otid[s] \in Otids
<1> SUFFICES ASSUME SendInv
             PROVE  /\ IsFiniteSet(Started) /\ Cardinality(Started) \in Nat
                    /\ Cardinality(Started) <= Cardinality(Sends)
                    /\ \A s \in Started : otid[s] \in Otids
  OBVIOUS
<1>1. Started \subseteq Sends
  BY DEF Started
<1>2. /\ IsFiniteSet(Started) /\ Cardinality(Started) \in Nat
      /\ Cardinality(Sends) \in Nat
      /\ Cardinality(Started) <= Cardinality(Sends)
  BY <1>1, SendsAssumption, FS_Subset, FS_CardinalityType
<1>3. Cardinality(Sends) <= Cardinality(Sends) * MaxTries
  BY <1>2, Enough, TriesAssumption
<1>4. Cardinality(Sends) * MaxTries \in Nat
  BY <1>2, Enough, TriesAssumption
<1>5. \A s \in Started : otid[s] \in 1..Cardinality(Started)
  BY <1>2 DEF SendInv, OtidsCounted, OtidsGiven, Started
<1> QED
  BY <1>2, <1>3, <1>4, <1>5 DEF Otids

(* No send has started at first.                                           *)
LEMMA InitSends == Init => SendInv
<1> SUFFICES ASSUME Init PROVE SendInv
  OBVIOUS
<1>1. SendsTyped
  BY TriesAssumption DEF Init, SendsTyped, SendSteps, Results
<1>2. Started = {} /\ Cardinality({}) = 0
  BY FS_EmptySet DEF Init, Started
<1>3. OtidsCounted /\ OtidsDistinct
  BY <1>2 DEF Init, OtidsCounted, OtidsDistinct
<1>4. OtidsGiven /\ StoredByOwner /\ OkIsStored /\ TriesLeft
  BY TriesAssumption
  DEF Init, OtidsGiven, StoredByOwner, OkIsStored, TriesLeft
<1> QED
  BY <1>1, <1>3, <1>4 DEF SendInv

(* A send starts and gets the next otid.                                   *)
LEMMA StartKeeps ==
  ASSUME SendInv, NEW s \in Sends, HandleMatrixMessage(s)
  PROVE  SendInv'
<1> USE DEF HandleMatrixMessage, getOTID, SGoto, SReturn
<1>1. SendsTyped'
  BY DEF SendInv, SendsTyped, SendSteps, Results
<1>2. s \notin Started /\ Started' = Started \cup {s}
  BY DEF SendInv, SendsTyped, Started
<1>3. OtidsCounted'
  <2>1. Cardinality(Started \cup {s}) = Cardinality(Started) + 1
    BY <1>2, OtidFacts, FS_AddElement
  <2> QED
    BY <1>2, <2>1 DEF SendInv, OtidsCounted
<1>4. OtidsGiven'
  BY DEF SendInv, SendsTyped, OtidsGiven
<1>5. OtidsDistinct'
  <2>1. \A t \in Started : t \in Sends /\ otid[t] # nextOtid /\ t # s
    BY <1>2 DEF SendInv, SendsTyped, OtidsGiven, Started
  <2>2. otid'[s] = nextOtid /\ \A t \in Started : otid'[t] = otid[t]
    BY <2>1 DEF SendInv, SendsTyped
  <2> HIDE DEF HandleMatrixMessage
  <2> QED
    BY <1>2, <2>1, <2>2 DEF SendInv, OtidsDistinct
<1>6. StoredByOwner'
  <2>1. \A t \in Started : t # s /\ t \in Sends
    BY <1>2 DEF Started
  <2> QED
    BY <1>2, <2>1 DEF SendInv, SendsTyped, StoredByOwner
<1>7. OkIsStored' /\ TriesLeft'
  BY DEF SendInv, SendsTyped, OkIsStored, TriesLeft
<1> QED
  BY <1>1, <1>3, <1>4, <1>5, <1>6, <1>7 DEF SendInv

(* The other steps of a send keep its otid.                                *)
LEMMA GoOnKeeps ==
  ASSUME SendInv, NEW s \in Sends, SendStep(s)
  PROVE  SendInv'
<1>0. TriesLeft' /\ tries' \in [Sends -> 0..MaxTries]
  BY TriesAssumption
  DEF SendInv, SendsTyped, TriesLeft, SendStep, ToMeta, FullReconnect,
      CannotSend, SendTask, NextTry, SGoto, SReturn, Answers
<1>1. /\ s \in Started /\ otid[s] \in Otids
      /\ otid' = otid /\ nextOtid' = nextOtid
      /\ spc' \in [Sends -> SendSteps] /\ result' \in [Sends -> Results]
      /\ \A t \in Sends : spc'[t] = "idle" <=> spc[t] = "idle"
      /\ \A t \in Sends \ {s} : result'[t] = result[t] /\ spc'[t] = spc[t]
  BY OtidFacts
  DEF SendInv, SendsTyped, Started, SendStep, ToMeta, FullReconnect,
      CannotSend, SendTask, NextTry, SGoto, SReturn, SendSteps, Results
<1>2. stored' \in {stored, [stored EXCEPT ![otid[s]] = @ \cup {s}]}
  BY DEF SendStep, ToMeta, FullReconnect, CannotSend, SendTask, ServerStores
<1>3. result'[s] = "ok" => s \in stored'[otid[s]] /\ spc'[s] = "done"
  BY <1>1
  DEF SendInv, OkIsStored, SendsTyped, SendStep, ToMeta, FullReconnect,
      CannotSend, SendTask, ServerStores, NextTry, SGoto, SReturn, Answers
<1>4. SendsTyped'
  BY <1>0, <1>1, <1>2 DEF SendInv, SendsTyped
<1>5. Started' = Started
  BY <1>1 DEF Started
<1>6. OtidsCounted' /\ OtidsGiven' /\ OtidsDistinct'
  BY <1>1, <1>5 DEF SendInv, OtidsCounted, OtidsGiven, OtidsDistinct
<1>7. StoredByOwner'
  BY <1>1, <1>2, <1>5 DEF SendInv, SendsTyped, StoredByOwner
<1>8. OkIsStored'
  <2>1. \A o \in Otids : stored[o] \subseteq stored'[o]
    BY <1>1, <1>2 DEF SendInv, SendsTyped
  <2>2. \A t \in Sends : result[t] = "ok" => otid[t] \in Otids
    BY OtidFacts DEF SendInv, OkIsStored, Started
  <2> QED
    BY <1>1, <1>3, <2>1, <2>2 DEF SendInv, OkIsStored
<1> QED
  BY <1>0, <1>4, <1>6, <1>7, <1>8 DEF SendInv

(* Steps that touch no send keep the invariant.                            *)
LEMMA OthersKeepSends == SendInv /\ UNCHANGED sendVars => SendInv'
BY DEF sendVars, SendInv, SendsTyped, OtidsCounted, OtidsGiven, OtidsDistinct,
       StoredByOwner, OkIsStored, TriesLeft, Started

(* Every step keeps what the server stores with its otid.                  *)
LEMMA NextSends == SendInv /\ [Next]_vars => SendInv'
<1> SUFFICES ASSUME SendInv, [Next]_vars PROVE SendInv'
  OBVIOUS
<1>1. CASE \E s \in Sends : HandleMatrixMessage(s) \/ SendStep(s)
  BY <1>1, StartKeeps, GoOnKeeps
<1>2. CASE ~\E s \in Sends : HandleMatrixMessage(s) \/ SendStep(s)
  <2>1. UNCHANGED sendVars
    BY <1>2 DEF Next, Done, vars, Flap, OtherEdit, handleEdit, EditStep,
       AskEdit, TakeCorrection, CorrectionTimesOut, HandleMatrixEdit,
       EUnchanged
  <2> QED
    BY <2>1, OthersKeepSends
<1> QED
  BY <1>1, <1>2

(* A set whose elements are all equal has at most one.                     *)
LEMMA AtMostOne ==
  ASSUME NEW S, \A x, y \in S : x = y
  PROVE  Cardinality(S) <= 1
<1>1. CASE S = {}
  BY <1>1, FS_EmptySet
<1>2. CASE S # {}
  <2>1. PICK x \in S : TRUE
    BY <1>2
  <2>2. S = {x}
    BY <2>1
  <2>3. Cardinality({x}) = 1
    BY FS_Singleton
  <2> QED
    BY <2>2, <2>3
<1> QED
  BY <1>1, <1>2

(* For any number of sends and of tries, a Matrix message becomes at most  *)
(* one message on the server, no server message stands for two of them,    *)
(* and HandleMatrixMessage reports success only if there is one.           *)
THEOREM SentExactlyOnce == Spec => []ExactlyOnce
<1>1. SendInv => ExactlyOnce
  <2> SUFFICES ASSUME SendInv PROVE ExactlyOnce
    OBVIOUS
  <2>1. ASSUME NEW s \in Sends
        PROVE  Cardinality({o \in Otids : s \in stored[o]}) <= 1
    <3>1. \A o, p \in {o \in Otids : s \in stored[o]} : o = p
      BY DEF SendInv, StoredByOwner
    <3> QED
      BY <3>1, AtMostOne
  <2>2. ASSUME NEW o \in Otids
        PROVE  Cardinality(stored[o]) <= 1
    <3>1. \A s, t \in stored[o] : s = t
      BY DEF SendInv, StoredByOwner, OtidsDistinct
    <3> QED
      BY <3>1, AtMostOne
  <2>3. \A s \in Sends : result[s] = "ok" => s \in stored[otid[s]]
    BY DEF SendInv, OkIsStored
  <2> QED
    BY <2>1, <2>2, <2>3 DEF ExactlyOnce
<1> QED
  BY <1>1, InitSends, NextSends, PTL DEF Spec

-----------------------------------------------------------------------------
(* Edits.                                                                  *)

(* No edit has started at first.                                           *)
LEMMA InitEdits == Init => EditInv
<1> SUFFICES ASSUME Init PROVE EditInv
  OBVIOUS
<1>1. EditsTyped
  BY DEF Init, EditsTyped, EditSteps, Verdicts
<1>2. BuffersTyped
  BY TriesAssumption DEF Init, BuffersTyped
<1>3. ToSet(<<>>) = {}
  BY DEF ToSet
<1> QED
  BY <1>1, <1>2, <1>3
  DEF Init, EditInv, PushedIsLate, NotYetAsked, WaitingPushed,
      WaitingRegistered, VerdictLast, EditReportIsTrue

(* What a return of HandleMatrixEdit changes.                              *)
LEMMA ReturnFacts ==
  ASSUME EditsTyped, NEW e \in Edits, NEW v \in Verdicts, EReturn(e, v)
  PROVE  /\ epc' = [epc EXCEPT ![e] = "done"]
         /\ verdict' = [verdict EXCEPT ![e] = v]
         /\ channel' = None
         /\ cause' \in [Edits ->
                          SUBSET {"late", "overlap", "dropped", "unknown"}]
         /\ \A x \in Edits : cause[x] \subseteq cause'[x]
         /\ channel \in Edits \ {e} => cause'[channel] # {}
         /\ e \in ToSet(pushes) \cup ToSet(buf[e]) => cause'[e] # {}
         /\ epc' \in [Edits -> EditSteps] /\ verdict' \in [Edits -> Verdicts]
<1>1. cause' = [x \in Edits |->
       CASE x = channel /\ x # e -> cause[x] \cup {"overlap"}
         [] x = e /\ e \in ToSet(pushes) \cup ToSet(buf[e]) ->
              cause[x] \cup {"late"}
         [] OTHER -> cause[x]]
  BY DEF EReturn
<1>2. ASSUME NEW x \in Edits
      PROVE  /\ cause'[x] \in {cause[x], cause[x] \cup {"overlap"},
                               cause[x] \cup {"late"}}
             /\ x = channel /\ x # e => cause'[x] = cause[x] \cup {"overlap"}
             /\ x = e /\ e \in ToSet(pushes) \cup ToSet(buf[e]) =>
                  cause'[x] = cause[x] \cup {"late"}
  BY <1>1
<1>3. cause' \in [Edits -> SUBSET {"late", "overlap", "dropped", "unknown"}]
  <2>1. \A x \in Edits :
          cause'[x] \in SUBSET {"late", "overlap", "dropped", "unknown"}
    BY <1>2 DEF EditsTyped
  <2> QED
    BY <1>1, <2>1
<1>4. /\ \A x \in Edits : cause[x] \subseteq cause'[x]
      /\ channel \in Edits \ {e} => cause'[channel] # {}
      /\ e \in ToSet(pushes) \cup ToSet(buf[e]) => cause'[e] # {}
  BY <1>2
<1> QED
  BY <1>3, <1>4 DEF EReturn, EditsTyped, EditSteps

(* editChannels.Set: a channel that was there belongs to an edit that is   *)
(* still being handled, and loses its place.                               *)
LEMMA RegisterKeeps ==
  ASSUME EditInv, NEW e \in Edits, NEW converts \in BOOLEAN,
         HandleMatrixEdit(e, converts)
  PROVE  EditInv'
<1> USE DEF HandleMatrixEdit
<1>1. buf' = buf /\ pushes' = pushes /\ asked' = asked
  OBVIOUS
<1>2. /\ \A x \in Edits : cause[x] \subseteq cause'[x]
      /\ cause' \in [Edits ->
                       SUBSET {"late", "overlap", "dropped", "unknown"}]
      /\ channel \in Edits /\ channel' # channel => cause'[channel] # {}
  BY NoneAssumption DEF EditInv, EditsTyped
<1>3. /\ epc' \in [Edits -> EditSteps] /\ verdict' \in [Edits -> Verdicts]
      /\ channel' \in Edits \cup {None}
      /\ \A x \in Edits \ {e} : epc'[x] = epc[x] /\ verdict'[x] = verdict[x]
      /\ \/ epc'[e] = "done" /\ verdict'[e] \in {"error", "notConnected"}
         \/ epc'[e] = "ask" /\ verdict'[e] = verdict[e] /\ channel' = e
      /\ epc[e] = "idle"
  BY DEF EditInv, EditsTyped, EditSteps, Verdicts
<1> HIDE DEF HandleMatrixEdit
<1>4. EditsTyped' /\ BuffersTyped'
  BY <1>1, <1>2, <1>3 DEF EditInv, EditsTyped, BuffersTyped
<1>5. PushedIsLate' /\ NotYetAsked'
  BY <1>1, <1>3 DEF EditInv, PushedIsLate, NotYetAsked
<1>6. WaitingPushed' /\ WaitingRegistered'
  BY <1>1, <1>2, <1>3 DEF EditInv, EditsTyped, WaitingPushed, WaitingRegistered
<1>7. VerdictLast' /\ EditReportIsTrue'
  BY <1>1, <1>2, <1>3 DEF EditInv, VerdictLast, EditReportIsTrue
<1> QED
  BY <1>4, <1>5, <1>6, <1>7 DEF EditInv

(* The common part of the steps in which an edit's handler returns or      *)
(* waits on.                                                               *)
LEMMA AskKeeps ==
  ASSUME EditInv, NEW e \in Edits, NEW a \in EditAnswers, AskEdit(e, a)
  PROVE  EditInv'
<1>1. /\ epc[e] = "ask" /\ asked' = [asked EXCEPT ![e] = a] /\ buf' = buf
      /\ pushes' = IF a = "late" THEN Append(pushes, e) ELSE pushes
      /\ asked[e] = "none"
  BY DEF AskEdit, EditInv, NotYetAsked
<1>2. /\ pushes' \in Seq(Texts)
      /\ ToSet(pushes') = IF a = "late" THEN ToSet(pushes) \cup {e}
                                        ELSE ToSet(pushes)
  <2>1. pushes \in Seq(Texts) /\ e \in Texts
    BY DEF EditInv, BuffersTyped, Texts
  <2>2. /\ Append(pushes, e) \in Seq(Texts)
        /\ ToSet(Append(pushes, e)) = ToSet(pushes) \cup {e}
    BY <2>1, AppendSet
  <2> QED
    BY <1>1, <2>1, <2>2
<1>3. BuffersTyped' /\ PushedIsLate'
  BY <1>1, <1>2 DEF EditInv, EditsTyped, BuffersTyped, PushedIsLate
<1>4. asked' \in [Edits -> {"none"} \cup EditAnswers]
  BY <1>1 DEF EditInv, EditsTyped
<1>5. CASE a \in {"late", "reject"}
  <2>1. /\ epc' = [epc EXCEPT ![e] = "correction"] /\ verdict' = verdict
        /\ channel' = channel /\ cause' = cause
    BY <1>5 DEF AskEdit
  <2>2. EditsTyped'
    BY <1>4, <2>1 DEF EditInv, EditsTyped, EditSteps
  <2>3. NotYetAsked' /\ VerdictLast' /\ EditReportIsTrue'
    BY <1>1, <2>1
    DEF EditInv, EditsTyped, NotYetAsked, VerdictLast, EditReportIsTrue
  <2>4. WaitingPushed' /\ WaitingRegistered'
    BY <1>1, <1>2, <2>1
    DEF EditInv, EditsTyped, WaitingPushed, WaitingRegistered
  <2> QED
    BY <1>3, <2>2, <2>3, <2>4 DEF EditInv
<1>6. CASE a \notin {"late", "reject"}
  <2> DEFINE v == IF a = "error" THEN "error" ELSE "ok"
  <2>1. v \in Verdicts /\ EReturn(e, v) /\ v # "reverted"
    BY <1>6 DEF AskEdit, Verdicts
  <2> HIDE DEF v
  <2>2. /\ epc' = [epc EXCEPT ![e] = "done"]
        /\ verdict' = [verdict EXCEPT ![e] = v]
        /\ channel' = None
        /\ cause' \in [Edits ->
                         SUBSET {"late", "overlap", "dropped", "unknown"}]
        /\ \A x \in Edits : cause[x] \subseteq cause'[x]
        /\ channel \in Edits \ {e} => cause'[channel] # {}
        /\ epc' \in [Edits -> EditSteps] /\ verdict' \in [Edits -> Verdicts]
    BY <2>1, ReturnFacts DEF EditInv
  <2>3. EditsTyped'
    BY <1>4, <2>2 DEF EditsTyped
  <2>4. NotYetAsked' /\ VerdictLast' /\ EditReportIsTrue'
    BY <1>1, <1>6, <2>1, <2>2
    DEF EditInv, EditsTyped, NotYetAsked, VerdictLast, EditReportIsTrue
  <2>5. WaitingPushed' /\ WaitingRegistered'
    BY <1>1, <1>2, <2>2
    DEF EditInv, EditsTyped, WaitingPushed, WaitingRegistered
  <2> QED
    BY <1>3, <2>3, <2>4, <2>5 DEF EditInv
<1> QED
  BY <1>5, <1>6

(* The handler takes an edit from its channel.                             *)
LEMMA TakeKeeps ==
  ASSUME EditInv, NEW e \in Edits, TakeCorrection(e)
  PROVE  EditInv'
<1>1. /\ epc[e] = "correction" /\ asked' = asked /\ pushes' = pushes
      /\ buf' = [buf EXCEPT ![e] = Tail(@)] /\ buf[e] # <<>>
  BY DEF TakeCorrection
<1>2. buf[e] \in Seq(Texts) /\ Len(buf[e]) <= EditCap
  BY DEF EditInv, BuffersTyped
<1>3. /\ ToSet(buf[e]) = ToSet(Tail(buf[e])) \cup {Head(buf[e])}
      /\ Tail(buf[e]) \in Seq(Texts) /\ Len(Tail(buf[e])) = Len(buf[e]) - 1
      /\ Len(buf[e]) \in Nat
  BY <1>1, <1>2, TailSet
<1>4. /\ \A x \in Edits \ {e} : buf'[x] = buf[x]
      /\ buf'[e] = Tail(buf[e])
  BY <1>1 DEF EditInv, BuffersTyped
<1>5. BuffersTyped'
  BY <1>1, <1>2, <1>3, <1>4, TriesAssumption DEF EditInv, BuffersTyped
<1>6. PushedIsLate'
  BY <1>1, <1>3, <1>4 DEF EditInv, PushedIsLate
<1>7. CASE Head(buf[e]) = e
  <2>0. "ok" \in Verdicts /\ EReturn(e, "ok")
    BY <1>7 DEF TakeCorrection, Verdicts
  <2>1. /\ epc' = [epc EXCEPT ![e] = "done"]
        /\ verdict' = [verdict EXCEPT ![e] = "ok"]
        /\ channel' = None
        /\ cause' \in [Edits ->
                         SUBSET {"late", "overlap", "dropped", "unknown"}]
        /\ \A x \in Edits : cause[x] \subseteq cause'[x]
        /\ channel \in Edits \ {e} => cause'[channel] # {}
        /\ epc' \in [Edits -> EditSteps] /\ verdict' \in [Edits -> Verdicts]
    BY <2>0, ReturnFacts DEF EditInv
  <2>2. asked[e] = "late"
    BY <1>3, <1>7 DEF EditInv, PushedIsLate
  <2>3. EditsTyped'
    BY <1>1, <2>1 DEF EditInv, EditsTyped
  <2>4. NotYetAsked' /\ VerdictLast' /\ EditReportIsTrue'
    BY <1>1, <2>1, <2>2
    DEF EditInv, EditsTyped, NotYetAsked, VerdictLast, EditReportIsTrue
  <2>5. WaitingPushed' /\ WaitingRegistered'
    BY <1>1, <1>4, <2>1
    DEF EditInv, EditsTyped, WaitingPushed, WaitingRegistered
  <2> QED
    BY <1>5, <1>6, <2>3, <2>4, <2>5 DEF EditInv
<1>8. CASE Head(buf[e]) # e
  <2>1. UNCHANGED <<epc, verdict, channel, cause>>
    BY <1>8 DEF TakeCorrection
  <2>2. WaitingPushed'
    BY <1>1, <1>3, <1>4, <1>8, <2>1 DEF EditInv, WaitingPushed
  <2> QED
    BY <1>1, <1>5, <1>6, <2>1, <2>2
    DEF EditInv, EditsTyped, NotYetAsked, WaitingRegistered, VerdictLast,
        EditReportIsTrue
<1> QED
  BY <1>7, <1>8

(* The five seconds are over.                                              *)
LEMMA TimeoutKeeps ==
  ASSUME EditInv, NEW e \in Edits, CorrectionTimesOut(e)
  PROVE  EditInv'
<1>1. /\ epc[e] = "correction" /\ asked' = asked /\ pushes' = pushes
      /\ buf' = buf /\ EReturn(e, "reverted") /\ "reverted" \in Verdicts
  BY DEF CorrectionTimesOut, Verdicts
<1>2. /\ epc' = [epc EXCEPT ![e] = "done"]
      /\ verdict' = [verdict EXCEPT ![e] = "reverted"]
      /\ channel' = None
      /\ cause' \in [Edits ->
                       SUBSET {"late", "overlap", "dropped", "unknown"}]
      /\ \A x \in Edits : cause[x] \subseteq cause'[x]
      /\ channel \in Edits \ {e} => cause'[channel] # {}
      /\ e \in ToSet(pushes) \cup ToSet(buf[e]) => cause'[e] # {}
      /\ epc' \in [Edits -> EditSteps] /\ verdict' \in [Edits -> Verdicts]
  BY <1>1, ReturnFacts DEF EditInv
<1>3. EditsTyped' /\ BuffersTyped' /\ PushedIsLate'
  BY <1>1, <1>2 DEF EditInv, EditsTyped, BuffersTyped, PushedIsLate
<1>4. NotYetAsked' /\ VerdictLast'
  BY <1>1, <1>2 DEF EditInv, EditsTyped, NotYetAsked, VerdictLast
<1>5. EditReportIsTrue'
  <2>1. asked[e] = "late" => cause'[e] # {}
    BY <1>1, <1>2 DEF EditInv, WaitingPushed
  <2> QED
    BY <1>1, <1>2, <2>1 DEF EditInv, EditsTyped, EditReportIsTrue
<1>6. WaitingPushed' /\ WaitingRegistered'
  BY <1>1, <1>2 DEF EditInv, EditsTyped, WaitingPushed, WaitingRegistered
<1> QED
  BY <1>3, <1>4, <1>5, <1>6 DEF EditInv

(* handleEdit: a push goes into the registered channel.                    *)
LEMMA PlaceKeeps ==
  ASSUME EditInv, NEW found \in BOOLEAN, handleEdit(found)
  PROVE  EditInv'
<1> DEFINE t == Head(pushes)
<1>1. /\ pushes # <<>> /\ pushes' = Tail(pushes)
      /\ UNCHANGED <<epc, verdict, asked, channel>>
      /\ buf' = IF found /\ Room THEN [buf EXCEPT ![channel] = Append(@, t)]
                ELSE buf
      /\ cause' = IF t \in Edits /\ ~found
                    THEN [cause EXCEPT ![t] = @ \cup {"unknown"}]
                    ELSE IF channel = t /\ ~Room
                    THEN [cause EXCEPT ![t] = @ \cup {"dropped"}]
                    ELSE cause
  BY DEF handleEdit
<1>2. /\ t \in Texts /\ pushes' \in Seq(Texts)
      /\ ToSet(pushes) = ToSet(pushes') \cup {t}
  <2>1. pushes \in Seq(Texts)
    BY DEF EditInv, BuffersTyped
  <2> QED
    BY <1>1, <2>1, TailSet
<1>3. Room => channel \in Edits /\ Len(buf[channel]) < EditCap
  BY DEF Room, EditInv, EditsTyped
<1>4. ASSUME NEW x \in Edits
      PROVE  /\ buf'[x] \in Seq(Texts) /\ Len(buf'[x]) <= EditCap
             /\ ToSet(buf'[x]) = IF found /\ Room /\ x = channel
                                 THEN ToSet(buf[x]) \cup {t} ELSE ToSet(buf[x])
  <2>1. buf[x] \in Seq(Texts) /\ Len(buf[x]) <= EditCap /\ Len(buf[x]) \in Nat
    BY DEF EditInv, BuffersTyped
  <2>2. /\ Append(buf[x], t) \in Seq(Texts)
        /\ Len(Append(buf[x], t)) = Len(buf[x]) + 1
        /\ ToSet(Append(buf[x], t)) = ToSet(buf[x]) \cup {t}
    BY <1>2, <2>1, AppendSet
  <2>3. CASE found /\ Room /\ x = channel
    <3>1. buf'[x] = Append(buf[x], t)
      BY <1>1, <2>3 DEF EditInv, BuffersTyped
    <3> QED
      BY <1>3, <2>1, <2>2, <2>3, <3>1, TriesAssumption
  <2>4. CASE ~(found /\ Room /\ x = channel)
    <3>1. buf'[x] = buf[x]
      BY <1>1, <2>4 DEF EditInv, BuffersTyped
    <3> QED
      BY <2>1, <2>4, <3>1
  <2> QED
    BY <2>3, <2>4
<1>5. BuffersTyped'
  <2>1. buf' \in [Edits -> Seq(Texts)]
    <3>1. DOMAIN buf' = Edits /\ buf' = [x \in Edits |-> buf'[x]]
      BY <1>1 DEF EditInv, BuffersTyped
    <3> QED
      BY <1>4, <3>1
  <2> QED
    BY <1>2, <1>4, <2>1 DEF BuffersTyped
<1>6. /\ cause' \in [Edits ->
                       SUBSET {"late", "overlap", "dropped", "unknown"}]
      /\ \A x \in Edits : cause[x] \subseteq cause'[x]
      /\ t \in Edits /\ ~found => cause'[t] # {}
      /\ t \in Edits /\ channel = t /\ ~Room => cause'[t] # {}
  BY <1>1, <1>2, NoneAssumption, OtherAssumption
  DEF EditInv, EditsTyped, Texts
<1> HIDE DEF t
<1>7. EditsTyped'
  BY <1>1, <1>6 DEF EditInv, EditsTyped
<1>8. PushedIsLate'
  <2>1. \A e \in Edits : e \in ToSet(pushes) => asked[e] = "late"
    BY DEF EditInv, PushedIsLate
  <2>2. ASSUME NEW e \in Edits, NEW x \in Edits, e \in ToSet(buf'[x])
        PROVE  asked[e] = "late"
    <3>1. e \in ToSet(buf[x]) \/ e = t
      BY <1>4, <2>2
    <3> QED
      BY <1>2, <2>1, <3>1 DEF EditInv, PushedIsLate
  <2> QED
    BY <1>1, <1>2, <2>1, <2>2 DEF PushedIsLate
<1>9. WaitingPushed'
  <2> SUFFICES ASSUME NEW e \in Edits, epc[e] = "correction",
                      asked[e] = "late", cause'[e] = {}
               PROVE  e \in ToSet(pushes') \cup ToSet(buf'[e])
    BY <1>1 DEF WaitingPushed
  <2>1. cause[e] = {} /\ channel = e
    BY <1>6 DEF EditInv, WaitingRegistered
  <2>2. e \in ToSet(pushes) \cup ToSet(buf[e])
    BY <2>1 DEF EditInv, WaitingPushed
  <2>3. e = t => found /\ Room
    BY <1>6, <2>1
  <2> QED
    BY <1>2, <1>4, <2>1, <2>2, <2>3
<1>10. NotYetAsked' /\ WaitingRegistered' /\ VerdictLast' /\ EditReportIsTrue'
  BY <1>1, <1>6
  DEF EditInv, NotYetAsked, WaitingRegistered, VerdictLast, EditReportIsTrue
<1> QED
  BY <1>5, <1>7, <1>8, <1>9, <1>10 DEF EditInv

(* An edit of the same message from elsewhere is a cause by itself.        *)
LEMMA OtherKeeps == EditInv /\ OtherEdit => EditInv'
<1> SUFFICES ASSUME EditInv, OtherEdit PROVE EditInv'
  OBVIOUS
<1>1. /\ pushes' = Append(pushes, Other)
      /\ UNCHANGED <<epc, verdict, asked, channel, buf, cause>>
  BY DEF OtherEdit
<1>2. pushes' \in Seq(Texts) /\ ToSet(pushes') = ToSet(pushes) \cup {Other}
  <2>1. pushes \in Seq(Texts) /\ Other \in Texts
    BY DEF EditInv, BuffersTyped, Texts
  <2> QED
    BY <1>1, <2>1, AppendSet
<1>3. EditsTyped' /\ BuffersTyped'
  BY <1>1, <1>2 DEF EditInv, EditsTyped, BuffersTyped
<1>4. PushedIsLate' /\ WaitingPushed'
  BY <1>1, <1>2, OtherAssumption DEF EditInv, PushedIsLate, WaitingPushed
<1>5. NotYetAsked' /\ WaitingRegistered' /\ VerdictLast' /\ EditReportIsTrue'
  BY <1>1
  DEF EditInv, NotYetAsked, WaitingRegistered, VerdictLast, EditReportIsTrue
<1> QED
  BY <1>3, <1>4, <1>5 DEF EditInv

(* Steps that touch no edit keep the invariant.                            *)
LEMMA SendsKeepEdits ==
  EditInv /\ UNCHANGED <<epc, verdict, asked, channel, buf, pushes, cause>>
    => EditInv'
BY DEF EditInv, EditsTyped, BuffersTyped, PushedIsLate, NotYetAsked,
       WaitingPushed, WaitingRegistered, VerdictLast, EditReportIsTrue

(* Every step keeps the reports about edits true.                          *)
LEMMA NextEdits == EditInv /\ [Next]_vars => EditInv'
<1> SUFFICES ASSUME EditInv, [Next]_vars PROVE EditInv'
  OBVIOUS
<1>1. CASE \E e \in Edits : EditStep(e)
  BY <1>1, AskKeeps, TakeKeeps, TimeoutKeeps DEF EditStep
<1>2. CASE \E e \in Edits : \E converts \in BOOLEAN :
             HandleMatrixEdit(e, converts)
  BY <1>2, RegisterKeeps
<1>3. CASE OtherEdit \/ \E found \in BOOLEAN : handleEdit(found)
  BY <1>3, OtherKeeps, PlaceKeeps
<1>4. CASE \/ Flap \/ Done \/ UNCHANGED vars
           \/ \E s \in Sends : HandleMatrixMessage(s) \/ SendStep(s)
  <2>1. UNCHANGED <<epc, verdict, asked, channel, buf, pushes, cause>>
    BY <1>4 DEF Done, vars, editVars, Flap, HandleMatrixMessage, SendStep,
                ToMeta, FullReconnect, CannotSend, SendTask
  <2> QED
    BY <2>1, SendsKeepEdits
<1> QED
  BY <1>1, <1>2, <1>3, <1>4 DEF Next

(* However the answers, the pushes, the timeouts and other edits of the    *)
(* same message interleave, HandleMatrixEdit reports success only for an   *)
(* edit that the server did not reject, and reports an edit that it took   *)
(* as reverted only for one of the known causes.                           *)
THEOREM EditReports == Spec => []EditReportIsTrue
<1>1. EditInv => EditReportIsTrue
  BY DEF EditInv
<1> QED
  BY <1>1, InitEdits, NextEdits, PTL DEF Spec

-----------------------------------------------------------------------------
(* Types.                                                                  *)

(* Every step keeps the types of the connection.                           *)
LEMMA NextConn == ConnTyped /\ [Next]_vars => ConnTyped'
<1> SUFFICES ASSUME ConnTyped, [Next]_vars PROVE ConnTyped'
  OBVIOUS
<1> USE DEF ConnTyped, connVars, vars, editVars, Flap, OtherEdit, Done,
            HandleMatrixMessage, SendStep, ToMeta, FullReconnect, CannotSend,
            SendTask, handleEdit, EditStep, AskEdit, TakeCorrection,
            CorrectionTimesOut, HandleMatrixEdit, EUnchanged, Next
<1>1. FlagsTyped'
  BY DEF FlagsTyped
<1>2. CountersTyped'
  BY BoundsAssumption DEF CountersTyped
<1> QED
  BY <1>1, <1>2

(* The variables keep their types: the otids that GenerateEpochID hands    *)
(* out stay within one per send, no send tries more often than the loop    *)
(* allows, and no edit channel holds more than its capacity.               *)
THEOREM TypeCorrect == Spec => []TypeOK
<1>1. Init => ConnTyped
  <2>1. Init => FlagsTyped
    BY DEF Init, FlagsTyped
  <2>2. Init => CountersTyped
    BY BoundsAssumption DEF Init, CountersTyped
  <2> QED
    BY <2>1, <2>2 DEF ConnTyped
<1>2. SendInv => /\ otid \in [Sends -> {0} \cup Otids]
                 /\ nextOtid \in 1..Cardinality(Sends) * MaxTries + 1
  <2> SUFFICES ASSUME SendInv
               PROVE  /\ otid \in [Sends -> {0} \cup Otids]
                      /\ nextOtid \in 1..Cardinality(Sends) * MaxTries + 1
    OBVIOUS
  <2>1. \A s \in Sends : otid[s] \in {0} \cup Otids
    BY OtidFacts DEF SendInv, OtidsGiven, Started
  <2>2. Cardinality(Sends) \in Nat /\ Cardinality(Started) \in Nat
    BY OtidFacts, SendsAssumption, FS_CardinalityType
  <2>3. /\ Cardinality(Sends) <= Cardinality(Sends) * MaxTries
        /\ Cardinality(Sends) * MaxTries \in Nat
    BY <2>2, Enough, TriesAssumption
  <2>4. nextOtid \in 1..Cardinality(Sends) * MaxTries + 1
    BY <2>2, <2>3, OtidFacts DEF SendInv, OtidsCounted
  <2> QED
    BY <2>1, <2>4 DEF SendInv, SendsTyped
<1>3. ConnTyped /\ SendInv /\ EditInv => TypeOK
  BY <1>2
  DEF ConnTyped, FlagsTyped, CountersTyped, SendInv, SendsTyped, EditInv,
      EditsTyped, BuffersTyped, TypeOK
<1> QED
  BY <1>1, <1>3, InitSends, InitEdits, NextConn, NextSends, NextEdits, PTL
  DEF Spec
-----------------------------------------------------------------------------
(* MatrixHandlers: the requests of a handler.                              *)

(* Every event a handler may get.                                          *)
MatrixEvents ==
  [loggedIn : BOOLEAN, message : STRING, connected : BOOLEAN,
   waConnected : BOOLEAN, platform : STRING, type : STRING, dm : BOOLEAN,
   remove : BOOLEAN, target : BOOLEAN, change : STRING, room : BOOLEAN]
Handlers == MH!AboutMessages \cup {"deleteChat", "name", "avatar",
                                   "membership", "createGroup"}

(* What is about a message goes to the network the message is on, and only *)
(* while the login is connected to that network (HandleMatrixReaction,     *)
(* HandleMatrixReactionRemove, HandleMatrixMessageRemove).                 *)
THEOREM RequestsGoRight ==
  ASSUME NEW handler \in MH!AboutMessages, NEW e \in MatrixEvents
  PROVE  MH!GoesToItsNetwork(e, MH!Plan(handler, e))
<1>1. MH!Plan(handler, e) = MH!AboutMessage(e)
  BY DEF MH!AboutMessages, MH!Plan, MH!HandleMatrixReaction,
         MH!HandleMatrixReactionRemove, MH!HandleMatrixMessageRemove
<1>2. e.loggedIn \in BOOLEAN /\ e.connected \in BOOLEAN
      /\ e.waConnected \in BOOLEAN
  BY DEF MatrixEvents
<1>3. MH!GoesToItsNetwork(e, MH!AboutMessage(e))
  BY <1>2 DEF MH!AboutMessage, MH!GoesToItsNetwork, MH!Ask, MH!Refuse
<1> QED
  BY <1>1, <1>3

(* Plans in which every step after a change is one that is known to come   *)
(* there.                                                                  *)
Requests == {"download", "upload", "instagram", "meta", "meta95", "whatsapp",
             "answer", "portal", "room"}
Outcomes == {"ok", "refused", "lost"}
LateHandlers == {"deleteChat", "createGroup"}
Ordered(handler, plan) ==
  /\ plan.requests \in Seq(Requests) /\ Len(plan.requests) \in 0..4
  /\ plan.refused # "no" => Len(plan.requests) = 0
  /\ \A i, j \in 1..Len(plan.requests) :
       i < j /\ MH!Changes(plan.requests[i]) =>
         handler \in LateHandlers /\ plan.requests[j] \in MH!AfterTheChange

(* The plans that occur are of this kind.                                  *)
LEMMA ShortPlans ==
  ASSUME NEW handler
  PROVE  /\ \A why : Ordered(handler, MH!Refuse(why))
         /\ Ordered(handler, MH!Ask(<<>>))
         /\ \A x \in Requests : Ordered(handler, MH!Ask(<<x>>))
         /\ \A x \in Requests : Ordered(handler, MH!Ask(<<"download", x>>))
         /\ Ordered(handler, MH!Ask(<<"download", "upload", "meta">>))
<1> USE DEF Ordered, MH!Ask, MH!Refuse, MH!Changes, Requests
<1>1. ASSUME NEW why PROVE Ordered(handler, MH!Refuse(why))
  OBVIOUS
<1>2. Ordered(handler, MH!Ask(<<>>))
  OBVIOUS
<1>3. ASSUME NEW x \in Requests PROVE Ordered(handler, MH!Ask(<<x>>))
  OBVIOUS
<1>4. ASSUME NEW x \in Requests
      PROVE  Ordered(handler, MH!Ask(<<"download", x>>))
  OBVIOUS
<1>5. Ordered(handler, MH!Ask(<<"download", "upload", "meta">>))
  OBVIOUS
<1> QED
  BY <1>1, <1>2, <1>3, <1>4, <1>5

(* The plans with steps after the change.                                  *)
LEMMA LatePlans ==
  ASSUME NEW handler \in LateHandlers
  PROVE  /\ Ordered(handler, MH!Ask(<<"meta", "meta95">>))
         /\ Ordered(handler, MH!Ask(<<"meta", "answer", "portal">>))
         /\ Ordered(handler, MH!Ask(<<"meta", "answer", "portal", "room">>))
<1> USE DEF Ordered, MH!Ask, MH!Changes, Requests, MH!AfterTheChange
<1>1. Ordered(handler, MH!Ask(<<"meta", "meta95">>))
  OBVIOUS
<1>2. Ordered(handler, MH!Ask(<<"meta", "answer", "portal">>))
  OBVIOUS
<1>3. Ordered(handler, MH!Ask(<<"meta", "answer", "portal", "room">>))
  OBVIOUS
<1> QED
  BY <1>1, <1>2, <1>3

(* The plan of every handler is of this kind.                              *)
LEMMA PlanShape ==
  ASSUME NEW handler \in Handlers, NEW e \in MatrixEvents
  PROVE  Ordered(handler, MH!Plan(handler, e))
<1> DEFINE Good(plan) == Ordered(handler, plan)
<1>1. e.dm \in BOOLEAN /\ e.remove \in BOOLEAN /\ e.target \in BOOLEAN
      /\ e.loggedIn \in BOOLEAN /\ e.connected \in BOOLEAN
      /\ e.waConnected \in BOOLEAN /\ e.room \in BOOLEAN
  BY DEF MatrixEvents
<1>2. /\ \A why : Good(MH!Refuse(why))
      /\ Good(MH!Ask(<<>>)) /\ Good(MH!Ask(<<"meta">>))
      /\ Good(MH!Ask(<<"whatsapp">>))
      /\ Good(MH!Ask(<<"instagram">>))
      /\ Good(MH!Ask(<<"download", "instagram">>))
      /\ Good(MH!Ask(<<"download", "upload", "meta">>))
  BY ShortPlans DEF Requests
<1>3. handler \in LateHandlers =>
        /\ Good(MH!Ask(<<"meta", "meta95">>))
        /\ Good(MH!Ask(<<"meta", "answer", "portal">>))
        /\ Good(MH!Ask(<<"meta", "answer", "portal", "room">>))
  BY LatePlans
<1> HIDE DEF Good
<1>4. Good(MH!AboutMessage(e))
  BY <1>1, <1>2 DEF MH!AboutMessage
<1>5. Good(MH!HandleMatrixRoomName(e))
  BY <1>1, <1>2 DEF MH!HandleMatrixRoomName
<1>6. Good(MH!HandleMatrixRoomAvatar(e))
  <2>1. <<>> \o <<"instagram">> = <<"instagram">>
    BY ConcatEmptySeq
  <2>2. <<"download">> \o <<"instagram">> = <<"download", "instagram">>
    <3>1. /\ <<"download">> \in Seq(Requests)
          /\ <<"instagram">> \in Seq(Requests)
          /\ <<"download", "instagram">> \in Seq(Requests)
      BY DEF Requests
    <3>2. /\ <<"download">> \o <<"instagram">> \in Seq(Requests)
          /\ Len(<<"download">> \o <<"instagram">>) = 2
          /\ Len(<<"download", "instagram">>) = 2
          /\ \A i \in 1..2 : (<<"download">> \o <<"instagram">>)[i]
                               = <<"download", "instagram">>[i]
      BY <3>1
    <3> QED
      BY <3>1, <3>2, SeqEqual
  <2>3. (IF e.remove THEN <<>> ELSE <<"download">>) \o <<"instagram">>
          \in {<<"instagram">>, <<"download", "instagram">>}
    BY <1>1, <2>1, <2>2
  <2> QED
    BY <1>1, <1>2, <2>3 DEF MH!HandleMatrixRoomAvatar
<1>7. Good(MH!HandleMatrixMembership(e))
  BY <1>1, <1>2 DEF MH!HandleMatrixMembership
<1>8. handler \in LateHandlers => Good(MH!CreateGroup(e))
  BY <1>1, <1>3 DEF MH!CreateGroup
<1>9. handler \in LateHandlers => Good(MH!HandleMatrixDeleteChat(e))
  BY <1>2, <1>3 DEF MH!HandleMatrixDeleteChat
<1>10. Good(MH!Plan(handler, e))
  BY <1>4, <1>5, <1>6, <1>7, <1>8, <1>9
  DEF Handlers, LateHandlers, MH!AboutMessages, MH!Plan,
      MH!HandleMatrixReaction, MH!HandleMatrixReactionRemove,
      MH!HandleMatrixMessageRemove
<1> QED
  BY <1>10 DEF Good

(* Of up to four steps, the first one that fails.                          *)
LEMMA FirstFailure ==
  ASSUME NEW n \in 0..4, NEW fails \in SUBSET (1..n), fails # {}
  PROVE  (CHOOSE i \in fails : \A j \in fails : i <= j) \in fails
<1>1. \E i \in fails : \A j \in fails : i <= j
  <2>1. CASE 1 \in fails
    BY <2>1
  <2>2. CASE 1 \notin fails /\ 2 \in fails
    <3>1. \A j \in fails : 2 <= j
      BY <2>2
    <3> QED
      BY <2>2, <3>1
  <2>3. CASE 1 \notin fails /\ 2 \notin fails /\ 3 \in fails
    <3>1. \A j \in fails : 3 <= j
      BY <2>3
    <3> QED
      BY <2>3, <3>1
  <2>4. CASE 1 \notin fails /\ 2 \notin fails /\ 3 \notin fails
    <3>1. PICK k \in fails : TRUE
      OBVIOUS
    <3>2. \A j \in fails : j = 4
      BY <2>4
    <3> QED
      BY <3>1, <3>2
  <2> QED
    BY <2>1, <2>2, <2>3, <2>4
<1> QED
  BY <1>1

(* A handler succeeds only without a failure, and stops at the first one,  *)
(* before it or, if its answer is lost, after it.                          *)
LEMMA RunShape ==
  ASSUME NEW handler, NEW plan, Ordered(handler, plan),
         NEW answers \in [1..4 -> Outcomes]
  PROVE  LET res == MH!RunPlan(plan, answers)
             n == Len(plan.requests)
         IN /\ res.ok => res.done = SubSeq(plan.requests, 1, n)
            /\ ~res.ok =>
                 \/ plan.refused # "no" /\ res.done = <<>>
                 \/ \E first \in 1..n :
                      /\ res.failed = plan.requests[first]
                      /\ \/ res.done = SubSeq(plan.requests, 1, first - 1)
                         \/ /\ res.lost
                            /\ res.done = SubSeq(plan.requests, 1, first)
<1> DEFINE res == MH!RunPlan(plan, answers)
           n == Len(plan.requests)
           fails == {i \in 1..n : answers[i] # "ok"}
           first == CHOOSE i \in fails : \A j \in fails : i <= j
           good == plan.refused = "no" /\ fails = {}
           lost == fails # {} /\ answers[first] = "lost"
           failed == IF fails = {} THEN "none" ELSE plan.requests[first]
           done == SubSeq(plan.requests, 1,
                          IF fails = {} THEN n
                          ELSE IF lost THEN first ELSE first - 1)
<1>1. n \in 0..4 /\ fails \in SUBSET (1..n)
  BY DEF Ordered
<1>2. res = [ok |-> good, failed |-> failed, lost |-> lost, done |-> done]
  BY DEF MH!RunPlan
<1>3. fails # {} => first \in 1..n
  <2> HIDE DEF fails, n
  <2> QED
    BY <1>1, FirstFailure
<1>4. res.ok = good /\ res.failed = failed /\ res.lost = lost
      /\ res.done = done
  <2> HIDE DEF res, good, failed, lost, done
  <2>1. \A w, x, y, z :
          LET r == [ok |-> w, failed |-> x, lost |-> y, done |-> z]
          IN r.ok = w /\ r.failed = x /\ r.lost = y /\ r.done = z
    OBVIOUS
  <2> QED
    BY <1>2, <2>1, Zenon
<1> HIDE DEF res
<1>5. CASE fails = {}
  <2>1. done = SubSeq(plan.requests, 1, n)
    BY <1>5
  <2>2. plan.refused # "no" => done = <<>>
    <3>1. plan.refused # "no" => n = 0
      BY DEF Ordered
    <3>2. SubSeq(plan.requests, 1, 0) = <<>>
      BY DEF Ordered
    <3> QED
      BY <2>1, <3>1, <3>2
  <2>3. good <=> plan.refused = "no"
    BY <1>5
  <2> HIDE DEF done, good, lost, failed
  <2> QED
    BY <1>4, <2>1, <2>2, <2>3 DEF res
<1>6. CASE fails # {}
  <2>1. ~good /\ failed = plan.requests[first] /\ first \in 1..n
    BY <1>3, <1>6
  <2>2. \/ done = SubSeq(plan.requests, 1, first - 1)
        \/ lost /\ done = SubSeq(plan.requests, 1, first)
    BY <1>6
  <2> HIDE DEF done, good, lost, failed, first
  <2> QED
    BY <1>4, <2>1, <2>2 DEF res
<1> QED
  BY <1>5, <1>6

(* Whichever steps fail, a handler that reports success has taken all of   *)
(* them, and one that reports an error has changed something at the        *)
(* networks only if the answer to the change was lost, if of two deletions *)
(* the second failed, or if a step failed that follows the creation of a   *)
(* group; after such an error the user may well repeat the change.         *)
THEOREM AllOrNothing ==
  ASSUME NEW handler \in Handlers, NEW e \in MatrixEvents,
         NEW answers \in [1..4 -> Outcomes]
  PROVE  MH!AllOrNothing(handler, MH!Plan(handler, e),
                         MH!RunPlan(MH!Plan(handler, e), answers))
<1>1. ASSUME NEW plan, Ordered(handler, plan)
      PROVE  MH!AllOrNothing(handler, plan, MH!RunPlan(plan, answers))
  <2> DEFINE res == MH!RunPlan(plan, answers)
             n == Len(plan.requests)
  <2>1. /\ res.ok => res.done = SubSeq(plan.requests, 1, n)
        /\ ~res.ok =>
             \/ plan.refused # "no" /\ res.done = <<>>
             \/ \E first \in 1..n :
                  /\ res.failed = plan.requests[first]
                  /\ \/ res.done = SubSeq(plan.requests, 1, first - 1)
                     \/ /\ res.lost
                        /\ res.done = SubSeq(plan.requests, 1, first)
    BY <1>1, RunShape
  <2>2. ASSUME NEW reqs \in Seq(Requests), NEW k \in 0..Len(reqs)
        PROVE  /\ Len(SubSeq(reqs, 1, k)) = k
               /\ \A i \in 1..k : SubSeq(reqs, 1, k)[i] = reqs[i]
               /\ SubSeq(reqs, 1, Len(reqs)) = reqs
    BY SubSeqFull
  <2>3. plan.requests \in Seq(Requests) /\ n \in 0..4
    BY <1>1 DEF Ordered
  <2> HIDE DEF res
  <2>4. res.ok => res.done = plan.requests
    BY <2>1, <2>2, <2>3
  <2>5. ASSUME ~res.ok, NEW i \in 1..Len(res.done),
               MH!Changes(res.done[i])
        PROVE  \/ res.lost /\ i = Len(res.done)
               \/ /\ handler \in {"deleteChat", "createGroup"}
                  /\ res.failed \in MH!AfterTheChange
    <3>1. res.done # <<>>
      BY <2>5
    <3>2. PICK first \in 1..n :
            /\ res.failed = plan.requests[first]
            /\ \/ res.done = SubSeq(plan.requests, 1, first - 1)
               \/ res.lost /\ res.done = SubSeq(plan.requests, 1, first)
      BY <2>1, <2>5, <3>1
    <3>3. PICK k \in 0..n : /\ k = first - 1 \/ (res.lost /\ k = first)
                            /\ res.done = SubSeq(plan.requests, 1, k)
      BY <2>3, <3>2
    <3>4. Len(res.done) = k /\ \A j \in 1..k : res.done[j] = plan.requests[j]
      BY <2>2, <2>3, <3>3
    <3>5. i \in 1..n /\ MH!Changes(plan.requests[i])
      BY <2>3, <2>5, <3>3, <3>4
    <3>6. CASE i < first
      BY <1>1, <3>2, <3>5, <3>6 DEF Ordered, LateHandlers
    <3>7. CASE ~(i < first)
      <4>1. k = first /\ res.lost /\ i = k
        BY <2>3, <2>5, <3>3, <3>4, <3>7
      <4> QED
        BY <3>4, <4>1
    <3> QED
      BY <3>6, <3>7
  <2> QED
    BY <2>4, <2>5 DEF MH!AllOrNothing, res
<1> QED
  BY <1>1, PlanShape

-----------------------------------------------------------------------------
(* MatrixHandlers: read receipts.                                          *)

(* Any sequence of read receipts, each up to any time.  The bridge passes  *)
(* the time of the last one along and keeps it if it is later.  (Sent is   *)
(* the same throughout: a message is in the database before a receipt      *)
(* reaches past its time.)                                                 *)
readVars == <<firstRead, lastRead, marks, marked>>

(* The messages of the chat have times and distinct IDs; those of others   *)
(* on WhatsApp are to be marked as read there.                             *)
MessageSet ==
  /\ \A m \in Sent : m.time \in Nat
  /\ \A m, n \in Sent : m.id = n.id => m = n

Others == {m \in Sent : m.net = "wa" /\ m.sender # Self}

Receipt(upTo, implicit, failing) ==
  MH!HandleMatrixReadReceipt(Sent,
    [last |-> lastRead, upTo |-> upTo, implicit |-> implicit,
     failing |-> failing], Self)
ReadInit == firstRead = 0 /\ lastRead = 0 /\ marks = {} /\ marked = {}
ReadUpTo(upTo, implicit, failing) ==
  /\ marks' = {x.id : x \in Receipt(upTo, implicit, failing).marks}
  /\ marked' = marked \cup marks'
  /\ firstRead' = IF firstRead = 0 THEN upTo ELSE firstRead
  /\ lastRead' = IF upTo > lastRead THEN upTo ELSE lastRead
ReadNext ==
  \E upTo \in Nat \ {0}, implicit \in BOOLEAN, failing \in SUBSET STRING :
    ReadUpTo(upTo, implicit, failing)
ReadSpec == ReadInit /\ [][ReadNext]_readVars

(* What the receipts may not do: mark a message again, miss one that was   *)
(* written since the first receipt, mark one that was not read or that is  *)
(* the user's own.                                                         *)
NoneTwice == marks' \cap marked = {}
NoneMissed ==
  \A m \in Others : firstRead < m.time /\ m.time <= lastRead => m.id \in marked
NoneWrong ==
  \A id \in marked : \E m \in Others : m.id = id /\ m.time <= lastRead

(* What one receipt marks: the messages since the last one or, for the     *)
(* first one, those of the last seconds (HandleMatrixReadReceipt).         *)
LEMMA ReceiptMarks ==
  ASSUME NEW upTo \in Nat \ {0}, NEW implicit \in BOOLEAN,
         NEW failing, lastRead \in Nat, MessageSet
  PROVE  LET from == IF lastRead # 0 THEN lastRead
                     ELSE IF upTo > 5 THEN upTo - 5 ELSE 0
         IN {x.id : x \in Receipt(upTo, implicit, failing).marks} =
              IF upTo <= lastRead THEN {}
              ELSE {m.id : m \in {n \in Others : from < n.time
                                                 /\ n.time <= upTo}}
<1> DEFINE r == [last |-> lastRead, upTo |-> upTo, implicit |-> implicit,
                 failing |-> failing]
           from == IF lastRead # 0 THEN lastRead
                   ELSE IF upTo > 5 THEN upTo - 5 ELSE 0
           found == IF upTo <= lastRead THEN {}
                    ELSE MH!Between(Sent, from, upTo)
           due == {x \in found : x.net = "wa" /\ x.sender # Self}
<1>1. r.last = lastRead /\ r.upTo = upTo
  OBVIOUS
<1>2. Receipt(upTo, implicit, failing).marks =
        {[sender |-> IF m.sender = m.chat THEN MH!Nobody ELSE m.sender,
          id |-> m.id] : m \in due}
  <2> HIDE DEF r
  <2>1. Receipt(upTo, implicit, failing)
          = MH!HandleMatrixReadReceipt(Sent, r, Self)
    BY DEF Receipt, r
  <2> QED
    BY <1>1, <2>1 DEF MH!HandleMatrixReadReceipt, MH!KeyOf
<1> HIDE DEF due
<1>3. {x.id : x \in Receipt(upTo, implicit, failing).marks}
        = {m.id : m \in due}
  <2> DEFINE Mark(m) == [sender |-> IF m.sender = m.chat THEN MH!Nobody
                                    ELSE m.sender, id |-> m.id]
  <2>1. Receipt(upTo, implicit, failing).marks = {Mark(m) : m \in due}
    BY <1>2
  <2>2. \A m : Mark(m).id = m.id
    OBVIOUS
  <2> HIDE DEF Mark
  <2> QED
    BY <2>1, <2>2
<1>4. due = IF upTo <= lastRead THEN {}
            ELSE {n \in Others : from < n.time /\ n.time <= upTo}
  BY DEF due, Others, MH!Between
<1> QED
  BY <1>3, <1>4

(* Over any sequence of read receipts, repeated and late ones included,    *)
(* the bridge asks exactly once to mark a message of others when the user  *)
(* has read it.  It does not ask again if that fails                       *)
(* (HandleMatrixReadReceipt).                                              *)
THEOREM ReceiptsExact ==
  ASSUME MessageSet
  PROVE  ReadSpec => /\ [][NoneTwice]_readVars
                     /\ [](NoneMissed /\ NoneWrong)
<1> DEFINE I == /\ firstRead \in Nat /\ lastRead \in Nat
                /\ firstRead <= lastRead
                /\ firstRead = 0 <=> lastRead = 0
                /\ firstRead = 0 => marked = {}
                /\ NoneMissed /\ NoneWrong
<1>1. ReadInit => I
  <2>1. \A m \in Others : m.time \in Nat
    BY DEF Others, MessageSet
  <2> QED
    BY <2>1 DEF ReadInit, NoneMissed, NoneWrong
<1>2. ASSUME I, [ReadNext]_readVars
      PROVE  I' /\ [NoneTwice]_readVars
  <2>1. CASE UNCHANGED readVars
    BY <1>2, <2>1 DEF readVars, NoneMissed, NoneWrong
  <2>2. ASSUME NEW upTo \in Nat \ {0}, NEW implicit \in BOOLEAN,
               NEW failing \in SUBSET STRING,
               ReadUpTo(upTo, implicit, failing)
        PROVE  I' /\ NoneTwice
    <3> DEFINE from == IF lastRead # 0 THEN lastRead
                       ELSE IF upTo > 5 THEN upTo - 5 ELSE 0
               due == {n \in Others : from < n.time /\ n.time <= upTo}
    <3>1. /\ marks' = IF upTo <= lastRead THEN {} ELSE {m.id : m \in due}
          /\ marked' = marked \cup marks'
          /\ firstRead' = IF firstRead = 0 THEN upTo ELSE firstRead
          /\ lastRead' = IF upTo > lastRead THEN upTo ELSE lastRead
      BY <1>2, <2>2, ReceiptMarks DEF ReadUpTo
    <3>2. \A m \in Others : m.time \in Nat
      BY DEF Others, MessageSet
    <3>3. \A m, n \in Others : m.id = n.id => m = n
      BY DEF Others, MessageSet
    <3>4. CASE upTo <= lastRead
      <4>1. UNCHANGED <<firstRead, lastRead, marked>> /\ marks' = {}
        BY <1>2, <3>1, <3>4
      <4> QED
        BY <1>2, <4>1 DEF NoneTwice, NoneMissed, NoneWrong
    <3>5. CASE upTo > lastRead
      <4>1. marks' = {m.id : m \in due} /\ lastRead' = upTo
        BY <1>2, <3>1, <3>5
      <4>2. NoneTwice
        <5>1. ASSUME NEW m \in due, m.id \in marked PROVE FALSE
          <6>1. PICK n \in Others : n.id = m.id /\ n.time <= lastRead
            BY <1>2, <5>1 DEF NoneWrong
          <6>2. m.time <= lastRead
            BY <3>3, <6>1
          <6>3. lastRead # 0
            BY <1>2, <5>1
          <6> QED
            BY <1>2, <3>2, <6>2, <6>3
        <5> QED
          BY <4>1, <5>1 DEF NoneTwice
      <4>3. NoneMissed'
        <5>1. ASSUME NEW m \in Others, firstRead' < m.time, m.time <= upTo
              PROVE  m.id \in marked'
          <6>1. CASE firstRead = 0
            BY <1>2, <3>1, <3>2, <5>1, <6>1
          <6>2. CASE firstRead # 0 /\ m.time <= lastRead
            BY <1>2, <3>1, <5>1, <6>2 DEF NoneMissed
          <6>3. CASE firstRead # 0 /\ ~(m.time <= lastRead)
            <7>1. m \in due
              BY <1>2, <3>2, <5>1, <6>3
            <7> QED
              BY <3>1, <4>1, <7>1
          <6> QED
            BY <6>1, <6>2, <6>3
        <5> QED
          BY <4>1, <5>1 DEF NoneMissed, Others
      <4>4. NoneWrong'
        <5>1. ASSUME NEW id \in marked'
              PROVE  \E m \in Others : m.id = id /\ m.time <= upTo
          <6>1. CASE id \in marked
            <7>1. PICK m \in Others : m.id = id /\ m.time <= lastRead
              BY <1>2, <6>1 DEF NoneWrong
            <7> QED
              BY <1>2, <3>2, <3>5, <7>1
          <6>2. CASE id \notin marked
            <7>1. PICK m \in due : m.id = id
              BY <3>1, <4>1, <5>1, <6>2
            <7> QED
              BY <7>1
          <6> QED
            BY <6>1, <6>2
        <5> QED
          BY <4>1, <5>1 DEF NoneWrong, Others
      <4>5. /\ firstRead' \in Nat /\ lastRead' \in Nat
            /\ firstRead' <= lastRead'
            /\ firstRead' # 0 /\ lastRead' # 0
        BY <1>2, <3>1, <3>5
      <4> QED
        BY <4>2, <4>3, <4>4, <4>5
    <3> QED
      BY <1>2, <3>4, <3>5
  <2> QED
    BY <1>2, <2>1, <2>2 DEF ReadNext
<1> QED
  BY <1>1, <1>2, PTL DEF ReadSpec

-----------------------------------------------------------------------------
(* DirectMedia: media IDs.                                                 *)

(* The n bytes of s followed by the k bytes of t.                          *)
Byte == 0..255

IsJoin(st, s, n, t, k) ==
  /\ st \in Seq(Byte) /\ Len(st) = n + k
  /\ \A i \in 1..n : st[i] = s[i]
  /\ \A i \in 1..k : st[n + i] = t[i]

(* What the concatenation of two sequences holds.                          *)
LEMMA Joined ==
  ASSUME NEW s \in Seq(Byte), NEW t \in Seq(Byte)
  PROVE  IsJoin(s \o t, s, Len(s), t, Len(t))
<1>1. /\ s \o t \in Seq(Byte) /\ Len(s \o t) = Len(s) + Len(t)
      /\ \A i \in 1..Len(s) : (s \o t)[i] = s[i]
  OBVIOUS
<1>2. ASSUME NEW i \in 1..Len(t) PROVE (s \o t)[Len(s) + i] = t[i]
  <2>1. Len(s) \in Nat /\ Len(t) \in Nat
    OBVIOUS
  <2>2. Len(s) + i \in 1..(Len(s) + Len(t)) /\ ~(Len(s) + i <= Len(s))
        /\ (Len(s) + i) - Len(s) = i
    BY <2>1
  <2> QED
    BY <2>1, <2>2
<1> QED
  BY <1>1, <1>2 DEF IsJoin

(* Bytes are numbers.                                                      *)
LEMMA Bytes ==
  ASSUME NEW s \in Seq(Byte)
  PROVE  Len(s) \in Nat /\ \A i \in 1..Len(s) : s[i] \in Nat
<1>1. Len(s) \in Nat /\ \A i \in 1..Len(s) : s[i] \in Byte
  OBVIOUS
<1>2. \A x \in Byte : x \in Nat
  BY DEF Byte
<1> QED
  BY <1>1, <1>2

(* The first bytes of a sequence.                                          *)
LEMMA Prefix ==
  ASSUME NEW s \in Seq(Byte), NEW n \in 0..Len(s)
  PROVE  /\ SubSeq(s, 1, n) \in Seq(Byte) /\ Len(SubSeq(s, 1, n)) = n
         /\ \A i \in 1..n : SubSeq(s, 1, n)[i] = s[i]
OBVIOUS

(* A media ID byte by byte: type, user, length and bytes of the message ID *)
(* and, for the types that have one, of the part ID.                       *)
LaidOut(id, type, user, msg, m, part, p) ==
  /\ id \in Seq(Byte)
  /\ Len(id) = IF DM!includesPartID(type) THEN 11 + m + p ELSE 10 + m
  /\ id[1] = type /\ id[10] = m
  /\ \A i \in 1..8 : id[1 + i] = user[i]
  /\ \A i \in 1..m : id[10 + i] = msg[i]
  /\ DM!includesPartID(type) =>
       /\ id[11 + m] = p
       /\ \A i \in 1..p : id[11 + m + i] = part[i]

(* MakeMediaID lays it out like that.                                      *)
LEMMA Layout ==
  ASSUME NEW type, DM!isSupported(type),
         NEW user \in Seq(Byte), Len(user) = DM!UserBytes,
         NEW msg \in Seq(Byte), Len(msg) < 256,
         NEW part \in Seq(Byte), Len(part) < 256
  PROVE  LaidOut(DM!MakeMediaID(type, user, msg, part), type, user,
                 msg, Len(msg), part, Len(part))
<1> DEFINE m == Len(msg)
           p == Len(part)
           a == <<type>> \o user
           b == a \o <<m>>
           c == b \o msg
           last == IF DM!includesPartID(type) THEN <<p>> \o part ELSE <<>>
           id == c \o last
<1>1. /\ m \in Byte /\ p \in Byte /\ m % 256 = m /\ p % 256 = p
  <2>1. m \in Nat /\ m < 256 /\ p \in Nat /\ p < 256
    OBVIOUS
  <2> HIDE DEF m, p
  <2>2. \A x \in Nat : x < 256 => x \in 0..255 /\ x % 256 = x
    OBVIOUS
  <2> QED
    BY <2>1, <2>2 DEF Byte
<1>0. type \in Byte
  BY DEF Byte, DM!isSupported, DM!DirectMediaTypeMetaV1,
         DM!DirectMediaTypeMetaV2, DM!DirectMediaTypeWhatsAppV1,
         DM!DirectMediaTypeWhatsAppV2
<1>2. DM!MakeMediaID(type, user, msg, part) = id
  BY <1>1 DEF DM!MakeMediaID
<1>3. /\ <<type>> \in Seq(Byte) /\ Len(<<type>>) = 1 /\ <<type>>[1] = type
      /\ <<m>> \in Seq(Byte) /\ Len(<<m>>) = 1 /\ <<m>>[1] = m
      /\ <<p>> \in Seq(Byte) /\ Len(<<p>>) = 1 /\ <<p>>[1] = p
  <2> HIDE DEF m, p
  <2> QED
    BY <1>0, <1>1
<1>4. m \in Nat /\ p \in Nat /\ Len(user) = 8
  BY DEF DM!UserBytes
<1>5. /\ a \in Seq(Byte) /\ Len(a) = 9 /\ a[1] = type
      /\ \A i \in 1..8 : a[1 + i] = user[i]
  <2> HIDE DEF m, p
  <2>1. /\ a \in Seq(Byte) /\ Len(a) = 1 + 8
        /\ \A i \in 1..1 : a[i] = <<type>>[i]
        /\ \A i \in 1..8 : a[1 + i] = user[i]
    <3>1. a = <<type>> \o user
      OBVIOUS
    <3> HIDE DEF a
    <3>2. IsJoin(<<type>> \o user, <<type>>, Len(<<type>>), user, Len(user))
      BY <1>3, Joined
    <3>3. IsJoin(a, <<type>>, 1, user, 8)
      BY <1>3, <1>4, <3>1, <3>2
    <3> QED
      BY <3>3 DEF IsJoin
  <2> QED
    BY <2>1, <1>3
<1> HIDE DEF a
<1>6. /\ b \in Seq(Byte) /\ Len(b) = 10 /\ \A i \in 1..9 : b[i] = a[i]
      /\ b[10] = m
  <2> HIDE DEF m, p
  <2>1. /\ b \in Seq(Byte) /\ Len(b) = 9 + 1
        /\ \A i \in 1..9 : b[i] = a[i]
        /\ \A i \in 1..1 : b[9 + i] = <<m>>[i]
    <3>1. b = a \o <<m>>
      OBVIOUS
    <3> HIDE DEF b
    <3>2. IsJoin(a \o <<m>>, a, Len(a), <<m>>, Len(<<m>>))
      BY <1>3, <1>5, Joined
    <3>3. IsJoin(b, a, 9, <<m>>, 1)
      BY <1>3, <1>5, <3>1, <3>2
    <3> QED
      BY <3>3 DEF IsJoin
  <2> QED
    BY <2>1, <1>3
<1> HIDE DEF b
<1>7. /\ c \in Seq(Byte) /\ Len(c) = 10 + m /\ \A i \in 1..10 : c[i] = b[i]
      /\ \A i \in 1..m : c[10 + i] = msg[i]
  <2>1. c = b \o msg /\ Len(msg) = m
    OBVIOUS
  <2> HIDE DEF c, m
  <2>2. IsJoin(b \o msg, b, Len(b), msg, Len(msg))
    BY <1>6, Joined
  <2>3. IsJoin(c, b, 10, msg, m)
    BY <1>6, <2>1, <2>2
  <2> QED
    BY <2>3 DEF IsJoin
<1> HIDE DEF c
<1>8. /\ last \in Seq(Byte)
      /\ DM!includesPartID(type) =>
           /\ Len(last) = 1 + p /\ last[1] = p
           /\ \A i \in 1..p : last[1 + i] = part[i]
      /\ ~DM!includesPartID(type) => Len(last) = 0
  <2>1. CASE DM!includesPartID(type)
    <3>1. last = <<p>> \o part
      BY <2>1
    <3>2. /\ last \in Seq(Byte) /\ Len(last) = 1 + p
          /\ \A i \in 1..1 : last[i] = <<p>>[i]
          /\ \A i \in 1..p : last[1 + i] = part[i]
      <4>1. Len(part) = p
        OBVIOUS
      <4> HIDE DEF last, p
      <4>2. IsJoin(<<p>> \o part, <<p>>, Len(<<p>>), part, Len(part))
        BY <1>3, Joined
      <4>3. IsJoin(last, <<p>>, 1, part, p)
        BY <1>3, <3>1, <4>1, <4>2
      <4> QED
        BY <4>3 DEF IsJoin
    <3> QED
      BY <1>3, <2>1, <3>2
  <2>2. CASE ~DM!includesPartID(type)
    BY <2>2
  <2> QED
    BY <2>1, <2>2
<1> HIDE DEF last
<1>9. /\ id \in Seq(Byte) /\ Len(id) = 10 + m + Len(last)
      /\ \A i \in 1..(10 + m) : id[i] = c[i]
      /\ \A i \in 1..Len(last) : id[10 + m + i] = last[i]
  <2>1. id = c \o last
    OBVIOUS
  <2> HIDE DEF id, m, p
  <2>2. IsJoin(c \o last, c, Len(c), last, Len(last))
    BY <1>7, <1>8, Joined
  <2>3. IsJoin(id, c, 10 + m, last, Len(last))
    BY <1>7, <2>1, <2>2
  <2> QED
    BY <2>3 DEF IsJoin
<1> HIDE DEF id, m, p
<1>10. /\ id[1] = type /\ id[10] = m
       /\ \A i \in 1..8 : id[1 + i] = user[i]
       /\ \A i \in 1..m : id[10 + i] = msg[i]
  <2>1. \A i \in 1..10 : id[i] = b[i]
    BY <1>4, <1>7, <1>9
  <2>2. \A i \in 1..9 : id[i] = a[i]
    BY <1>6, <2>1
  <2>3. id[1] = type /\ id[10] = m
    BY <1>5, <1>6, <2>1, <2>2
  <2>4. \A i \in 1..8 : id[1 + i] = user[i]
    BY <1>5, <2>2
  <2>5. \A i \in 1..m : id[10 + i] = msg[i]
    BY <1>4, <1>7, <1>9
  <2> QED
    BY <2>3, <2>4, <2>5
<1>11. ASSUME DM!includesPartID(type)
       PROVE  /\ id[11 + m] = p
              /\ \A i \in 1..p : id[11 + m + i] = part[i]
  <2>1. Len(last) = 1 + p
    BY <1>8, <1>11
  <2>2. \A i \in 1..(1 + p) : id[10 + m + i] = last[i]
    BY <1>9, <2>1
  <2>3. id[10 + m + 1] = last[1]
    BY <1>4, <2>2
  <2>4. \A i \in 1..p : id[10 + m + (1 + i)] = last[1 + i]
    BY <1>4, <2>2
  <2>5. 10 + m + 1 = 11 + m /\ \A i \in 1..p : 10 + m + (1 + i) = 11 + m + i
    BY <1>4
  <2> QED
    BY <1>8, <1>11, <2>3, <2>4, <2>5
<1>12. Len(id) = IF DM!includesPartID(type) THEN 11 + m + p ELSE 10 + m
  <2>1. CASE DM!includesPartID(type)
    BY <1>4, <1>8, <1>9, <2>1
  <2>2. CASE ~DM!includesPartID(type)
    BY <1>4, <1>8, <1>9, <2>2
  <2> QED
    BY <2>1, <2>2
<1>13. LaidOut(id, type, user, msg, m, part, p)
  BY <1>9, <1>10, <1>11, <1>12 DEF LaidOut
<1> QED
  BY <1>2, <1>13 DEF m, p

(* ParseMediaID with its offsets worked out.                               *)
LEMMA Parsed ==
  ASSUME NEW s \in Seq(Byte)
  PROVE  LET end == 10 + s[10]
             ok == /\ Len(s) >= 1 /\ DM!isSupported(s[1])
                   /\ Len(s) >= 10 /\ Len(s) >= end
             okPart == Len(s) > end /\ Len(s) >= end + 1 + s[end + 1]
         IN DM!ParseMediaID(s) =
              IF ~ok THEN DM!Bad
              ELSE IF DM!includesPartID(s[1]) /\ ~okPart THEN DM!Bad
              ELSE [type |-> s[1], user |-> SubSeq(s, 2, 9),
                    msg |-> SubSeq(s, 11, end),
                    part |-> IF DM!includesPartID(s[1])
                             THEN SubSeq(s, end + 2, end + 1 + s[end + 1])
                             ELSE <<>>]
<1>1. 1 + DM!UserBytes + 1 = 10 /\ DM!UserBytes + 1 = 9 /\ 10 + 1 = 11
  BY DEF DM!UserBytes
<1> QED
  BY <1>1, Zenon DEF DM!ParseMediaID

(* It refuses what is too short for its lengths.                           *)
LEMMA Refused ==
  ASSUME NEW s \in Seq(Byte),
         \/ Len(s) < 10
         \/ Len(s) < 10 + s[10]
         \/ /\ DM!includesPartID(s[1])
            /\ \/ Len(s) <= 10 + s[10]
               \/ Len(s) < 11 + s[10] + s[11 + s[10]]
  PROVE  DM!ParseMediaID(s) = DM!Bad
<1> DEFINE end == 10 + s[10]
           ok == /\ Len(s) >= 1 /\ DM!isSupported(s[1])
                 /\ Len(s) >= 10 /\ Len(s) >= end
           okPart == Len(s) > end /\ Len(s) >= end + 1 + s[end + 1]
           parts == [type |-> s[1], user |-> SubSeq(s, 2, 9),
                     msg |-> SubSeq(s, 11, end),
                     part |-> IF DM!includesPartID(s[1])
                              THEN SubSeq(s, end + 2, end + 1 + s[end + 1])
                              ELSE <<>>]
<1>1. DM!ParseMediaID(s) =
        IF ~ok THEN DM!Bad
        ELSE IF DM!includesPartID(s[1]) /\ ~okPart THEN DM!Bad ELSE parts
  BY Parsed, Zenon
<1>2. ~ok \/ (DM!includesPartID(s[1]) /\ ~okPart)
  <2>1. SUFFICES ASSUME Len(s) >= 10, Len(s) >= 10 + s[10]
                 PROVE  DM!includesPartID(s[1]) /\ ~okPart
    OBVIOUS
  <2>2. Len(s) \in Nat /\ s[10] \in Nat
    <3>1. Len(s) \in Nat /\ \A i \in 1..Len(s) : s[i] \in Nat
      BY Bytes
    <3>2. 10 \in 1..Len(s)
      BY <2>1, <3>1
    <3> QED
      BY <3>1, <3>2
  <2>3. ~(Len(s) < 10) /\ ~(Len(s) < 10 + s[10])
    BY <2>1, <2>2
  <2>4. CASE Len(s) <= 10 + s[10]
    BY <2>2, <2>3, <2>4
  <2>5. CASE Len(s) > 10 + s[10] /\ Len(s) < 11 + s[10] + s[11 + s[10]]
    <3>1. 11 + s[10] \in 1..Len(s)
      BY <2>2, <2>5
    <3>2. s[11 + s[10]] \in Nat
      BY <3>1, Bytes
    <3>3. end + 1 = 11 + s[10]
      BY <2>2
    <3>4. ~okPart
      BY <2>2, <2>5, <3>2, <3>3
    <3> QED
      BY <2>3, <3>4
  <2> QED
    BY <2>2, <2>3, <2>4, <2>5
<1> HIDE DEF ok, okPart, parts
<1> QED
  BY <1>1, <1>2, Zenon

(* It takes apart what is long enough.                                     *)
LEMMA Taken ==
  ASSUME NEW s \in Seq(Byte), NEW m \in Nat, s[10] = m,
         DM!isSupported(s[1]), Len(s) >= 10 + m,
         NEW p \in Nat,
         DM!includesPartID(s[1]) => s[11 + m] = p /\ Len(s) >= 11 + m + p
  PROVE  DM!ParseMediaID(s) =
           [type |-> s[1], user |-> SubSeq(s, 2, 9),
            msg |-> SubSeq(s, 11, 10 + m),
            part |-> IF DM!includesPartID(s[1])
                     THEN SubSeq(s, 12 + m, 11 + m + p) ELSE <<>>]
<1> DEFINE end == 10 + s[10]
           ok == /\ Len(s) >= 1 /\ DM!isSupported(s[1])
                 /\ Len(s) >= 10 /\ Len(s) >= end
           okPart == Len(s) > end /\ Len(s) >= end + 1 + s[end + 1]
           parts == [type |-> s[1], user |-> SubSeq(s, 2, 9),
                     msg |-> SubSeq(s, 11, end),
                     part |-> IF DM!includesPartID(s[1])
                              THEN SubSeq(s, end + 2, end + 1 + s[end + 1])
                              ELSE <<>>]
<1>1. DM!ParseMediaID(s) =
        IF ~ok THEN DM!Bad
        ELSE IF DM!includesPartID(s[1]) /\ ~okPart THEN DM!Bad ELSE parts
  BY Parsed, Zenon
<1>2. ok
  OBVIOUS
<1>3. end = 10 + m /\ end + 1 = 11 + m /\ end + 2 = 12 + m
  OBVIOUS
<1>4. DM!includesPartID(s[1]) => okPart
  BY <1>3
<1>5. parts = [type |-> s[1], user |-> SubSeq(s, 2, 9),
               msg |-> SubSeq(s, 11, 10 + m),
               part |-> IF DM!includesPartID(s[1])
                        THEN SubSeq(s, 12 + m, 11 + m + p) ELSE <<>>]
  <2>1. parts = [type |-> s[1], user |-> SubSeq(s, 2, 9),
                 msg |-> SubSeq(s, 11, 10 + m),
                 part |-> IF DM!includesPartID(s[1])
                          THEN SubSeq(s, 12 + m, 11 + m + s[11 + m])
                          ELSE <<>>]
    BY <1>3, Zenon
  <2> QED
    BY <2>1
<1>6. DM!ParseMediaID(s) = parts
  <2> HIDE DEF ok, okPart, parts
  <2> QED
    BY <1>1, <1>2, <1>4, Zenon
<1> QED
  BY <1>5, <1>6, Zenon

(* A part of a sequence that holds another one.                            *)
LEMMA Slice ==
  ASSUME NEW s \in Seq(Byte), NEW t \in Seq(Byte), NEW k \in Nat,
         k + Len(t) <= Len(s), \A i \in 1..Len(t) : s[k + i] = t[i]
  PROVE  SubSeq(s, k + 1, k + Len(t)) = t
<1> DEFINE u == SubSeq(s, k + 1, k + Len(t))
<1>1. Len(t) \in Nat /\ Len(s) \in Nat
  OBVIOUS
<1>2. /\ u \in Seq(Byte) /\ Len(u) = Len(t)
      /\ \A i \in 1..Len(t) : u[i] = s[k + i]
  <2>1. k + 1 \in 1..(Len(s) + 1) /\ k + Len(t) \in 0..Len(s)
    BY <1>1
  <2> QED
    BY <1>1, <2>1
<1> QED
  BY <1>2, SeqEqual

(* A media ID is parsed into what it was made from, for every type, every  *)
(* user and every message ID and part ID of fewer than 256 bytes, and an   *)
(* ID that was cut short is refused, wherever it was cut (MakeMediaID,     *)
(* ParseMediaID).                                                          *)
THEOREM MediaIds ==
  ASSUME NEW type, DM!isSupported(type),
         NEW user \in Seq(Byte), Len(user) = DM!UserBytes,
         NEW msg \in Seq(Byte), NEW part \in Seq(Byte)
  PROVE  DM!MediaIdRoundTrip(type, user, msg, part)
<1> DEFINE id == DM!MakeMediaID(type, user, msg, part)
           m == Len(msg)
           p == Len(part)
<1> SUFFICES ASSUME m < 256, p < 256
             PROVE  /\ DM!ParseMediaID(id) =
                         [type |-> type, user |-> user, msg |-> msg,
                          part |-> IF DM!includesPartID(type) THEN part
                                   ELSE <<>>]
                    /\ \A n \in 0..(Len(id) - 1) :
                         DM!ParseMediaID(SubSeq(id, 1, n)) = DM!Bad
  BY DEF DM!MediaIdRoundTrip
<1>1. /\ id \in Seq(Byte)
      /\ Len(id) = IF DM!includesPartID(type) THEN 11 + m + p ELSE 10 + m
      /\ id[1] = type /\ id[10] = m
      /\ \A i \in 1..8 : id[1 + i] = user[i]
      /\ \A i \in 1..m : id[10 + i] = msg[i]
      /\ DM!includesPartID(type) =>
           /\ id[11 + m] = p
           /\ \A i \in 1..p : id[11 + m + i] = part[i]
  <2>1. LaidOut(id, type, user, msg, m, part, p)
    BY Layout
  <2> HIDE DEF id, m, p
  <2> QED
    BY <2>1 DEF LaidOut
<1>2. m \in Nat /\ p \in Nat /\ Len(user) = 8
  BY DEF DM!UserBytes
<1> HIDE DEF id
<1>3. SubSeq(id, 2, 9) = user
  <2>1. SubSeq(id, 1 + 1, 1 + Len(user)) = user
    <3>1. /\ 1 + Len(user) <= Len(id)
          /\ \A i \in 1..Len(user) : id[1 + i] = user[i]
      BY <1>1, <1>2
    <3> QED
      BY <1>1, <3>1, Slice
  <2> QED
    BY <1>2, <2>1
<1>4. SubSeq(id, 11, 10 + m) = msg
  <2>1. 10 + Len(msg) <= Len(id) /\ \A i \in 1..Len(msg) : id[10 + i] = msg[i]
    BY <1>1, <1>2
  <2>2. SubSeq(id, 10 + 1, 10 + Len(msg)) = msg
    BY <1>1, <2>1, Slice
  <2> QED
    BY <2>2
<1>5. DM!includesPartID(type) => SubSeq(id, 12 + m, 11 + m + p) = part
  <2> HAVE DM!includesPartID(type)
  <2>1. /\ 11 + m + Len(part) <= Len(id) /\ 11 + m \in Nat
        /\ \A i \in 1..Len(part) : id[11 + m + i] = part[i]
    BY <1>1, <1>2
  <2>2. SubSeq(id, (11 + m) + 1, (11 + m) + Len(part)) = part
    <3> HIDE DEF m
    <3> DEFINE k == 11 + m
    <3>1. k \in Nat /\ k + Len(part) <= Len(id)
          /\ \A i \in 1..Len(part) : id[k + i] = part[i]
      BY <2>1
    <3> HIDE DEF k
    <3>2. SubSeq(id, k + 1, k + Len(part)) = part
      BY <1>1, <3>1, Slice
    <3> QED
      BY <3>2 DEF k
  <2>3. (11 + m) + 1 = 12 + m
    BY <1>2
  <2> QED
    BY <2>2, <2>3
<1> HIDE DEF m, p
<1>6. DM!ParseMediaID(id) =
        [type |-> type, user |-> user, msg |-> msg,
         part |-> IF DM!includesPartID(type) THEN part ELSE <<>>]
  <2>1. /\ Len(id) >= 10 + m
        /\ DM!includesPartID(id[1]) =>
             id[11 + m] = p /\ Len(id) >= 11 + m + p
    BY <1>1, <1>2
  <2>2. DM!ParseMediaID(id) =
           [type |-> id[1], user |-> SubSeq(id, 2, 9),
            msg |-> SubSeq(id, 11, 10 + m),
            part |-> IF DM!includesPartID(id[1])
                     THEN SubSeq(id, 12 + m, 11 + m + p) ELSE <<>>]
    BY <1>1, <1>2, <2>1, Taken
  <2> QED
    BY <1>1, <1>3, <1>4, <1>5, <2>2
<1>7. ASSUME NEW n \in 0..(Len(id) - 1)
      PROVE  DM!ParseMediaID(SubSeq(id, 1, n)) = DM!Bad
  <2> DEFINE s == SubSeq(id, 1, n)
  <2> SUFFICES DM!ParseMediaID(s) = DM!Bad
    OBVIOUS
  <2>1. s \in Seq(Byte) /\ Len(s) = n /\ \A i \in 1..n : s[i] = id[i]
    <3>1. n \in 0..Len(id)
      BY <1>1, <1>2
    <3> QED
      BY <1>1, <3>1, Prefix
  <2> HIDE DEF s
  <2>2. CASE n < 10
    BY <2>1, <2>2, Refused
  <2>3. CASE ~(n < 10)
    <3>1. s[10] = m /\ s[1] = type
      BY <1>1, <2>1, <2>3
    <3>2. CASE n < 10 + m
      BY <2>1, <3>1, <3>2, Refused
    <3>3. CASE ~(n < 10 + m)
      <4>1. DM!includesPartID(type) /\ n < 11 + m + p
        BY <1>1, <1>2, <3>3
      <4>2. CASE n <= 10 + m
        BY <2>1, <3>1, <4>1, <4>2, Refused
      <4>3. CASE ~(n <= 10 + m)
        <5>1. s[11 + m] = p
          BY <1>1, <1>2, <2>1, <4>1, <4>3
        <5> QED
          BY <2>1, <3>1, <4>1, <5>1, Refused
      <4> QED
        BY <4>2, <4>3
    <3> QED
      BY <3>2, <3>3
  <2> QED
    BY <2>2, <2>3
<1> QED
  BY <1>6, <1>7
=============================================================================
