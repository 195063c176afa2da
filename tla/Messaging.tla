------------------------------ MODULE Messaging ------------------------------
(***************************************************************************)
(* Sending Matrix messages and edits to Meta                               *)
(* (pkg/connector/handlematrix.go): HandleMatrixMessage with its wait for  *)
(* the connection, the conversion, the reconnect it may do on the way, and *)
(* the loop that sends the task again; HandleMatrixEdit with the channel   *)
(* on which it waits for a correction of an answer that reports the edit   *)
(* as reverted; and handleEdit of handlemeta.go, which feeds the channel.  *)
(*                                                                         *)
(* A send and an edit are handler invocations.  The edits all have the     *)
(* same target message, and each has a text of its own, named like the     *)
(* edit.  The answer to a request may be lost after the server acted on    *)
(* the request.  The connection is a waiter that is set or not (MetaClient *)
(* has the details), and every wait in the handlers has a timeout.         *)
(***************************************************************************)
EXTENDS Naturals, Sequences, FiniteSets, SequencesExt

CONSTANTS Sends,     \* invocations of HandleMatrixMessage
          Edits,     \* invocations of HandleMatrixEdit
          None,
          MaxTries,  \* how often the send loop tries; 5 in the code
          EditCap,   \* capacity of an edit channel; 5 in the code
          MaxFlaps,  \* bound: changes of the connection
          MaxOther   \* bound: edits of the message from other devices

ASSUME TriesAssumption == MaxTries \in Nat \ {0} /\ EditCap \in Nat \ {0}
ASSUME BoundsAssumption == MaxFlaps \in Nat /\ MaxOther \in Nat
ASSUME NoneAssumption == None \notin Sends \cup Edits
ASSUME SendsAssumption == IsFiniteSet(Sends)

Otids == 1..Cardinality(Sends) * MaxTries
Other == "other"     \* the text of an edit made on another device
Texts == Edits \cup {Other}
ASSUME OtherAssumption == Other \notin Edits

SendSteps == {"idle", "convert", "reconnect", "reconvert", "try", "done"}
Results == {"none", "notConnected", "error", "reload", "rejected", "ok"}
Answers == {"lost", "replaced", "badID", "failed", "empty"}
EditSteps == {"idle", "ask", "correction", "done"}
EditAnswers == {"accept", "reject", "late", "unrelated", "error"}
Verdicts == {"none", "notConnected", "error", "reverted", "ok"}

VARIABLES
  up, flaps,      \* connectWaiter and canSendMessages are set; bound
  recent,         \* the last full reconnect is too recent for another one
  spc, tries,     \* where each send is, and how often it has tried
  otid, nextOtid, \* its offline threading ID; GenerateEpochID
  result,         \* what it returned
  stored,         \* the server's messages: the sends that made each otid
  epc, verdict,   \* where each edit is, and what it returned
  asked,          \* how the server took each edit
  channel, buf,   \* editChannels for the message; the channels
  pushes,         \* edits the server is about to push
  others,         \* edits from other devices so far
  cause           \* history: why an accepted edit may pass for reverted

connVars == <<up, flaps, recent>>
sendVars == <<spc, tries, otid, nextOtid, result, stored>>
editVars == <<epc, verdict, asked, channel, buf, pushes, others, cause>>
vars == <<connVars, sendVars, editVars>>

TypeOK ==
  /\ up \in BOOLEAN /\ recent \in BOOLEAN /\ flaps \in 0..MaxFlaps
  /\ spc \in [Sends -> SendSteps] /\ tries \in [Sends -> 0..MaxTries]
  /\ otid \in [Sends -> {0} \cup Otids]
  /\ nextOtid \in 1..Cardinality(Sends) * MaxTries + 1
  /\ result \in [Sends -> Results]
  /\ stored \in [Otids -> SUBSET Sends]
  /\ epc \in [Edits -> EditSteps] /\ verdict \in [Edits -> Verdicts]
  /\ asked \in [Edits -> {"none"} \cup EditAnswers]
  /\ channel \in Edits \cup {None}
  /\ buf \in [Edits -> Seq(Texts)] /\ \A e \in Edits : Len(buf[e]) <= EditCap
  /\ pushes \in Seq(Texts) /\ others \in 0..MaxOther
  /\ cause \in [Edits -> SUBSET {"late", "overlap", "dropped", "unknown"}]

Init ==
  /\ up = TRUE /\ flaps = 0 /\ recent = FALSE
  /\ spc = [s \in Sends |-> "idle"] /\ tries = [s \in Sends |-> 0]
  /\ otid = [s \in Sends |-> 0] /\ nextOtid = 1
  /\ result = [s \in Sends |-> "none"]
  /\ stored = [o \in Otids |-> {}]
  /\ epc = [e \in Edits |-> "idle"] /\ verdict = [e \in Edits |-> "none"]
  /\ asked = [e \in Edits |-> "none"]
  /\ channel = None /\ buf = [e \in Edits |-> <<>>]
  /\ pushes = <<>> /\ others = 0
  /\ cause = [e \in Edits |-> {}]

-----------------------------------------------------------------------------
(* External: the connection is lost and comes back.                        *)
Flap ==
  /\ flaps < MaxFlaps
  /\ up' = ~up /\ flaps' = flaps + 1
  /\ UNCHANGED <<recent, sendVars, editVars>>

canReconnect == ~recent

-----------------------------------------------------------------------------
(* HandleMatrixMessage for a chat that is not encrypted.                   *)

SReturn(s, r) ==
  /\ spc' = [spc EXCEPT ![s] = "done"]
  /\ result' = [result EXCEPT ![s] = r]

SGoto(s, step) == spc' = [spc EXCEPT ![s] = step] /\ UNCHANGED result

(* getOTID: one otid, from the transaction ID or new, for the whole call.  *)
getOTID(s) ==
  /\ otid' = [otid EXCEPT ![s] = nextOtid]
  /\ nextOtid' = nextOtid + 1

(* connectWaiter.WaitTimeout: set, or not set within a minute.             *)
HandleMatrixMessage(s) ==
  /\ spc[s] = "idle"
  /\ getOTID(s)
  /\ IF up THEN SGoto(s, "convert") ELSE SReturn(s, "notConnected")
  /\ UNCHANGED <<connVars, tries, stored, editVars>>

(* ToMeta.  Its upload may fail with "please reload page", which is worth  *)
(* a full reconnect and one more try, with "token invalidated", which      *)
(* starts a reconnect in the background, or otherwise.                     *)
ConvertOutcomes == {"ok", "reload", "token", "error"}

ToMeta(s, outcome) ==
  /\ spc[s] \in {"convert", "reconvert"}
  /\ IF outcome = "ok" THEN SGoto(s, "try")
     ELSE IF outcome = "reload" /\ spc[s] = "convert" /\ canReconnect
     THEN SGoto(s, "reconnect")
     ELSE SReturn(s, IF outcome = "reload" THEN "reload" ELSE "error")
  /\ recent' = (recent \/ outcome = "token")
  /\ UNCHANGED <<up, flaps, tries, otid, nextOtid, stored, editVars>>

(* FullReconnect, as part of the handler: the connection goes and may come *)
(* back before the call returns.                                           *)
MutFullReconnect(s, back) ==
  /\ spc[s] = "reconnect"
  /\ up' = back /\ recent' = recent
  /\ SGoto(s, "convert")
  /\ UNCHANGED <<flaps, tries, otid, nextOtid, stored, editVars>>

FullReconnect(s, back) ==
  /\ spc[s] = "reconnect"
  /\ up' = back /\ recent' = TRUE
  /\ SGoto(s, "reconvert")
  /\ UNCHANGED <<flaps, tries, otid, nextOtid, stored, editVars>>

(* One turn of the retry loop has failed.                                  *)
NextTry(s) ==
  /\ tries' = [tries EXCEPT ![s] = @ + 1]
  /\ IF tries[s] + 1 >= MaxTries THEN SReturn(s, "error")
                                 ELSE SGoto(s, "try")

(* WaitUntilCanSendMessages fails after 15 seconds.                        *)
CannotSend(s) ==
  /\ spc[s] = "try" /\ ~up
  /\ NextTry(s)
  /\ UNCHANGED <<connVars, otid, nextOtid, stored, editVars>>

(* External: the server stores the message under its otid (a second time   *)
(* is the same message), or refuses.                                       *)
ServerStores(s, a) ==
  \/ /\ a \in {"replaced", "badID", "lost"}
     /\ stored' = [stored EXCEPT ![otid[s]] = @ \cup {s}]
  \/ /\ a \in {"failed", "empty", "lost"}
     /\ UNCHANGED stored

(* ExecuteTasks.  If the answer does not come, the loop tries again.  It   *)
(* must replace this otid's optimistic message, with an ID that can be     *)
(* parsed; anything else is a rejection.                                   *)
MutSendTask(s, a) ==
  /\ spc[s] = "try" /\ up
  /\ ServerStores(s, a)
  /\ CASE a = "lost" -> NextTry(s)
       [] a = "replaced" -> SReturn(s, "ok") /\ UNCHANGED tries
       [] OTHER -> SReturn(s, "rejected") /\ UNCHANGED tries
  /\ IF spc'[s] = "try" THEN getOTID(s) ELSE UNCHANGED <<otid, nextOtid>>
  /\ UNCHANGED <<connVars, editVars>>

MutTakeAnswer(s, a) ==
  /\ spc[s] = "try" /\ up
  /\ ServerStores(s, a)
  /\ CASE a = "lost" -> NextTry(s)
       [] a \in {"replaced", "empty"} -> SReturn(s, "ok") /\ UNCHANGED tries
       [] OTHER -> SReturn(s, "rejected") /\ UNCHANGED tries
  /\ UNCHANGED <<connVars, otid, nextOtid, editVars>>

SendTask(s, a) ==
  /\ spc[s] = "try" /\ up
  /\ ServerStores(s, a)
  /\ CASE a = "lost" -> NextTry(s)
       [] a = "replaced" -> SReturn(s, "ok") /\ UNCHANGED tries
       [] OTHER -> SReturn(s, "rejected") /\ UNCHANGED tries
  /\ UNCHANGED <<connVars, otid, nextOtid, editVars>>

SendStep(s) ==
  \/ \E o \in ConvertOutcomes : ToMeta(s, o)
  \/ \E back \in BOOLEAN : FullReconnect(s, back)
  \/ CannotSend(s) \/ \E a \in Answers : SendTask(s, a)

-----------------------------------------------------------------------------
(* HandleMatrixEdit of a message that is not encrypted.                    *)

EUnchanged == UNCHANGED <<connVars, sendVars, others>>

(* The deferred editChannels.Delete comes with every return after the Set. *)
(* It goes by the message, not by the channel.                             *)
EReturn(e, v) ==
  /\ epc' = [epc EXCEPT ![e] = "done"]
  /\ verdict' = [verdict EXCEPT ![e] = v]
  /\ channel' = None
  /\ cause' = [x \in Edits |->
       CASE x = channel /\ x # e -> cause[x] \cup {"overlap"}
         [] x = e /\ e \in ToSet(pushes) \cup ToSet(buf[e]) ->
              cause[x] \cup {"late"}
         [] OTHER -> cause[x]]

(* The wait for the connection and ToMeta for the text; then               *)
(* editChannels.Set, which puts the new channel in place of another's.     *)
HandleMatrixEdit(e, converts) ==
  /\ epc[e] = "idle"
  /\ IF up /\ converts
     THEN /\ epc' = [epc EXCEPT ![e] = "ask"]
          /\ channel' = e
          /\ cause' = IF channel = None THEN cause
                      ELSE [cause EXCEPT ![channel] = @ \cup {"overlap"}]
          /\ UNCHANGED verdict
     ELSE /\ epc' = [epc EXCEPT ![e] = "done"]
          /\ verdict' = [verdict EXCEPT ![e] = IF up THEN "error"
                                               ELSE "notConnected"]
          /\ UNCHANGED <<channel, cause>>
  /\ EUnchanged /\ UNCHANGED <<asked, buf, pushes>>

(* ExecuteTasks with the edit.  The server accepts it; or rejects it; or   *)
(* answers as if it had rejected it and pushes the accepted edit later; or *)
(* answers with no edit of this message, which passes for success; or the  *)
(* request fails.                                                          *)
AskEdit(e, a) ==
  /\ epc[e] = "ask"
  /\ asked' = [asked EXCEPT ![e] = a]
  /\ pushes' = IF a = "late" THEN Append(pushes, e) ELSE pushes
  /\ IF a \in {"late", "reject"}
     THEN /\ epc' = [epc EXCEPT ![e] = "correction"]
          /\ UNCHANGED <<verdict, channel, cause>>
     ELSE EReturn(e, IF a = "error" THEN "error" ELSE "ok")
  /\ EUnchanged /\ UNCHANGED buf

(* The loop that waits for an edit with this text ...                      *)
MutTakeCorrection(e) ==
  /\ epc[e] = "correction" /\ buf[e] # <<>>
  /\ buf' = [buf EXCEPT ![e] = Tail(@)]
  /\ EReturn(e, "ok")
  /\ EUnchanged /\ UNCHANGED <<asked, pushes>>

TakeCorrection(e) ==
  /\ epc[e] = "correction" /\ buf[e] # <<>>
  /\ buf' = [buf EXCEPT ![e] = Tail(@)]
  /\ IF Head(buf[e]) = e
     THEN EReturn(e, "ok")
     ELSE UNCHANGED <<epc, verdict, channel, cause>>
  /\ EUnchanged /\ UNCHANGED <<asked, pushes>>

(* ... for at most five seconds.  (A select takes any branch that is       *)
(* ready: the timeout may win over a correction that has arrived.)         *)
CorrectionTimesOut(e) ==
  /\ epc[e] = "correction"
  /\ EReturn(e, "reverted")
  /\ EUnchanged /\ UNCHANGED <<asked, buf, pushes>>

(* External: the message is edited on another device.                      *)
OtherEdit ==
  /\ others < MaxOther
  /\ others' = others + 1
  /\ pushes' = Append(pushes, Other)
  /\ UNCHANGED <<connVars, sendVars, epc, verdict, asked, channel, buf, cause>>

(* handleEdit: the target is looked up, and without it nothing happens;    *)
(* else the edit goes into the channel registered for the message, unless  *)
(* that is full.  (It goes to the bridge as well: TablePipeline.)          *)
Room == channel # None /\ Len(buf[channel]) < EditCap

MutHandleEdit(found) ==
  /\ pushes # <<>>
  /\ pushes' = Tail(pushes)
  /\ cause' = IF Head(pushes) \in Edits /\ ~found
              THEN [cause EXCEPT ![Head(pushes)] = @ \cup {"unknown"}]
              ELSE cause
  /\ EUnchanged /\ UNCHANGED <<buf, epc, verdict, asked, channel>>

handleEdit(found) ==
  /\ pushes # <<>>
  /\ pushes' = Tail(pushes)
  /\ LET t == Head(pushes)
     IN /\ buf' = IF found /\ Room
                  THEN [buf EXCEPT ![channel] = Append(@, t)] ELSE buf
        /\ cause' = IF t \in Edits /\ ~found
                    THEN [cause EXCEPT ![t] = @ \cup {"unknown"}]
                    ELSE IF channel = t /\ ~Room
                    THEN [cause EXCEPT ![t] = @ \cup {"dropped"}]
                    ELSE cause
  /\ EUnchanged /\ UNCHANGED <<epc, verdict, asked, channel>>

EditStep(e) ==
  \/ \E a \in EditAnswers : AskEdit(e, a)
  \/ TakeCorrection(e) \/ CorrectionTimesOut(e)

-----------------------------------------------------------------------------
Done == /\ \A s \in Sends : spc[s] = "done"
        /\ \A e \in Edits : epc[e] = "done"
        /\ UNCHANGED vars

Next ==
  \/ Flap \/ OtherEdit \/ \E found \in BOOLEAN : handleEdit(found)
  \/ \E s \in Sends : HandleMatrixMessage(s) \/ SendStep(s)
  \/ \E e \in Edits : EditStep(e)
       \/ \E converts \in BOOLEAN : HandleMatrixEdit(e, converts)
  \/ Done

Spec == Init /\ [][Next]_vars

(* Every wait of a handler has a timeout, and makeLSRequest has one too,   *)
(* so a handler that has begun keeps taking steps.                         *)
Fairness == /\ \A s \in Sends : WF_vars(SendStep(s))
            /\ \A e \in Edits : WF_vars(EditStep(e))
FairSpec == Spec /\ Fairness

-----------------------------------------------------------------------------
(* Properties.                                                             *)

(* However often the answers are lost and the loop sends the task again,   *)
(* before and after a full reconnect, a Matrix message becomes at most one *)
(* message on the server: every try carries the same otid, and no two      *)
(* Matrix messages share one.  And HandleMatrixMessage reports success     *)
(* only if it has become one.                                              *)
ExactlyOnce ==
  /\ \A s \in Sends : Cardinality({o \in Otids : s \in stored[o]}) <= 1
  /\ \A o \in Otids : Cardinality(stored[o]) <= 1
  /\ \A s \in Sends : result[s] = "ok" => s \in stored[otid[s]]

(* What HandleMatrixEdit reports is so.  An edit that the answer reported  *)
(* as reverted passes for successful only if the server did take it,       *)
(* whatever other edits of the message, from here or from another device,  *)
(* are pushed while it waits.  And an edit the server took is reported as  *)
(* reverted only if the push came too late or could not be placed, or      *)
(* another edit of the same message was being handled: channels are keyed  *)
(* by message, and the first of two handlers to return removes the         *)
(* other's.                                                                *)
EditReportIsTrue ==
  \A e \in Edits :
    /\ verdict[e] = "ok" => asked[e] # "reject"
    /\ verdict[e] = "reverted" /\ asked[e] = "late" => cause[e] # {}

(* Every handler returns, whatever the connection and the server do.       *)
HandlersReturn ==
  /\ \A s \in Sends : spc[s] = "convert" ~> spc[s] = "done"
  /\ \A e \in Edits : epc[e] = "ask" ~> epc[e] = "done"
=============================================================================
