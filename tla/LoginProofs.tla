----------------------------- MODULE LoginProofs -----------------------------
(***************************************************************************)
(* Proofs about Login, for any methods that the server offers and any      *)
(* number of refusals and polls.                                           *)
(***************************************************************************)
EXTENDS Login, TLAPS

(* The parts of TypeOK.                                                    *)
PlacesTyped == phase \in Phases /\ st \in States
InputTyped ==
  input \in SUBSET Fields /\ refused \in SUBSET input
  /\ asked \in SUBSET Fields
FlagsTyped ==
  lastError \in BOOLEAN /\ loginData \in BOOLEAN /\ displayed \in BOOLEAN
CountersTyped == polls \in 0..MaxPolls /\ wrong \in 0..MaxWrong

(* What was refused leaves the input with the refusal itself.              *)
RefusedIsGone == refused = {}

(* An error message is stored only on the way back to the form it is       *)
(* about, whose field has been taken from the input: the next thing the    *)
(* browser does is to show the form, and with it the message.              *)
ErrorAtForm ==
  lastError => /\ st \in Forms \ {"CaptchaPage"} /\ Field[st] \notin input
               /\ phase \in {"run", "failed"}

Inv ==
  /\ PlacesTyped /\ InputTyped /\ FlagsTyped /\ CountersTyped
  /\ RefusedIsGone /\ ErrorAtForm /\ AcceptedIsSuccess

(* The parts make up TypeOK.                                               *)
LEMMA TypeParts ==
  TypeOK <=> PlacesTyped /\ InputTyped /\ FlagsTyped /\ CountersTyped
  BY DEF TypeOK, PlacesTyped, InputTyped, FlagsTyped, CountersTyped

(* The names of the pages with a form and of the actions that submit one.  *)
LEMMA FormNames ==
  /\ Forms = {"EmailPasswordPage", "EmailCodePage", "CaptchaPage",
              "TOTPPage", "SMSPageAfterSend", "BackupCodePage",
              "WhatsAppPageAfterSend"}
  /\ Entered = {"EnteredEmailPasswordAction", "EnteredEmailCodeAction",
                "EnteredEmailCodeAPAction", "EnteredCaptchaAction",
                "EnteredTOTPAction", "EnteredSMSAction",
                "EnteredWhatsAppAction", "EnteredBackupCodeAction"}
  BY DEF Forms, Field, Entered, BackTo

(* A refusal leads back to a form; only a captcha leads back to a captcha. *)
LEMMA Returns ==
  \A a \in Entered : /\ BackTo[a] \in Forms /\ a \notin Forms
                     /\ BackTo[a] = "CaptchaPage" =>
                          a = "EnteredCaptchaAction"
  BY FormNames DEF BackTo

(* Every form asks for one of the fields.                                  *)
LEMMA FieldsOfForms == \A p \in Forms : Field[p] \in Fields
  BY DEF Fields

(* Success is neither a form nor the sending of one, and every state that  *)
(* looks at LastError is the sending of a form.                            *)
LEMMA Places == "Success" \notin Forms \cup Entered /\ Forms \subseteq States
                /\ ChecksError \subseteq Entered
  BY FormNames DEF States, ChecksError

-----------------------------------------------------------------------------
(* Nothing has been entered or refused at first.                           *)
LEMMA InitInv == Init => Inv
<1> SUFFICES ASSUME Init PROVE Inv
  OBVIOUS
<1>1. PlacesTyped
  BY DEF Init, PlacesTyped, Phases, States
<1>2. InputTyped /\ FlagsTyped /\ RefusedIsGone /\ ErrorAtForm
      /\ AcceptedIsSuccess
  BY DEF Init, InputTyped, FlagsTyped, RefusedIsGone, ErrorAtForm,
         AcceptedIsSuccess
<1>3. CountersTyped
  BY LoginBounds DEF Init, CountersTyped
<1> QED
  BY <1>1, <1>2, <1>3 DEF Inv

(* A step that leaves the browser alone.                                   *)
LEMMA PhaseInv ==
  ASSUME Inv, UNCHANGED <<browserVars, polls, wrong, asked>>,
         phase' \in Phases, ~lastError \/ phase' = "failed",
         UNCHANGED <<input, refused>> \/ (input' \in SUBSET Fields
                                          /\ refused' = {} /\ ~lastError)
  PROVE  Inv'
<1>1. PlacesTyped' /\ FlagsTyped' /\ CountersTyped' /\ AcceptedIsSuccess'
  BY DEF Inv, browserVars, PlacesTyped, FlagsTyped, CountersTyped,
         AcceptedIsSuccess
<1>2. InputTyped' /\ RefusedIsGone'
  BY DEF Inv, InputTyped, RefusedIsGone
<1>3. ErrorAtForm'
  BY DEF Inv, browserVars, ErrorAtForm
<1> QED
  BY <1>1, <1>2, <1>3 DEF Inv

(* The cookie flow and the user leave the browser alone.                   *)
LEMMA OutsideInv == Inv /\ (CookieStep \/ UserStep) => Inv'
<1> SUFFICES ASSUME Inv, CookieStep \/ UserStep PROVE Inv'
  OBVIOUS
<1>1. CASE CookieStep
  BY <1>1, PhaseInv
  DEF CookieStep, LoadPage, NewLogin, StartConnection, Phases, Inv,
      ErrorAtForm
<1>2. ASSUME NEW native \in BOOLEAN, CreateLogin(native) PROVE Inv'
  BY <1>2, PhaseInv DEF CreateLogin, Phases, Inv, ErrorAtForm
<1>3. ASSUME NEW all \in BOOLEAN, SubmitCookies(all) PROVE Inv'
  BY <1>3, PhaseInv DEF SubmitCookies, Phases, Inv, ErrorAtForm
<1>4. ASSUME NEW fields \in SUBSET Fields, SubmitUserInput(fields)
      PROVE  Inv'
  BY <1>4, PhaseInv DEF SubmitUserInput, Phases, Inv, ErrorAtForm
<1>5. CASE Wait
  BY <1>5, PhaseInv DEF Wait, Phases, Inv, ErrorAtForm
<1> QED
  BY <1>1, <1>2, <1>3, <1>4, <1>5 DEF UserStep

(* A script that takes the browser on; no error is stored, since none of   *)
(* these steps is taken at a form whose field is missing.                  *)
LEMMA MoveInv ==
  ASSUME Inv, st' \in States, st # "Success", ~lastError,
         loginData' = loginData \/ (loginData' = TRUE /\ st' = "Success"),
         phase' \in Phases, displayed' \in BOOLEAN,
         polls' \in 0..MaxPolls,
         UNCHANGED <<lastError, input, refused, wrong, asked>>
  PROVE  Inv'
<1>1. PlacesTyped' /\ FlagsTyped' /\ CountersTyped'
  BY DEF Inv, PlacesTyped, FlagsTyped, CountersTyped
<1>2. InputTyped' /\ RefusedIsGone' /\ ErrorAtForm'
  BY DEF Inv, InputTyped, RefusedIsGone, ErrorAtForm
<1>3. AcceptedIsSuccess'
  BY DEF Inv, AcceptedIsSuccess
<1> QED
  BY <1>1, <1>2, <1>3 DEF Inv

(* A script changes neither the input nor the stored message.              *)
LEMMA ScriptInv ==
  Inv /\ \/ FirstRequest \/ Approved \/ NotApproved \/ PollAgain
         \/ \E s \in States : RunScript(s)
  => Inv'
<1> SUFFICES ASSUME Inv, \/ FirstRequest \/ Approved \/ NotApproved
                         \/ PollAgain \/ \E s \in States : RunScript(s)
             PROVE  Inv'
  OBVIOUS
<1>1. /\ st # "Success" /\ st \notin Forms
      /\ UNCHANGED <<lastError, input, refused, wrong, asked>>
  BY FormNames
  DEF FirstRequest, Approved, NotApproved, PollAgain, RunScript, Running,
      PlainActions
<1>2. ~lastError
  BY <1>1 DEF Inv, ErrorAtForm
<1>3. CASE FirstRequest \/ PollAgain \/ Approved
  <2>1. /\ st' \in States
        /\ UNCHANGED <<loginData, displayed, polls, phase>>
    BY <1>3
    DEF FirstRequest, PollAgain, Approved, After, States, PlainActions,
        OtherPages
  <2> QED
    BY <1>1, <1>2, <2>1, MoveInv
    DEF Inv, PlacesTyped, FlagsTyped, CountersTyped
<1>4. CASE NotApproved
  <2>1. /\ st' \in States /\ phase' \in Phases /\ displayed' = TRUE
        /\ UNCHANGED loginData
    BY <1>4
    DEF NotApproved, States, OtherPages, Phases, Inv, PlacesTyped
  <2>2. polls' \in 0..MaxPolls
    BY <1>4, LoginBounds DEF NotApproved, Inv, CountersTyped
  <2> QED
    BY <1>1, <1>2, <2>1, <2>2, MoveInv
<1>5. ASSUME NEW s \in States, RunScript(s) PROVE Inv'
  <2>1. /\ st' \in States /\ UNCHANGED <<phase, displayed, polls>>
        /\ loginData' = loginData \/ (loginData' = TRUE /\ st' = "Success")
    BY <1>5 DEF RunScript, After, States, OtherPages
  <2> QED
    BY <1>1, <1>2, <2>1, MoveInv
    DEF Inv, PlacesTyped, FlagsTyped, CountersTyped
<1> QED
  BY <1>3, <1>4, <1>5

(* The forms and the list of methods.                                      *)
LEMMA AskInv ==
  ASSUME Inv, NEW fields \in SUBSET Fields, Ask(fields), lastError' = FALSE,
         UNCHANGED <<loginData, displayed, polls, wrong>>
  PROVE  Inv'
<1>1. PlacesTyped' /\ InputTyped' /\ FlagsTyped' /\ CountersTyped'
  BY DEF Ask, Inv, PlacesTyped, InputTyped, FlagsTyped, CountersTyped, Phases
<1>2. RefusedIsGone' /\ ErrorAtForm' /\ AcceptedIsSuccess'
  BY DEF Ask, Inv, RefusedIsGone, ErrorAtForm, AcceptedIsSuccess
<1> QED
  BY <1>1, <1>2 DEF Inv

(* A form is shown, with the stored message if there is one, or sent; if   *)
(* it is refused, its field goes with it.                                  *)
LEMMA FormInv ==
  ASSUME Inv, NEW p \in Forms, Form(p)
  PROVE  Inv'
<1>1. CASE ShowForm(p)
  <2>1. lastError' = FALSE
    BY <1>1
    DEF ShowForm, Running, Inv, ErrorAtForm, FlagsTyped
  <2> QED
    BY <1>1, <2>1, AskInv, FieldsOfForms DEF ShowForm
<1>2. CASE FillForm(p)
  <2>1. /\ st' \in States /\ st # "Success" /\ ~lastError
        /\ UNCHANGED <<phase, input, lastError, loginData, displayed, polls,
                       wrong, refused, asked>>
    BY <1>2, Places
    DEF FillForm, Running, After, Inv, ErrorAtForm
  <2> QED
    BY <2>1, MoveInv DEF Inv, PlacesTyped, FlagsTyped, CountersTyped
<1> QED
  BY <1>1, <1>2 DEF Form

(* Choosing a second factor keeps the input of the forms.                  *)
LEMMA MethodInv ==
  ASSUME Inv, NEW offered \in SUBSET Methods, ChooseMethod(offered)
  PROVE  Inv'
<1>1. /\ st = "ChooseMFAPage" /\ ~lastError
      /\ UNCHANGED <<lastError, loginData, displayed, polls, wrong>>
  BY FormNames DEF ChooseMethod, Running, Inv, ErrorAtForm
<1>2. CASE Ask({"mfatype"})
  <2>1. {"mfatype"} \in SUBSET Fields /\ lastError' = FALSE
    BY <1>1 DEF Fields, Inv, FlagsTyped
  <2> QED
    BY <1>1, <1>2, <2>1, AskInv
<1>3. CASE /\ st' \in After("ChooseMFAPage")
           /\ UNCHANGED <<phase, input, refused, asked>>
  BY <1>1, <1>3, MoveInv
  DEF After, Inv, PlacesTyped, FlagsTyped, CountersTyped
<1> QED
  BY <1>2, <1>3 DEF ChooseMethod

(* The actions that submit a form.                                         *)
LEMMA SubmittedInv ==
  ASSUME Inv, NEW a \in Entered, Submitted(a)
  PROVE  Inv'
<1>1. st = a /\ phase = "run" /\ ~lastError /\ st # "Success"
  BY Returns, Places
  DEF Submitted, Accepted, Refused, Running, Inv, ErrorAtForm
<1>2. CASE Accepted(a)
  <2>1. PICK t \in After(a) \cup {"Success"} :
          /\ loginData' = (loginData \/ t = "Success") /\ st' = t
          /\ UNCHANGED <<input, refused>>
    BY <1>1, <1>2 DEF Accepted
  <2>2. st' \in States
    BY <2>1 DEF After, States
  <2>3. loginData' = loginData \/ (loginData' = TRUE /\ st' = "Success")
    BY <1>1, <2>1 DEF Inv, AcceptedIsSuccess, FlagsTyped
  <2> QED
    BY <1>1, <1>2, <2>1, <2>2, <2>3, MoveInv
    DEF Accepted, Inv, PlacesTyped, FlagsTyped, CountersTyped
<1>3. CASE Refused(a)
  <2>1. /\ st' = BackTo[a] /\ input' = input \ {Field[BackTo[a]]}
        /\ UNCHANGED <<phase, loginData, displayed, polls, asked>>
    BY <1>3 DEF Refused
  <2>2. refused' = {}
    BY <1>3, <2>1 DEF Refused, Inv, RefusedIsGone
  <2>3. lastError' \in BOOLEAN /\ (lastError' => a # "EnteredCaptchaAction")
    BY <1>1, <1>3 DEF Refused
  <2>4. CountersTyped'
    BY <1>3, LoginBounds DEF Refused, Inv, CountersTyped
  <2>5. PlacesTyped' /\ InputTyped' /\ FlagsTyped' /\ RefusedIsGone'
    BY <2>1, <2>2, <2>3, Returns, Places
    DEF Inv, PlacesTyped, InputTyped, FlagsTyped, RefusedIsGone
  <2>6. ErrorAtForm'
    BY <1>1, <2>1, <2>3, Returns DEF ErrorAtForm
  <2>7. AcceptedIsSuccess'
    BY <1>1, <2>1 DEF Inv, AcceptedIsSuccess
  <2> QED
    BY <2>4, <2>5, <2>6, <2>7 DEF Inv
<1> QED
  BY <1>2, <1>3 DEF Submitted

(* So every step of the browser keeps the invariant.                       *)
LEMMA BrowserInv == Inv /\ BrowserStep => Inv'
<1> SUFFICES ASSUME Inv, BrowserStep PROVE Inv'
  OBVIOUS
<1>1. CASE StepFails \/ TakeCookies
  BY <1>1, Places, PhaseInv
  DEF StepFails, TakeCookies, Running, Phases, Inv, ErrorAtForm
<1>2. CASE EmailPasswordPage \/ EmailCodePage \/ BackupCodePage
           \/ CaptchaPage \/ TOTPPage \/ SMSPageAfterSend
           \/ WhatsAppPageAfterSend
  BY <1>2, FormNames, FormInv
  DEF EmailPasswordPage, EmailCodePage, BackupCodePage, CaptchaPage,
      TOTPPage, SMSPageAfterSend, WhatsAppPageAfterSend
<1>3. CASE EnteredCaptchaAction \/ EnteredEmailCodeAPAction
           \/ EnteredEmailPasswordAction \/ EnteredEmailCodeAction
           \/ EnteredCodeAction
  BY <1>3, FormNames, Places, SubmittedInv
  DEF EnteredCaptchaAction, EnteredEmailCodeAPAction,
      EnteredEmailPasswordAction, EnteredEmailCodeAction, EnteredCodeAction
<1> QED
  BY <1>1, <1>2, <1>3, ScriptInv, MethodInv DEF BrowserStep

(* The invariant holds in every behaviour.                                 *)
LEMMA InvHolds == Spec => []Inv
<1>1. Inv /\ Next => Inv'
  BY OutsideInv, BrowserInv DEF Next
<1>2. Inv /\ UNCHANGED vars => Inv'
  BY DEF vars, Inv, PlacesTyped, InputTyped, FlagsTyped, CountersTyped,
         RefusedIsGone, ErrorAtForm, AcceptedIsSuccess
<1> QED
  BY InitInv, <1>1, <1>2, PTL DEF Spec

(* The variables of the login process and of its browser keep their types. *)
THEOREM TypeCorrect == Spec => []TypeOK
<1>1. Inv => TypeOK
  BY TypeParts DEF Inv
<1> QED
  BY InvHolds, <1>1, PTL

(* What the server has refused is never sent to it a second time, however  *)
(* many forms are filled in and refused before.                            *)
THEOREM NeverResubmitted == Spec => []NoResubmit
<1>1. Inv => NoResubmit
  BY DEF Inv, RefusedIsGone, NoResubmit
<1> QED
  BY InvHolds, <1>1, PTL

(* A code that the server has accepted ends the login although the four    *)
(* code actions look at LastError: every message was shown, and cleared,   *)
(* before the form could be sent again.                                    *)
THEOREM AcceptanceCounts == Spec => []AcceptedIsSuccess
<1>1. Inv => AcceptedIsSuccess
  BY DEF Inv
<1> QED
  BY InvHolds, <1>1, PTL
=============================================================================
