-------------------------------- MODULE Login --------------------------------
(***************************************************************************)
(* Logging in (pkg/connector/login.go) and the simulated Messenger Lite    *)
(* app behind it (Browser of pkg/messagix/bloks/selenium.go, driven by     *)
(* DoLoginSteps of pkg/messagix/messengerlite.go).                         *)
(*                                                                         *)
(* The browser has a state per page the app can show and per action (a     *)
(* script from the server) it can run.  What a script does is up to the    *)
(* server: it calls an RPC, opens a screen, hands over the login data, or  *)
(* fails; the browser lets it take only the transitions listed here.  A    *)
(* call of the login process gets a map with the fields the user has       *)
(* filled in; fields are only told apart by name.                          *)
(***************************************************************************)
EXTENDS Naturals, FiniteSets

CONSTANTS MaxWrong,   \* bound: codes and passwords the server refuses
          MaxPolls,   \* bound: how often the server says "not approved yet"
          Methods     \* the sign-in methods that the server may offer

ASSUME LoginBounds == MaxWrong \in Nat /\ MaxPolls \in Nat

-----------------------------------------------------------------------------
(* The states of the browser.                                              *)

(* Pages with a form: the field each of them reads from the user's input.  *)
Field == [EmailPasswordPage |-> "password", EmailCodePage |-> "email_code",
          CaptchaPage |-> "captcha_code", TOTPPage |-> "totp_code",
          SMSPageAfterSend |-> "sms_code", BackupCodePage |-> "backup_code",
          WhatsAppPageAfterSend |-> "whatsapp_code"]
Forms == DOMAIN Field

(* The actions that submit a form, with the page they go back to when the  *)
(* server does not take what was entered.                                  *)
BackTo == [EnteredEmailPasswordAction |-> "EmailPasswordPage",
           EnteredEmailCodeAction |-> "EmailCodePage",
           EnteredEmailCodeAPAction |-> "EmailCodePage",
           EnteredCaptchaAction |-> "CaptchaPage",
           EnteredTOTPAction |-> "TOTPPage",
           EnteredSMSAction |-> "SMSPageAfterSend",
           EnteredWhatsAppAction |-> "WhatsAppPageAfterSend",
           EnteredBackupCodeAction |-> "BackupCodePage"]
Entered == DOMAIN BackTo

(* The other actions, and the other pages.                                 *)
PlainActions == {"RedirectToLoginAction", "RedirectToMFALandingAction",
                 "MFALandingAPAction", "ChooseMFAAPAction",
                 "ChosenMFAAPAction", "ChosenMFAAction", "AFADCompleteAction"}
OtherPages == {"MFALandingPage", "PossibleMandatoryAFADPage", "ChooseMFAPage",
               "AFADPage", "AFADWait", "OAuthPage", "SMSPage", "WhatsAppPage"}
States == {"Initial", "AFADAction", "Success"} \cup Forms \cup Entered
            \cup PlainActions \cup OtherPages

(* DoRPC: which RPC may be called in which state, and where it leads.  The *)
(* two actions that would send a code are not run: their state is at once  *)
(* replaced by the page that asks for the code.                            *)
DoRPC ==
  [send_login_request |->
     {<<"EmailPasswordPage", "EnteredEmailPasswordAction">>},
   two_step_entrypoint |->
     {<<"EnteredEmailPasswordAction", "MFALandingPage">>,
      <<"EnteredEmailCodeAction", "MFALandingPage">>,
      <<"EnteredCaptchaAction", "MFALandingPage">>},
   two_step_async_entrypoint |->
     {<<"EnteredEmailPasswordAction", "RedirectToMFALandingAction">>},
   enter_text_captcha_code |->
     {<<"RedirectToMFALandingAction", "CaptchaPage">>},
   text_captcha |-> {<<"CaptchaPage", "EnteredCaptchaAction">>},
   ap_entrypoint_async |->
     {<<"EnteredEmailPasswordAction", "MFALandingAPAction">>,
      <<"EnteredCaptchaAction", "MFALandingAPAction">>},
   ap_approve_from_another_device |->
     {<<"MFALandingAPAction", "PossibleMandatoryAFADPage">>,
      <<"ChosenMFAAPAction", "AFADPage">>},
   ap_approve_from_another_device_async |->
     {<<"PossibleMandatoryAFADPage", "ChooseMFAAPAction">>,
      <<"MFALandingPage", "ChooseMFAAPAction">>},
   ap_challenge_picker |-> {<<"ChooseMFAAPAction", "ChooseMFAPage">>},
   ap_challenge_picker_async |-> {<<"ChooseMFAPage", "ChosenMFAAPAction">>},
   verify_code_async |->
     {<<"TOTPPage", "EnteredTOTPAction">>,
      <<"SMSPageAfterSend", "EnteredSMSAction">>,
      <<"WhatsAppPageAfterSend", "EnteredWhatsAppAction">>,
      <<"BackupCodePage", "EnteredBackupCodeAction">>},
   method_picker |-> {<<"MFALandingPage", "ChooseMFAPage">>},
   method_picker_navigation |-> {<<"ChooseMFAPage", "ChosenMFAAction">>},
   ap_code_entry |-> {<<"ChosenMFAAPAction", "EmailCodePage">>},
   submit_code_async |-> {<<"EmailCodePage", "EnteredEmailCodeAction">>},
   ap_code_entry_async |-> {<<"EmailCodePage", "EnteredEmailCodeAPAction">>},
   enter_totp_code |-> {<<"ChosenMFAAction", "TOTPPage">>},
   approve_from_another_device |-> {<<"ChosenMFAAction", "AFADPage">>},
   afad_state_async |-> {<<"AFADPage", "AFADAction">>},
   afad_complete_async |-> {<<"AFADAction", "AFADCompleteAction">>},
   login_with_third_party |-> {<<"ChosenMFAAPAction", "OAuthPage">>},
   enter_sms_code |-> {<<"ChosenMFAAction", "SMSPage">>},
   send_code_async |-> {<<"SMSPage", "SMSPageAfterSend">>,
                        <<"WhatsAppPage", "WhatsAppPageAfterSend">>},
   enter_backup_code |-> {<<"ChosenMFAAction", "BackupCodePage">>},
   enter_whatsapp_code |-> {<<"ChosenMFAAction", "WhatsAppPage">>}]

DisplayNewScreen == {<<"RedirectToLoginAction", "EmailPasswordPage">>,
                     <<"EnteredEmailPasswordAction", "EmailCodePage">>}

(* HandleLoginResponse is only expected in these states.                   *)
MayLogIn == Entered \cup {"AFADCompleteAction"}

(* Where a script can take the browser from a state.                       *)
After(st) == {t \in States :
                \/ \E rpc \in DOMAIN DoRPC : <<st, t>> \in DoRPC[rpc]
                \/ <<st, t>> \in DisplayNewScreen}

-----------------------------------------------------------------------------
VARIABLES
  phase,      \* of the login process
  st,         \* Browser.State
  input,      \* the fields with a value in the userInput of this call
  lastError,  \* Browser.LastError is set
  loginData,  \* Browser.LoginData is set
  displayed,  \* AFADDisplayed
  polls,      \* how often the device was not approved yet
  wrong,      \* how often the server has refused something
  refused,    \* history: fields of the input whose value was refused
  asked       \* history: the fields of the last form shown to the user

browserVars == <<st, lastError, loginData, displayed>>
vars == <<phase, st, input, lastError, loginData, displayed, polls, wrong,
          refused, asked>>

(* cookies: the cookie form is shown; ask: a step with a form or with a    *)
(* list of methods; wait: a display-and-wait step; run: DoLoginSteps runs; *)
(* page, store, connect: loginWithCookies.                                 *)
Phases == {"new", "cookies", "run", "ask", "wait", "page", "store",
           "connect", "complete", "failed"}
Fields == {Field[p] : p \in Forms} \cup {"mfatype"}

TypeOK ==
  /\ phase \in Phases /\ st \in States
  /\ input \in SUBSET Fields /\ refused \in SUBSET input
  /\ asked \in SUBSET Fields
  /\ lastError \in BOOLEAN /\ loginData \in BOOLEAN /\ displayed \in BOOLEAN
  /\ polls \in 0..MaxPolls /\ wrong \in 0..MaxWrong

Init ==
  /\ phase = "new" /\ st = "Initial"
  /\ input = {} /\ refused = {} /\ asked = {}
  /\ lastError = FALSE /\ loginData = FALSE /\ displayed = FALSE
  /\ polls = 0 /\ wrong = 0

-----------------------------------------------------------------------------
(* The login process, as the bridge calls it.                              *)

(* CreateLogin and Start: the native flow starts the browser right away,   *)
(* the others show what cookies they need.  A proxy that cannot be had is  *)
(* an error.                                                               *)
CreateLogin(native) ==
  /\ phase = "new"
  /\ phase' \in IF native THEN {"run", "failed"} ELSE {"cookies"}
  /\ UNCHANGED <<browserVars, input, polls, wrong, refused, asked>>

(* SubmitCookies, with all the cookies or without some.                    *)
SubmitCookies(all) ==
  /\ phase = "cookies"
  /\ phase' = IF all THEN "page" ELSE "failed"
  /\ UNCHANGED <<browserVars, input, polls, wrong, refused, asked>>

(* SubmitUserInput: the answer to a form, with a new map; the user may     *)
(* leave the form empty.                                                   *)
SubmitUserInput(fields) ==
  /\ phase = "ask" /\ fields \in {asked, {}}
  /\ input' = fields /\ refused' = {} /\ phase' = "run"
  /\ UNCHANGED <<browserVars, polls, wrong, asked>>

(* Wait: after a display-and-wait step, without input.                     *)
Wait ==
  /\ phase = "wait"
  /\ input' = {} /\ refused' = {} /\ phase' = "run"
  /\ UNCHANGED <<browserVars, polls, wrong, asked>>

-----------------------------------------------------------------------------
(* DoLoginStep, one state at a time; DoLoginSteps repeats it until there   *)
(* is a step to show or the browser has logged in.                         *)

Running(s) == phase = "run" /\ st = s

Ask(fields) ==
  /\ phase' = "ask" /\ asked' = fields
  /\ UNCHANGED <<st, input, refused>>

(* An error, among them "failed to advance flow" when a step neither       *)
(* changed the state nor asked for anything, ends the login.               *)
StepFails ==
  /\ phase = "run" /\ st # "Success"
  /\ phase' = "failed"
  /\ UNCHANGED <<browserVars, input, polls, wrong, refused, asked>>

(* StateInitial asks the server for the first action.                      *)
FirstRequest ==
  /\ Running("Initial")
  /\ st' = "RedirectToLoginAction"
  /\ UNCHANGED <<phase, input, lastError, loginData, displayed, polls, wrong,
                 refused, asked>>

MutShowForm(p) ==
  /\ Running(p) /\ Field[p] \notin input
  /\ Ask({Field[p]})
  /\ UNCHANGED <<lastError, loginData, displayed, polls, wrong>>

(* A page with a form: without its field ask for it, once with the last    *)
(* error (the captcha page has its own wording), else fill in and tap.     *)
ShowForm(p) ==
  /\ Running(p) /\ Field[p] \notin input
  /\ Ask({Field[p]})
  /\ lastError' = IF p = "CaptchaPage" THEN lastError ELSE FALSE
  /\ UNCHANGED <<loginData, displayed, polls, wrong>>

FillForm(p) ==
  /\ Running(p) /\ Field[p] \in input
  /\ st' \in After(p)
  /\ UNCHANGED <<phase, input, lastError, loginData, displayed, polls, wrong,
                 refused, asked>>

(* An action that submits a form, when the server takes it: the script     *)
(* moves on or hands over the login data.  If LastError is set then, the   *)
(* four code actions go back to their page all the same; the email code    *)
(* and captcha actions look at the state first.                            *)
ChecksError == {"EnteredTOTPAction", "EnteredSMSAction",
                "EnteredWhatsAppAction", "EnteredBackupCodeAction"}

Accepted(a) ==
  /\ Running(a)
  /\ \E t \in After(a) \cup {"Success"} :
       /\ loginData' = (loginData \/ t = "Success")
       /\ IF a \in ChecksError /\ lastError
          THEN /\ st' = BackTo[a]
               /\ input' = input \ {Field[BackTo[a]]}
               /\ refused' = refused \ {Field[BackTo[a]]}
          ELSE st' = t /\ UNCHANGED <<input, refused>>
  /\ UNCHANGED <<phase, lastError, displayed, polls, wrong, asked>>

(* When the server refuses it: an error that the code knows, the variable  *)
(* HandleVariableChange watches, or a captcha script that does nothing.    *)
(* Back to the page, without the field.                                    *)
MutRefused(a) ==
  /\ Running(a) /\ wrong < MaxWrong
  /\ wrong' = wrong + 1
  /\ st' = BackTo[a]
  /\ input' = input
  /\ refused' = (refused \cup {Field[BackTo[a]]}) \cap input'
  /\ lastError' = (lastError \/ a # "EnteredCaptchaAction")
  /\ UNCHANGED <<phase, loginData, displayed, polls, asked>>

Refused(a) ==
  /\ Running(a) /\ wrong < MaxWrong
  /\ wrong' = wrong + 1
  /\ st' = BackTo[a]
  /\ input' = input \ {Field[BackTo[a]]}
  /\ refused' = (refused \cup {Field[BackTo[a]]}) \cap input'
  /\ lastError' = (lastError \/ a # "EnteredCaptchaAction")
  /\ UNCHANGED <<phase, loginData, displayed, polls, asked>>

MutRunScript(s) ==
  /\ Running(s) /\ s \in PlainActions \cup {"MFALandingPage", "SMSPage",
       "PossibleMandatoryAFADPage", "WhatsAppPage", "AFADPage"}
  /\ \/ st' \in After(s) /\ UNCHANGED loginData
     \/ s = "PossibleMandatoryAFADPage" /\ st' = "MFALandingAPAction"
          /\ UNCHANGED loginData
     \/ s \in MayLogIn /\ st' = "Success" /\ loginData' = TRUE
  /\ UNCHANGED <<phase, input, lastError, displayed, polls, wrong, refused,
                 asked>>

(* The actions and pages without a form.  An unclear AFAD page without a   *)
(* "try another way" button is taken for a mandatory one.                  *)
RunScript(s) ==
  /\ Running(s) /\ s \in PlainActions \cup {"MFALandingPage", "SMSPage",
       "PossibleMandatoryAFADPage", "WhatsAppPage", "AFADPage"}
  /\ \/ st' \in After(s) /\ UNCHANGED loginData
     \/ s = "PossibleMandatoryAFADPage" /\ st' = "AFADPage"
          /\ UNCHANGED loginData
     \/ s \in MayLogIn /\ st' = "Success" /\ loginData' = TRUE
  /\ UNCHANGED <<phase, input, lastError, displayed, polls, wrong, refused,
                 asked>>

(* The page with the methods: one that was chosen, or the only one there   *)
(* is, else ask.  Methods that are not known are not offered.              *)
KnownMethods == {"Notification on another device", "Authentication app",
                 "Email", "Text message", "Backup code", "WhatsApp"}

ChooseMethod(offered) ==
  /\ Running("ChooseMFAPage")
  /\ LET found == offered \cap KnownMethods
     IN \/ /\ found # {}
           /\ "mfatype" \in input \/ Cardinality(found) = 1
           /\ st' \in After("ChooseMFAPage")
           /\ UNCHANGED <<phase, input, refused, asked>>
        \/ /\ Cardinality(found) > 1 /\ "mfatype" \notin input
           /\ Ask({"mfatype"})
  /\ UNCHANGED <<lastError, loginData, displayed, polls, wrong>>

(* Waiting for another device to approve: the script either goes on to the *)
(* complete action, or the browser waits and loads the page again.  The    *)
(* user is only told the first time.                                       *)
Approved ==
  /\ Running("AFADAction")
  /\ st' \in After("AFADAction")
  /\ UNCHANGED <<phase, input, lastError, loginData, displayed, polls, wrong,
                 refused, asked>>

NotApproved ==
  /\ Running("AFADAction") /\ polls < MaxPolls
  /\ polls' = polls + 1
  /\ st' = "AFADWait"
  /\ phase' = IF displayed THEN phase ELSE "wait"
  /\ displayed' = TRUE
  /\ UNCHANGED <<input, lastError, loginData, wrong, refused, asked>>

PollAgain ==
  /\ Running("AFADWait")
  /\ st' = "AFADPage"
  /\ UNCHANGED <<phase, input, lastError, loginData, displayed, polls, wrong,
                 refused, asked>>

-----------------------------------------------------------------------------
(* The end of DoLoginSteps, and loginWithCookies.                          *)

(* The login data has the cookies, if it can be parsed.                    *)
TakeCookies ==
  /\ Running("Success")
  /\ phase' \in {"page", "failed"}
  /\ UNCHANGED <<browserVars, input, polls, wrong, refused, asked>>

(* LoadMessagesPage and, on Instagram, ExtractFBID.                        *)
LoadPage ==
  /\ phase = "page"
  /\ phase' \in {"store", "failed"}
  /\ UNCHANGED <<browserVars, input, polls, wrong, refused, asked>>

(* NewLogin saves the login; then the client takes over the connection.    *)
NewLogin ==
  /\ phase = "store"
  /\ phase' \in {"connect", "failed"}
  /\ UNCHANGED <<browserVars, input, polls, wrong, refused, asked>>

StartConnection ==
  /\ phase = "connect"
  /\ phase' = "complete"
  /\ UNCHANGED <<browserVars, input, polls, wrong, refused, asked>>

-----------------------------------------------------------------------------
(* The cases of DoLoginStep.                                               *)

Form(p) == ShowForm(p) \/ FillForm(p)
EmailPasswordPage == Form("EmailPasswordPage")
EmailCodePage == Form("EmailCodePage")
BackupCodePage == Form("BackupCodePage")
CaptchaPage == Form("CaptchaPage")
TOTPPage == Form("TOTPPage")
SMSPageAfterSend == Form("SMSPageAfterSend")
WhatsAppPageAfterSend == Form("WhatsAppPageAfterSend")

Submitted(a) == Accepted(a) \/ Refused(a)
EnteredCaptchaAction == Submitted("EnteredCaptchaAction")
EnteredEmailCodeAPAction == Submitted("EnteredEmailCodeAPAction")
EnteredEmailPasswordAction == Submitted("EnteredEmailPasswordAction")
EnteredEmailCodeAction == Submitted("EnteredEmailCodeAction")
EnteredCodeAction == \E a \in ChecksError : Submitted(a)

BrowserStep ==
  \/ FirstRequest \/ StepFails \/ TakeCookies
  \/ EmailPasswordPage \/ EmailCodePage \/ BackupCodePage \/ CaptchaPage
  \/ TOTPPage \/ SMSPageAfterSend \/ WhatsAppPageAfterSend
  \/ EnteredCaptchaAction \/ EnteredEmailCodeAPAction
  \/ EnteredEmailPasswordAction \/ EnteredEmailCodeAction
  \/ EnteredCodeAction
  \/ \E s \in States : RunScript(s)
  \/ \E offered \in SUBSET Methods : ChooseMethod(offered)
  \/ Approved \/ NotApproved \/ PollAgain

CookieStep == LoadPage \/ NewLogin \/ StartConnection

UserStep ==
  \/ \E native \in BOOLEAN : CreateLogin(native)
  \/ \E all \in BOOLEAN : SubmitCookies(all)
  \/ \E fields \in SUBSET Fields : SubmitUserInput(fields)
  \/ Wait

Next == BrowserStep \/ CookieStep \/ UserStep

Spec == Init /\ [][Next]_vars

(* A call runs until it returns; nothing makes the user answer.            *)
FairSpec == Spec /\ WF_vars(BrowserStep) /\ WF_vars(CookieStep)

-----------------------------------------------------------------------------
(* Properties.                                                             *)

(* What the server has refused is never sent to it a second time: the page *)
(* the browser goes back to asks the user again.                           *)
NoResubmit == st \in Entered => Field[BackTo[st]] \notin refused

(* Once the server has handed over the login data, the browser does not go *)
(* back to asking for codes: no error message of an earlier form is left   *)
(* when an action that looks at it runs.                                   *)
AcceptedIsSuccess == loginData => st = "Success"

(* Every call of the login process returns, as long as the other device    *)
(* is approved at some point, or the server starts the second factor anew: *)
(* no other states of the browser send it back and forth without the user. *)
(* (After the landing page an email code of this call may be sent again:   *)
(* only a refusal removes it from the input.)                              *)
CallsReturn ==
  phase = "run" ~> \/ phase \in {"ask", "wait", "complete", "failed"}
                   \/ st = "MFALandingPage"
=============================================================================
