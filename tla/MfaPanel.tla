------------------------------ MODULE MfaPanel ------------------------------
(***************************************************************************)
(* The two Security pages (apps/web/app/(dashboard)/dashboard/security and *)
(* apps/web/app/platform/(protected)/security), which enrol, disable and   *)
(* re-key TOTP, and the recovery-code grid with its copy button            *)
(* (apps/web/components/mfa).  The pages are copies of one another: where  *)
(* they differ, an action says which of them it is about.                  *)
(*                                                                         *)
(* Each handler awaits one call, and nothing keeps two from overlapping    *)
(* but the disabled "Enable 2FA" button: the code input fires again with   *)
(* every later edit of a complete code.  A call is served once, its answer *)
(* may be lost, and answers come back in any order.  The MFA routes are    *)
(* the library's, and external.                                            *)
(*                                                                         *)
(* Secrets and sets of recovery codes are numbered in the order they are   *)
(* minted; a setup mints one of each, under the same number.               *)
(***************************************************************************)
EXTENDS Naturals, FiniteSets

CONSTANTS
  Panels,      \* which of the two pages: "dashboard", "platform"
  MaxCalls     \* bounds the calls a page makes

ASSUME PanelsAssumption == Panels \subseteq {"dashboard", "platform"}

VARIABLES
  panel,       \* the page at hand
  status,      \* the dashboard's session: "loading" or "ready"
  mode,        \* null until it is known, then off, enrolling or on
  setup,       \* the enrolment payload held, 0 for null
  errorCode,   \* whether an error is shown
  busy,        \* the Enable button is disabled
  disableOpen, \* the confirmation dialog
  regenerating,\* the code input of "Regenerate recovery codes"
  newCodes,    \* the regenerated codes held, 0 for null
  copied,      \* the label of the grid's copy button: none, copied or failed
  resetTimer,  \* whether its reset is scheduled
  clipboard,   \* the set last copied from the grid on screen, 0 before
  writes,      \* the set a clipboard write in flight holds, 0 without one
  calls,       \* the calls not answered yet
  sent,        \* calls so far
  factor,      \* the server's record: enabled, the secret, the codes in force
  minted,      \* sets minted so far
  uncertain,   \* an answer was lost, /me could not be read, or an enrolment
               \* was cancelled while its code was being checked
  overlapped   \* two code-bearing calls were in flight together

pageVars   == <<mode, setup, errorCode, busy, disableOpen, regenerating, newCodes>>
gridVars   == <<copied, resetTimer, clipboard, writes>>
serverVars == <<factor, minted>>
panelVars  == <<panel, status, pageVars, gridVars, calls, sent, serverVars, uncertain, overlapped>>

-----------------------------------------------------------------------------
(* What the page offers in its mode; the confirmation dialog is modal, and *)
(* a dashboard whose session loads is a skeleton.                          *)
Offers ==
  IF status = "loading" THEN {}
  ELSE CASE mode = "off" /\ ~busy           -> {"enable"}
         [] mode = "enrolling" /\ setup # 0 -> {"code", "cancel"}
         [] mode = "on" ->
              IF disableOpen THEN {"dialog", "disableCode"}
              ELSE {"dialog", "toggle"} \cup (IF regenerating THEN {"regenerateCode"} ELSE {})
         [] OTHER -> {}

(* The set of recovery codes the page shows in a grid, 0 for none.         *)
ShownCodes ==
  IF status = "loading" THEN 0
  ELSE CASE mode = "enrolling" -> setup
         [] mode = "on"        -> newCodes
         [] OTHER              -> 0

(* A grid keeps its state while it stays on screen, whatever codes it is   *)
(* handed, and loses it with the screen: unmounting clears the timer.      *)
GridFollows ==
  LET remounted == ShownCodes' = 0 \/ ShownCodes = 0 \/ mode' # mode
  IN  /\ copied' = IF remounted THEN "none" ELSE copied
      /\ resetTimer' = (resetTimer /\ ~remounted)
      /\ clipboard' = IF remounted THEN 0 ELSE clipboard
      /\ writes' = IF remounted THEN 0 ELSE writes

-----------------------------------------------------------------------------
(* The calls.  A code-bearing call names the secret its code was computed  *)
(* from: the one shown while enrolling, else the one in the authenticator, *)
(* which is the account's; 0 is a wrong code.                              *)
CodeKinds == {"verify", "disable", "regenerate"}

Send(kind, code) ==
  /\ sent < MaxCalls
  /\ sent' = sent + 1
  /\ calls' = calls \cup {[id |-> sent + 1, kind |-> kind, code |-> code, state |-> "sent", value |-> 0]}
  /\ overlapped' = (overlapped \/ (kind \in CodeKinds /\ \E c \in calls : c.kind \in CodeKinds))
  /\ UNCHANGED <<panel, status, serverVars, uncertain>>

Serve(c, ok, value, record) ==
  /\ calls' = (calls \ {c}) \cup
       {[c EXCEPT !.state = IF ok THEN "ok" ELSE "refused", !.value = value]}
  /\ factor' = record
  /\ UNCHANGED <<panel, status, pageVars, gridVars, sent, uncertain, overlapped>>

(* Any route may refuse: a used code, a limit, an expired session.         *)
Refused(c) == c.state = "sent" /\ Serve(c, FALSE, 0, factor) /\ UNCHANGED minted

(* /me: whether MFA is on.                                                 *)
ServeMe(c) ==
  /\ c.kind \in {"me", "refresh"} /\ c.state = "sent"
  /\ Serve(c, TRUE, IF factor.enabled THEN 1 ELSE 0, factor)
  /\ UNCHANGED minted

(* mfa/setup: a pending enrolment, fresh or the one there is.              *)
ServeSetup(c) ==
  /\ c.kind = "setup" /\ c.state = "sent" /\ ~factor.enabled
  /\ \/ /\ minted' = minted + 1
        /\ Serve(c, TRUE, minted + 1, [factor EXCEPT !.secret = minted + 1])
     \/ /\ factor.secret # 0
        /\ UNCHANGED minted
        /\ Serve(c, TRUE, factor.secret, factor)

(* mfa/verify-enable: a code of the pending secret puts it in force.       *)
ServeVerify(c) ==
  /\ c.kind = "verify" /\ c.state = "sent" /\ ~factor.enabled
  /\ c.code # 0 /\ c.code = factor.secret
  /\ Serve(c, TRUE, 0, [enabled |-> TRUE, secret |-> c.code, codes |-> c.code])
  /\ UNCHANGED minted

(* mfa/disable and mfa/recovery-codes: gated by a code of the secret.      *)
ServeDisable(c) ==
  /\ c.kind = "disable" /\ c.state = "sent" /\ factor.enabled
  /\ c.code # 0 /\ c.code = factor.secret
  /\ Serve(c, TRUE, 0, [enabled |-> FALSE, secret |-> 0, codes |-> 0])
  /\ UNCHANGED minted

ServeRegenerate(c) ==
  /\ c.kind = "regenerate" /\ c.state = "sent" /\ factor.enabled
  /\ c.code # 0 /\ c.code = factor.secret
  /\ minted' = minted + 1
  /\ Serve(c, TRUE, minted + 1, [factor EXCEPT !.codes = minted + 1])

(* The answer to a call that was carried out is lost on the way.           *)
Lose(c) ==
  /\ c.state = "ok" /\ c.kind \notin {"me", "refresh"}
  /\ calls' = (calls \ {c}) \cup {[c EXCEPT !.state = "refused", !.value = 0]}
  /\ uncertain' = TRUE
  /\ UNCHANGED <<panel, status, pageVars, gridVars, sent, serverVars, overlapped>>

(* A call resolves or rejects.                                             *)
Answered(c, kind, state) ==
  /\ c.kind = kind /\ c.state = state
  /\ calls' = calls \ {c}
  /\ UNCHANGED <<panel, status, sent, serverVars, overlapped>>

(* The dashboard page then awaits a refresh() of its session.              *)
AnsweredThenRefresh(c, kind) ==
  /\ c.kind = kind /\ c.state = "ok"
  /\ calls' = (calls \ {c}) \cup
       (IF panel = "dashboard" THEN {[c EXCEPT !.kind = "refresh", !.code = 0, !.state = "sent"]}
                               ELSE {})
  /\ UNCHANGED <<panel, status, sent, serverVars, overlapped>>

-----------------------------------------------------------------------------
(* The session provider is external: whenever it reads the session it may  *)
(* say so, and a later one, for whomever, at any time.                     *)
SessionStatus ==
  /\ panel = "dashboard"
  /\ status' = IF status = "loading" THEN "ready" ELSE "loading"
  /\ UNCHANGED <<panel, pageVars, calls, sent, serverVars, uncertain, overlapped>>
  /\ GridFollows

(* The page learns the mode once.                                          *)
ReadMe ==
  /\ mode = "null"
  /\ \A c \in calls : c.kind # "me"
  /\ Send("me", 0)
  /\ UNCHANGED <<pageVars, gridVars>>

(* The dashboard page derives it from the session's user; without a user   *)
(* it stays on its skeleton, and the session may be read again.            *)
DeriveFromSession(c) ==
  /\ panel = "dashboard"
  /\ \/ /\ Answered(c, "me", "ok")
        /\ mode' = IF c.value = 1 THEN "on" ELSE "off"
     \/ /\ Answered(c, "me", "refused")
        /\ mode' = mode
  /\ UNCHANGED <<setup, errorCode, busy, disableOpen, regenerating, newCodes, gridVars, uncertain>>

(* The platform page falls back to off when getMe fails.                   *)
DeriveFromMe(c) ==
  /\ panel = "platform"
  /\ \/ /\ Answered(c, "me", "ok")
        /\ mode' = IF c.value = 1 THEN "on" ELSE "off"
        /\ UNCHANGED <<errorCode, uncertain>>
     \/ /\ Answered(c, "me", "refused")
        /\ mode' = "off"
        /\ errorCode' = TRUE
        /\ uncertain' = TRUE
  /\ UNCHANGED <<setup, busy, disableOpen, regenerating, newCodes, gridVars>>

-----------------------------------------------------------------------------
(* A variant: the button is not disabled while a setup runs.               *)
BeginEnrollUnguarded ==
  /\ mode = "off"
  /\ Send("setup", 0)
  /\ errorCode' = FALSE
  /\ UNCHANGED <<mode, setup, busy, disableOpen, regenerating, newCodes, gridVars>>

(* beginEnroll.                                                            *)
BeginEnroll ==
  /\ "enable" \in Offers
  /\ Send("setup", 0)
  /\ busy' = TRUE
  /\ errorCode' = FALSE
  /\ UNCHANGED <<mode, setup, disableOpen, regenerating, newCodes, gridVars>>

SetupAnswered(c) ==
  /\ \/ /\ Answered(c, "setup", "ok")
        /\ setup' = c.value
        /\ mode' = "enrolling"
        /\ UNCHANGED errorCode
     \/ /\ Answered(c, "setup", "refused")
        /\ errorCode' = TRUE
        /\ UNCHANGED <<setup, mode>>
  /\ busy' = FALSE
  /\ UNCHANGED <<disableOpen, regenerating, newCodes, uncertain>>
  /\ GridFollows

Verifying == \E c \in calls : c.kind = "verify"

(* The dashboard page's Cancel only turns the panel off.                   *)
Cancel ==
  /\ panel = "dashboard" /\ "cancel" \in Offers
  /\ mode' = "off"
  /\ uncertain' = (uncertain \/ Verifying)
  /\ UNCHANGED <<panel, status, setup, errorCode, busy, disableOpen, regenerating, newCodes, calls, sent,
                 serverVars, overlapped>>
  /\ GridFollows

(* A variant: the payload is forgotten and the panel left enrolling.       *)
CancelHalfway ==
  /\ panel = "platform" /\ "cancel" \in Offers
  /\ setup' = 0
  /\ errorCode' = FALSE
  /\ UNCHANGED <<panel, status, mode, busy, disableOpen, regenerating, newCodes, calls, sent, serverVars,
                 uncertain, overlapped>>
  /\ GridFollows

(* The platform page's also forgets the payload and the error.             *)
CancelAndForget ==
  /\ panel = "platform" /\ "cancel" \in Offers
  /\ mode' = "off"
  /\ setup' = 0
  /\ errorCode' = FALSE
  /\ uncertain' = (uncertain \/ Verifying)
  /\ UNCHANGED <<panel, status, busy, disableOpen, regenerating, newCodes, calls, sent, serverVars,
                 overlapped>>
  /\ GridFollows

VerifyEnable(code) ==
  /\ "code" \in Offers
  /\ Send("verify", code)
  /\ errorCode' = FALSE
  /\ UNCHANGED <<mode, setup, busy, disableOpen, regenerating, newCodes, gridVars>>

VerifyAnswered(c) ==
  /\ \/ /\ AnsweredThenRefresh(c, "verify")
        /\ setup' = 0
        /\ mode' = "on"
        /\ UNCHANGED errorCode
     \/ /\ Answered(c, "verify", "refused")
        /\ errorCode' = TRUE
        /\ UNCHANGED <<setup, mode>>
  /\ UNCHANGED <<busy, disableOpen, regenerating, newCodes, uncertain>>
  /\ GridFollows

(* A refresh that fails shows its error over a mode already changed.       *)
RefreshAnswered(c) ==
  /\ \/ Answered(c, "refresh", "ok") /\ UNCHANGED errorCode
     \/ Answered(c, "refresh", "refused") /\ errorCode' = TRUE
  /\ UNCHANGED <<mode, setup, busy, disableOpen, regenerating, newCodes, gridVars, uncertain>>

-----------------------------------------------------------------------------
OpenDialog(open) ==
  /\ "dialog" \in Offers
  /\ disableOpen' = open
  /\ UNCHANGED <<panel, status, mode, setup, errorCode, busy, regenerating, newCodes, gridVars, calls, sent,
                 serverVars, uncertain, overlapped>>

Disable(code) ==
  /\ "disableCode" \in Offers
  /\ Send("disable", code)
  /\ errorCode' = FALSE
  /\ UNCHANGED <<mode, setup, busy, disableOpen, regenerating, newCodes, gridVars>>

(* A variant: the codes on screen outlive the factor they belong to.       *)
DisableAnsweredKeepingCodes(c) ==
  /\ \/ /\ AnsweredThenRefresh(c, "disable")
        /\ disableOpen' = FALSE
        /\ mode' = "off"
        /\ UNCHANGED errorCode
     \/ /\ Answered(c, "disable", "refused")
        /\ errorCode' = TRUE
        /\ UNCHANGED <<disableOpen, mode>>
  /\ UNCHANGED <<setup, busy, regenerating, newCodes, uncertain>>
  /\ GridFollows

DisableAnswered(c) ==
  /\ \/ /\ AnsweredThenRefresh(c, "disable")
        /\ disableOpen' = FALSE
        /\ newCodes' = 0
        /\ mode' = "off"
        /\ UNCHANGED errorCode
     \/ /\ Answered(c, "disable", "refused")
        /\ errorCode' = TRUE
        /\ UNCHANGED <<disableOpen, newCodes, mode>>
  /\ UNCHANGED <<setup, busy, regenerating, uncertain>>
  /\ GridFollows

(* The toggle forgets the codes on screen.                                 *)
ToggleRegenerate ==
  /\ "toggle" \in Offers
  /\ newCodes' = 0
  /\ regenerating' = ~regenerating
  /\ UNCHANGED <<panel, status, mode, setup, errorCode, busy, disableOpen, calls, sent, serverVars,
                 uncertain, overlapped>>
  /\ GridFollows

Regenerate(code) ==
  /\ "regenerateCode" \in Offers
  /\ Send("regenerate", code)
  /\ errorCode' = FALSE
  /\ UNCHANGED <<mode, setup, busy, disableOpen, regenerating, newCodes, gridVars>>

RegenerateAnswered(c) ==
  /\ \/ /\ Answered(c, "regenerate", "ok")
        /\ newCodes' = c.value
        /\ regenerating' = FALSE
        /\ UNCHANGED errorCode
     \/ /\ Answered(c, "regenerate", "refused")
        /\ errorCode' = TRUE
        /\ UNCHANGED <<newCodes, regenerating>>
  /\ UNCHANGED <<mode, setup, busy, disableOpen, uncertain>>
  /\ GridFollows

-----------------------------------------------------------------------------
(* The grid's copy button.                                                 *)
otherVars == <<panel, status, pageVars, calls, sent, serverVars, uncertain, overlapped>>

Copy ==
  /\ ShownCodes # 0 /\ writes = 0
  /\ writes' = ShownCodes
  /\ UNCHANGED <<copied, resetTimer, clipboard, otherVars>>

(* The write resolves or is denied, and either way the label is reset      *)
(* later, by a timer that replaces the one before.                         *)
CopyAnswered(ok) ==
  /\ writes # 0
  /\ writes' = 0
  /\ copied' = IF copied = "copied" \/ ok THEN "copied" ELSE "failed"
  /\ clipboard' = IF ok THEN writes ELSE clipboard
  /\ resetTimer' = TRUE
  /\ UNCHANGED otherVars

ScheduledReset ==
  /\ resetTimer
  /\ copied' = "none"
  /\ resetTimer' = FALSE
  /\ UNCHANGED <<clipboard, writes, otherVars>>

-----------------------------------------------------------------------------
PanelInit ==
  /\ panel \in Panels
  /\ status = IF panel = "dashboard" THEN "loading" ELSE "ready"
  /\ mode = "null" /\ setup = 0 /\ errorCode = FALSE /\ busy = FALSE
  /\ disableOpen = FALSE /\ regenerating = FALSE /\ newCodes = 0
  /\ copied = "none" /\ resetTimer = FALSE /\ clipboard = 0 /\ writes = 0
  /\ calls = {} /\ sent = 0
  /\ factor \in {[enabled |-> FALSE, secret |-> 0, codes |-> 0],
                  [enabled |-> TRUE, secret |-> 1, codes |-> 1]}
  /\ minted = 1
  /\ uncertain = FALSE /\ overlapped = FALSE

User ==
  \/ ReadMe \/ BeginEnroll \/ Cancel \/ CancelAndForget \/ ToggleRegenerate
  \/ \E open \in BOOLEAN : OpenDialog(open)
  \/ \E code \in {0, setup} : VerifyEnable(code)
  \/ \E code \in {0, factor.secret} : Disable(code) \/ Regenerate(code)
  \/ Copy

Server ==
  \E c \in calls :
    \/ Refused(c) \/ ServeMe(c) \/ ServeSetup(c) \/ ServeVerify(c) \/ ServeDisable(c)
    \/ ServeRegenerate(c) \/ Lose(c)

Page ==
  \/ SessionStatus
  \/ \E c \in calls :
       \/ DeriveFromSession(c) \/ DeriveFromMe(c) \/ SetupAnswered(c) \/ VerifyAnswered(c)
       \/ DisableAnswered(c) \/ RegenerateAnswered(c) \/ RefreshAnswered(c)
  \/ \E ok \in BOOLEAN : CopyAnswered(ok)
  \/ ScheduledReset

PanelNext == User \/ Server \/ Page

PanelSpec == PanelInit /\ [][PanelNext]_panelVars
-----------------------------------------------------------------------------
CallType ==
  [id : Nat, kind : {"me", "refresh", "setup"} \cup CodeKinds, code : Nat,
   state : {"sent", "ok", "refused"}, value : Nat]

(* Every variable keeps its type, and the Enable button is disabled just   *)
(* while a setup is awaited.                                               *)
PanelTypeOK ==
  /\ busy <=> \E c \in calls : c.kind = "setup"
  /\ panel \in Panels /\ status \in {"loading", "ready"}
  /\ mode \in {"null", "off", "enrolling", "on"}
  /\ setup \in Nat /\ newCodes \in Nat
  /\ errorCode \in BOOLEAN /\ busy \in BOOLEAN
  /\ disableOpen \in BOOLEAN /\ regenerating \in BOOLEAN
  /\ copied \in {"none", "copied", "failed"} /\ resetTimer \in BOOLEAN
  /\ clipboard \in Nat /\ writes \in Nat
  /\ calls \in SUBSET CallType /\ sent \in Nat
  /\ factor \in [enabled : BOOLEAN, secret : Nat, codes : Nat] /\ minted \in Nat
  /\ uncertain \in BOOLEAN /\ overlapped \in BOOLEAN

(* The secret on the enrolment card is the one whose code the server is    *)
(* waiting for, so a code of what was scanned can complete the enrolment.  *)
EnrolsPendingSecret ==
  (mode = "enrolling" /\ ~factor.enabled /\ ~uncertain) => setup = factor.secret

(* The recovery codes the user is told to save are in force, unless two    *)
(* code-bearing calls overlapped or an answer was lost.                    *)
SavedCodesAreInForce ==
  (calls = {} /\ mode = "on" /\ newCodes # 0 /\ ~overlapped /\ ~uncertain) =>
    newCodes = factor.codes

(* The page is without a control only while a setup is on its way or its   *)
(* session loads.                                                          *)
PanelIsNeverStuck ==
  (mode # "null" /\ status # "loading" /\ Offers = {}) => \E c \in calls : c.kind = "setup"

(* A factor goes on or off only under a page that shows it: a cancelled    *)
(* enrolment is not completed later, what goes in force is the secret on   *)
(* the card, and a disable that was sent before the mode changed does      *)
(* nothing.                                                                *)
FactorFollowsPage ==
  [][(~uncertain /\ factor'.enabled # factor.enabled) =>
       IF factor.enabled THEN mode = "on" ELSE mode = "enrolling" /\ factor'.secret = setup]_panelVars

-----------------------------------------------------------------------------
(* The invariant behind the properties.  None of it is about the order in  *)
(* which the calls were sent.                                              *)

(* The page asks for its mode before anything else, and what it is told of *)
(* the factor is still so when it is told.                                 *)
ModeInv ==
  \A c \in calls :
    /\ c.kind = "me" <=> mode = "null"
    /\ (c.kind = "me" /\ c.state = "ok") => (c.value = 1 <=> factor.enabled)
    /\ \A d \in calls : (c.kind = d.kind /\ c.kind \in {"me", "setup"}) => c = d

(* Whatever names a secret names one that was minted.                      *)
MintInv ==
  /\ minted # 0 /\ setup <= minted /\ factor.secret <= minted
  /\ \A c \in calls : c.code <= minted
  /\ \A c \in calls : (c.kind = "setup" /\ c.state = "ok") => c.value \in 1..minted
  /\ mode = "enrolling" => setup # 0

(* A code that would change the factor now.                                *)
Fits(c) == c.state = "sent" /\ c.code # 0 /\ c.code = factor.secret

(* How far each handler's call may be from the mode the page is in.        *)
CallFollowsMode(c) ==
  /\ c.kind = "setup" => mode = "off"
  /\ (c.kind = "setup" /\ c.state = "ok") => c.value = factor.secret
  /\ (c.kind = "verify" /\ Fits(c)) => mode # "off"
  /\ (c.kind = "verify" /\ c.state = "ok") => mode = "enrolling" /\ factor.enabled
  /\ (c.kind = "disable" /\ Fits(c)) => mode = "on"
  /\ (c.kind = "disable" /\ c.state = "ok") =>
       mode = "on" /\ ~factor.enabled /\ factor.secret = 0

EnrolInv ==
  ~uncertain =>
    /\ \A c \in calls : CallFollowsMode(c)
    /\ \A c, d \in calls :
         (c.kind = d.kind /\ c.state = "ok" /\ d.state = "ok" /\ c.kind \in {"verify", "disable"})
           => c = d
    /\ mode = "enrolling" => setup = factor.secret
    /\ mode = "on" => factor.enabled \/ factor.secret = 0

(* The codes on screen are in force, or an answer that replaces them or    *)
(* takes them off is on its way.                                           *)
RekeyInv ==
  ~overlapped =>
    /\ \A c, d \in calls : (c.kind \in CodeKinds /\ d.kind \in CodeKinds) => c = d
    /\ ~uncertain =>
         /\ \A c \in calls : c.kind = "regenerate" => mode = "on"
         /\ \A c \in calls : (c.kind = "regenerate" /\ c.state = "ok") => c.value = factor.codes
         /\ mode # "on" => newCodes = 0
         /\ (newCodes # 0 /\ newCodes # factor.codes) =>
              \E c \in calls : c.kind \in {"disable", "regenerate"} /\ c.state = "ok"

PanelInv == PanelTypeOK /\ ModeInv /\ MintInv /\ EnrolInv /\ RekeyInv

=============================================================================
