------------------------------ MODULE AuthPages ------------------------------
(***************************************************************************)
(* The public pages of one browser tab (apps/web/app/(public)/auth): sign  *)
(* in, register, the MFA challenge, the two screens that ask for a reset   *)
(* code, the reset itself, e-mail verification and invitations.            *)
(*                                                                         *)
(* A page hands a proof to the next one through a slot of a module         *)
(* (mfa-challenge-store.ts, reset-flow-store.ts) that is cleared when it   *)
(* is read.  The code that awaits an answer is not cancelled when its page *)
(* goes away: it still fills a slot and still navigates.  The engine's     *)
(* routes are external; only their outcome matters here.                   *)
(***************************************************************************)
EXTENDS Naturals, FiniteSets

CONSTANTS
  Emails,      \* the accounts' addresses
  NoEmail,     \* the empty field
  MaxCalls,    \* the requests of the tab (bounds them)
  MaxMounts    \* the pages it shows, one after the other (bounds them)

ASSUME NoEmailAssumption == NoEmail \notin Emails
ASSUME MaxCallsAssumption == MaxCalls \in Nat
ASSUME MaxMountsAssumption == MaxMounts \in Nat \ {0}

(* Requests are numbered in the order in which they are made, and so are   *)
(* the mounted pages.  A proof, or a session, has the number of the        *)
(* request that got it.                                                    *)
Calls == 1 .. MaxCalls

Mounts == 1 .. MaxMounts

NoToken == 0

Tokens == Calls \cup {NoToken}

Pages == {"login", "register", "mfa-challenge", "forgot-password", "reset-password",
          "verify-email", "accept-invitation", "dashboard"}

Ops == {"login", "register", "challenge", "me", "forgot", "verifyOtp", "reset",
        "verifyEmail", "resend", "accept"}

VARIABLES
  page,        \* the page that is shown
  mount,       \* its number
  going,       \* where the router is taking the tab, or nowhere
  slot,        \* pendingMfaTempToken and pendingVerifiedToken
  held,        \* the page's own proof: tempToken or verifiedToken
  step,        \* the screen of the forgot-password page: email or otp
  email,       \* its e-mail field
  busy,        \* isSubmitting, isVerifyingRef and resendDisabledRef of the page
  cooling,     \* the timer that ends the resend cooldown runs
  expired,     \* the challenge's pill reached zero
  signedIn,    \* the session the cookies are for
  op,          \* what a call is
  phase,       \* idle, sent, ok, token, refused, lost or done
  from,        \* the mount it was made by
  who,         \* the e-mail it was made for
  gave,        \* what its answer brought: nothing, a session or a token
  taken,       \* which mount took which proof from a slot
  abandoned    \* a page was left with a request out

tabVars  == <<page, mount, going, slot, held, step, email, busy, cooling, expired, taken>>
callVars == <<op, phase, from, who, gave>>
vars     == <<tabVars, callVars, signedIn, abandoned>>

-----------------------------------------------------------------------------
Out(c) == phase[c] \notin {"idle", "done"}

Ours(c) == from[c] = mount

(* What keeps a second request of the kind from being made.                *)
Guard(what) ==
  CASE what \in {"challenge", "me", "verifyOtp", "verifyEmail"} -> "verifying"
    [] what = "resend"                                          -> "resending"
    [] OTHER                                                    -> "submitting"

(* A variant: the button is not disabled.                                  *)
SubmitUnguarded(c, what, e) ==
  /\ phase[c] = "idle"
  /\ \A b \in 1 .. c - 1 : phase[b] # "idle"
  /\ op' = [op EXCEPT ![c] = what]
  /\ phase' = [phase EXCEPT ![c] = "sent"]
  /\ from' = [from EXCEPT ![c] = mount]
  /\ who' = [who EXCEPT ![c] = e]
  /\ busy' = busy \cup {Guard(what)}
  /\ UNCHANGED gave

(* A handler up to its await: the guard is taken and the request leaves.   *)
Submit(c, what, e) ==
  /\ Guard(what) \notin busy
  /\ phase[c] = "idle"
  /\ \A b \in 1 .. c - 1 : phase[b] # "idle"
  /\ op' = [op EXCEPT ![c] = what]
  /\ phase' = [phase EXCEPT ![c] = "sent"]
  /\ from' = [from EXCEPT ![c] = mount]
  /\ who' = [who EXCEPT ![c] = e]
  /\ busy' = busy \cup {Guard(what)}
  /\ UNCHANGED gave

Stay == UNCHANGED <<page, mount, going, slot, held, step, email, cooling, expired, taken,
                    signedIn, abandoned>>

Login(c, e) == page = "login" /\ Submit(c, "login", e) /\ Stay

Register(c, e) == page = "register" /\ Submit(c, "register", e) /\ Stay

(* submit: the early return is for an expired code or no token.            *)
Challenge(c) ==
  /\ page = "mfa-challenge"
  /\ held # NoToken
  /\ ~expired
  /\ Submit(c, "challenge", who[held])
  /\ Stay

(* onEmailSubmit: the form does not validate, so the field may be empty.   *)
Forgot(c) ==
  /\ page = "forgot-password"
  /\ step = "email"
  /\ Submit(c, "forgot", email)
  /\ Stay

(* onOtpComplete *)
VerifyOtp(c) ==
  /\ page = "forgot-password"
  /\ step = "otp"
  /\ Submit(c, "verifyOtp", email)
  /\ Stay

(* onSubmit, with an e-mail that is typed again.                           *)
Reset(c, e) ==
  /\ page = "reset-password"
  /\ held # NoToken
  /\ Submit(c, "reset", e)
  /\ Stay

(* verify and resend make no request without an e-mail in the session.     *)
VerifyEmail(c) ==
  /\ page = "verify-email"
  /\ signedIn # NoToken
  /\ Submit(c, "verifyEmail", who[signedIn])
  /\ Stay

Resend(c) ==
  /\ page = "verify-email"
  /\ signedIn # NoToken
  /\ Submit(c, "resend", who[signedIn])
  /\ Stay

Accept(c, e) == page = "accept-invitation" /\ Submit(c, "accept", e) /\ Stay

-----------------------------------------------------------------------------
(* The network and the engine.                                             *)

SignsIn(what) == what \in {"login", "register", "challenge", "accept"}

(* The answer's cookies are stored when it arrives.                        *)
Accepted(c) ==
  /\ phase[c] = "sent"
  /\ op[c] # "verifyOtp"
  /\ phase' = [phase EXCEPT ![c] = "ok"]
  /\ signedIn' = IF SignsIn(op[c]) THEN c ELSE signedIn
  /\ gave' = [gave EXCEPT ![c] = IF SignsIn(op[c]) THEN "session" ELSE gave[c]]
  /\ UNCHANGED <<tabVars, op, from, who, abandoned>>

(* A login that needs a second factor, or a code that is right.            *)
Proved(c) ==
  /\ phase[c] = "sent"
  /\ op[c] \in {"login", "verifyOtp"}
  /\ phase' = [phase EXCEPT ![c] = "token"]
  /\ gave' = [gave EXCEPT ![c] = "token"]
  /\ UNCHANGED <<tabVars, op, from, who, signedIn, abandoned>>

(* A status other than 2xx, or no answer at all.                           *)
Rejected(c) ==
  /\ phase[c] = "sent"
  /\ phase' \in {[phase EXCEPT ![c] = "refused"], [phase EXCEPT ![c] = "lost"]}
  /\ UNCHANGED <<tabVars, op, from, who, gave, signedIn, abandoned>>

-----------------------------------------------------------------------------
(* Past the awaits.                                                        *)

(* finally: the guard is the page's own, so that of a page that is gone    *)
(* frees nothing.                                                          *)
Finish(c) ==
  /\ phase' = [phase EXCEPT ![c] = "done"]
  /\ busy' = IF Ours(c) THEN busy \ {Guard(op[c])} ELSE busy
  /\ UNCHANGED <<op, from, who, gave, page, mount, held, email, cooling, expired, taken,
                 signedIn, abandoned>>

(* router.push or router.replace, also from a page that is gone.           *)
Push(c, p) ==
  /\ going' = p
  /\ Finish(c)
  /\ UNCHANGED step

LoginDone(c) ==
  /\ op[c] = "login"
  /\ phase[c] = "ok"
  /\ Push(c, "dashboard")
  /\ UNCHANGED slot

(* setPendingMfaChallenge, and on to the challenge.                        *)
LoginChallenged(c) ==
  /\ op[c] = "login"
  /\ phase[c] = "token"
  /\ slot' = [slot EXCEPT !["mfa"] = c]
  /\ Push(c, "mfa-challenge")

RegisterDone(c) ==
  /\ op[c] = "register"
  /\ phase[c] = "ok"
  /\ Push(c, "verify-email")
  /\ UNCHANGED slot

(* The challenge was passed: refresh() before the dashboard, guard kept.   *)
ChallengePassed(c) ==
  /\ op[c] = "challenge"
  /\ phase[c] = "ok"
  /\ op' = [op EXCEPT ![c] = "me"]
  /\ phase' = [phase EXCEPT ![c] = "sent"]
  /\ UNCHANGED <<tabVars, from, who, gave, signedIn, abandoned>>

Refreshed(c) ==
  /\ op[c] = "me"
  /\ phase[c] = "ok"
  /\ Push(c, "dashboard")
  /\ UNCHANGED slot

(* A variant: the step is set without asking whose it is.                  *)
ForgotDoneAnywhere(c) ==
  /\ op[c] = "forgot"
  /\ phase[c] \in {"ok", "refused"}
  /\ step' = "otp"
  /\ Finish(c)
  /\ UNCHANGED <<going, slot>>

(* The wizard goes on whether the account exists or not.                   *)
ForgotDone(c) ==
  /\ op[c] = "forgot"
  /\ phase[c] \in {"ok", "refused"}
  /\ step' = IF Ours(c) THEN "otp" ELSE step
  /\ Finish(c)
  /\ UNCHANGED <<going, slot>>

(* setResetVerifiedToken, and on to the new password.                      *)
OtpVerified(c) ==
  /\ op[c] = "verifyOtp"
  /\ phase[c] = "token"
  /\ slot' = [slot EXCEPT !["reset"] = c]
  /\ Push(c, "reset-password")

ResetDone(c) ==
  /\ op[c] = "reset"
  /\ phase[c] = "ok"
  /\ Push(c, "login")
  /\ UNCHANGED slot

(* authFetch resolves with whatever status came, and nobody looks at it.   *)
VerifyEmailDone(c) ==
  /\ op[c] = "verifyEmail"
  /\ phase[c] \in {"ok", "refused"}
  /\ Push(c, "dashboard")
  /\ UNCHANGED slot

AcceptDone(c) ==
  /\ op[c] = "accept"
  /\ phase[c] \in {"ok", "refused"}
  /\ Push(c, "dashboard")
  /\ UNCHANGED slot

(* resend: whatever came, the guard is kept until the timer goes off.      *)
ResendDone(c) ==
  /\ op[c] = "resend"
  /\ phase[c] \in {"ok", "refused", "lost"}
  /\ phase' = [phase EXCEPT ![c] = "done"]
  /\ cooling' = (cooling \/ Ours(c))
  /\ UNCHANGED <<op, from, who, gave, page, mount, going, slot, held, step, email, busy,
                 expired, taken, signedIn, abandoned>>

(* The timer of a page that is gone was cleared, or frees nothing.         *)
Cooldown ==
  /\ cooling
  /\ cooling' = FALSE
  /\ busy' = busy \ {"resending"}
  /\ UNCHANGED <<callVars, page, mount, going, slot, held, step, email, expired, taken,
                 signedIn, abandoned>>

(* A variant: the guard is not cleared on the early return.                *)
FailedKeepingGuard(c) ==
  /\ \/ phase[c] = "lost" /\ op[c] # "resend"
     \/ phase[c] = "refused" /\ op[c] \in {"login", "register", "challenge", "me", "verifyOtp", "reset"}
  /\ phase' = [phase EXCEPT ![c] = "done"]
  /\ UNCHANGED <<tabVars, op, from, who, gave, signedIn, abandoned>>

(* The catch of the handler, or an answer without a proof: an error shows. *)
Failed(c) ==
  /\ \/ phase[c] = "lost" /\ op[c] # "resend"
     \/ phase[c] = "refused" /\ op[c] \in {"login", "register", "challenge", "me", "verifyOtp", "reset"}
  /\ Finish(c)
  /\ UNCHANGED <<going, slot, step>>

-----------------------------------------------------------------------------
(* Moving about.                                                           *)

(* The slot a page reads in its first render.                              *)
SlotOf(p) == IF p = "mfa-challenge" THEN "mfa" ELSE "reset"

ReadsSlot(p) == p \in {"mfa-challenge", "reset-password"}

(* A page's state starts afresh; what it does not read stays pending.      *)
Fresh(p) ==
  /\ page' = p
  /\ mount' = mount + 1
  /\ going' = "nowhere"
  /\ step' = "email"
  /\ email' = NoEmail
  /\ busy' = {}
  /\ cooling' = FALSE
  /\ expired' = FALSE

(* A variant: the slot is read but not cleared.                            *)
ShowKeeping(p) ==
  /\ Fresh(p)
  /\ held' = IF ReadsSlot(p) THEN slot[SlotOf(p)] ELSE NoToken
  /\ taken' = IF held' = NoToken THEN taken ELSE taken \cup {<<mount', held'>>}
  /\ UNCHANGED slot

(* consumePendingMfaChallenge and consumeResetVerifiedToken.               *)
Show(p) ==
  /\ Fresh(p)
  /\ held' = IF ReadsSlot(p) THEN slot[SlotOf(p)] ELSE NoToken
  /\ taken' = IF held' = NoToken THEN taken ELSE taken \cup {<<mount', held'>>}
  /\ slot' = IF ReadsSlot(p) THEN [slot EXCEPT ![SlotOf(p)] = NoToken] ELSE slot

(* A page with requests out is left.                                       *)
Leave == abandoned' = (abandoned \/ \E c \in Calls : Out(c) /\ Ours(c))

NoMove == UNCHANGED <<callVars, page, mount, slot, held, step, email, busy, cooling, expired,
                      taken, signedIn, abandoned>>

(* The router gets where the code took it.                                 *)
Arrive ==
  /\ going \in Pages \ {page}
  /\ mount < MaxMounts
  /\ Show(going)
  /\ Leave
  /\ UNCHANGED <<callVars, signedIn>>

(* A link, Back or Forward, with its arrival: it replaces a move that was  *)
(* under way.                                                              *)
Follow(p) ==
  /\ p # page
  /\ mount < MaxMounts
  /\ Show(p)
  /\ Leave
  /\ UNCHANGED <<callVars, signedIn>>

(* The move is dropped for a link to the page that is shown, or was to it: *)
(* that page is not mounted again.                                         *)
StayHere ==
  /\ going # "nowhere"
  /\ going' = "nowhere"
  /\ NoMove

(* A full load: the modules' slots are empty and no code awaits any more.  *)
Reload(p) ==
  /\ mount < MaxMounts
  /\ Fresh(p)
  /\ held' = NoToken
  /\ slot' = [s \in {"mfa", "reset"} |-> NoToken]
  /\ phase' = [c \in Calls |-> IF Out(c) THEN "done" ELSE phase[c]]
  /\ UNCHANGED <<op, from, who, gave, taken, signedIn, abandoned>>

(* Typing: the field is not disabled while the request is out.             *)
EditEmail(e) ==
  /\ page = "forgot-password"
  /\ step = "email"
  /\ email' = e
  /\ UNCHANGED <<callVars, page, mount, going, slot, held, step, busy, cooling, expired, taken,
                 signedIn, abandoned>>

(* Back to the first screen, with a verification out or not.               *)
StartOver ==
  /\ step = "otp"
  /\ step' = "email"
  /\ UNCHANGED <<callVars, page, mount, going, slot, held, email, busy, cooling, expired, taken,
                 signedIn, abandoned>>

(* ExpiryPill, onExpired.                                                  *)
Expire ==
  /\ page = "mfa-challenge"
  /\ held # NoToken
  /\ expired' = TRUE
  /\ UNCHANGED <<callVars, page, mount, going, slot, held, step, email, busy, cooling, taken,
                 signedIn, abandoned>>

-----------------------------------------------------------------------------
Init ==
  /\ page = "login"
  /\ mount = 1
  /\ going = "nowhere"
  /\ slot = [s \in {"mfa", "reset"} |-> NoToken]
  /\ held = NoToken
  /\ step = "email"
  /\ email = NoEmail
  /\ busy = {}
  /\ cooling = FALSE
  /\ expired = FALSE
  /\ signedIn = NoToken
  /\ op = [c \in Calls |-> "none"]
  /\ phase = [c \in Calls |-> "idle"]
  /\ from = [c \in Calls |-> 0]
  /\ who = [c \in Calls |-> NoEmail]
  /\ gave = [c \in Calls |-> "nothing"]
  /\ taken = {}
  /\ abandoned = FALSE

Handler(c) ==
  \/ \E e \in Emails : Login(c, e) \/ Register(c, e) \/ Accept(c, e) \/ Reset(c, e)
  \/ Challenge(c) \/ Forgot(c) \/ VerifyOtp(c) \/ VerifyEmail(c) \/ Resend(c)

Server(c) == Accepted(c) \/ Proved(c) \/ Rejected(c)

Answer(c) ==
  \/ LoginDone(c) \/ LoginChallenged(c) \/ RegisterDone(c) \/ ChallengePassed(c) \/ Refreshed(c)
  \/ ForgotDone(c) \/ OtpVerified(c) \/ ResetDone(c)
  \/ VerifyEmailDone(c) \/ AcceptDone(c) \/ ResendDone(c) \/ Failed(c)

Next ==
  \/ \E c \in Calls : Handler(c) \/ Server(c) \/ Answer(c)
  \/ \E p \in Pages : Follow(p) \/ Reload(p)
  \/ \E e \in Emails : EditEmail(e)
  \/ Arrive \/ StayHere \/ Cooldown \/ StartOver \/ Expire

Spec == Init /\ [][Next]_vars

(* A fetch settles, the browser runs what awaits it, and timers go off.    *)
Fairness ==
  /\ \A c \in Calls : WF_vars(Server(c)) /\ WF_vars(Answer(c))
  /\ WF_vars(Cooldown)

FairSpec == Spec /\ Fairness

-----------------------------------------------------------------------------
Slots == {"mfa", "reset"}

Guards == {"submitting", "verifying", "resending"}

(* Every variable keeps its type; a second screen, a proof and a pill      *)
(* belong to the pages that have them.                                     *)
TypeOK ==
  /\ page \in Pages
  /\ mount \in Mounts
  /\ going \in Pages \cup {"nowhere"}
  /\ slot \in [Slots -> Tokens]
  /\ held \in Tokens
  /\ step \in {"email", "otp"}
  /\ email \in Emails \cup {NoEmail}
  /\ busy \subseteq Guards
  /\ cooling \in BOOLEAN
  /\ expired \in BOOLEAN
  /\ signedIn \in Tokens
  /\ op \in [Calls -> Ops \cup {"none"}]
  /\ phase \in [Calls -> {"idle", "sent", "ok", "token", "refused", "lost", "done"}]
  /\ from \in [Calls -> Mounts \cup {0}]
  /\ who \in [Calls -> Emails \cup {NoEmail}]
  /\ gave \in [Calls -> {"nothing", "session", "token"}]
  /\ taken \subseteq Mounts \X Calls
  /\ abandoned \in BOOLEAN
  /\ step = "otp" => page = "forgot-password"
  /\ held # NoToken => ReadsSlot(page)
  /\ expired => page = "mfa-challenge"

(* A proof is used by one page only: the mount that read it from the slot  *)
(* is the only one that ever has it, and it does not go back.              *)
OneUseToken ==
  /\ \A s, t \in taken : s[2] = t[2] => s[1] = t[1]
  /\ \A t \in taken, k \in Slots : slot[k] # t[2]

Holds(c, g) == Out(c) /\ Ours(c) /\ Guard(op[c]) = g

(* A page's guard is taken exactly while a request of this page holds it   *)
(* (or the cooldown runs): no late answer to a page that is gone frees it, *)
(* and no way for a request to end leaves it taken.                        *)
GuardIsOwn ==
  /\ \A g \in Guards : g \in busy <=> (\E c \in Calls : Holds(c, g)) \/ (g = "resending" /\ cooling)
  /\ \A b, c \in Calls, g \in Guards : (Holds(b, g) /\ Holds(c, g)) => b = c

Source(p) == IF p = "mfa-challenge" THEN "login" ELSE "verifyOtp"

(* As long as no page was left with a request out, the challenge is for    *)
(* the latest login that asked for one, and the reset for the latest code  *)
(* that was verified, however often the wizard was started over.           *)
UndisturbedTokenIsNewest ==
  (~abandoned /\ held # NoToken) =>
    \A c \in Calls : (op[c] = Source(page) /\ gave[c] = "token") => c <= held

(* Under the same condition the cookies are those of the latest request    *)
(* that signed in.                                                         *)
UndisturbedSessionIsNewest ==
  ~abandoned => \A c \in Calls : gave[c] = "session" => c <= signedIn

(* A guard is freed: no page stays busy for ever.                          *)
GuardsAreFreed == \A g \in Guards : g \in busy ~> g \notin busy

-----------------------------------------------------------------------------
(* The inductive invariant behind the safety properties.                   *)

PageOf(what) ==
  CASE what \in {"challenge", "me"}       -> "mfa-challenge"
    [] what \in {"forgot", "verifyOtp"}   -> "forgot-password"
    [] what = "reset"                     -> "reset-password"
    [] what \in {"verifyEmail", "resend"} -> "verify-email"
    [] what = "accept"                    -> "accept-invitation"
    [] OTHER                              -> what

(* Requests are made in order, each by the page of its time.               *)
CallInv ==
  /\ \A c \in Calls : phase[c] = "idle" => gave[c] = "nothing"
  /\ \A c \in Calls : phase[c] # "idle" =>
       /\ op[c] \in Ops
       /\ from[c] \in 1 .. mount
       /\ Ours(c) => page = PageOf(op[c])
       /\ \A b \in 1 .. c - 1 : phase[b] # "idle" /\ from[b] <= from[c]

(* The cooldown starts after the answer, not beside the request.           *)
CooldownInv == cooling => \A c \in Calls : ~Holds(c, "resending")

OpOf(k) == IF k = "mfa" THEN "login" ELSE "verifyOtp"

(* A proof comes from an answered request of its kind.                     *)
TokenInv ==
  /\ \A k \in Slots : slot[k] # NoToken => phase[slot[k]] = "done" /\ op[slot[k]] = OpOf(k)
  /\ \A t \in taken : phase[t[2]] = "done"
  /\ \A c \in Calls : phase[c] = "token" => op[c] \in {"login", "verifyOtp"}
  /\ \A c \in Calls : gave[c] = "token" => phase[c] \in {"token", "done"}
  /\ \A c \in Calls : gave[c] = "session" => op[c] \in {"login", "register", "challenge", "me", "accept"}

(* While no page was left with a request out, requests of a kind follow    *)
(* one another, and what is pending is the newest of its kind.             *)
UndisturbedInv ==
  ~abandoned =>
    /\ \A c \in Calls : Out(c) => Ours(c)
    /\ \A b, c \in Calls : (Out(c) /\ b > c /\ Guard(op[b]) = Guard(op[c])) => phase[b] = "idle"
    /\ \A k \in Slots : slot[k] # NoToken =>
         \A c \in Calls : (op[c] = OpOf(k) /\ gave[c] = "token") => c <= slot[k] \/ Out(c)

IndInv ==
  /\ TypeOK
  /\ CallInv
  /\ GuardIsOwn
  /\ CooldownInv
  /\ OneUseToken
  /\ TokenInv
  /\ UndisturbedTokenIsNewest
  /\ UndisturbedSessionIsNewest
  /\ UndisturbedInv
=============================================================================
