-------------------------- MODULE AuthPages_proofs ---------------------------
(***************************************************************************)
(* Proofs about AuthPages for any number of accounts, requests and pages:  *)
(* its types, that a proof is used by one page only, that a guard is held  *)
(* by this page's own request, and that without a page left behind with a  *)
(* request out what the tab holds is the newest.                           *)
(***************************************************************************)
EXTENDS AuthPages, TLAPS

-----------------------------------------------------------------------------
(* The steps by what they do to the calls and to the page.                 *)

Addresses == Emails \cup {NoEmail}

Submitted(c, what, e) ==
  /\ what \in Ops \ {"me"}
  /\ e \in Addresses
  /\ page = PageOf(what)
  /\ Submit(c, what, e)
  /\ Stay

(* What a handler that ends may do to the slots, the screen and the route. *)
Kept(c) == slot' = slot /\ phase[c] # "token"

Filled(c) ==
  \E k \in Slots : op[c] = OpOf(k) /\ phase[c] = "token" /\ slot' = [slot EXCEPT ![k] = c]

Advanced(c) == op[c] = "forgot" /\ Ours(c) /\ step' = "otp"

Finished(c) ==
  /\ phase[c] \in {"ok", "token", "refused", "lost"}
  /\ op[c] # "resend"
  /\ going' \in Pages \cup {"nowhere"}
  /\ Kept(c) \/ Filled(c)
  /\ step' = step \/ Advanced(c)
  /\ Finish(c)

Shown(p) ==
  /\ p \in Pages
  /\ mount < MaxMounts
  /\ Show(p)
  /\ Leave
  /\ UNCHANGED <<callVars, signedIn>>

(* The rest changes the field, the screen, the route or the pill only.     *)
Minor ==
  /\ going' \in {going, "nowhere"}
  /\ step' \in {step, "email"}
  /\ email' \in Addresses
  /\ expired' \in BOOLEAN
  /\ expired' => expired \/ page = "mfa-challenge"
  /\ UNCHANGED <<callVars, page, mount, slot, held, busy, cooling, taken, signedIn, abandoned>>

(* Every handler takes its guard and makes a request of its page.          *)
LEMMA HandlerSubmits ==
  ASSUME TypeOK, NEW c \in Calls, Handler(c)
  PROVE  \E what \in Ops, e \in Addresses : Submitted(c, what, e)
<1>1. ASSUME NEW e \in Emails, Login(c, e)
      PROVE  Submitted(c, "login", e)
  BY <1>1 DEF Login, Submitted, PageOf, Ops, Addresses
<1>2. ASSUME NEW e \in Emails, Register(c, e)
      PROVE  Submitted(c, "register", e)
  BY <1>2 DEF Register, Submitted, PageOf, Ops, Addresses
<1>3. ASSUME NEW e \in Emails, Accept(c, e)
      PROVE  Submitted(c, "accept", e)
  BY <1>3 DEF Accept, Submitted, PageOf, Ops, Addresses
<1>4. ASSUME NEW t \in Tokens, t # NoToken
      PROVE  who[t] \in Addresses
  BY <1>4 DEF TypeOK, Tokens, Addresses
<1>5. Challenge(c) => Submitted(c, "challenge", who[held]) /\ who[held] \in Addresses
  BY <1>4 DEF Challenge, Submitted, PageOf, Ops, TypeOK
<1>6. Forgot(c) => Submitted(c, "forgot", email) /\ email \in Addresses
  BY DEF Forgot, Submitted, PageOf, Ops, TypeOK, Addresses
<1>7. VerifyOtp(c) => Submitted(c, "verifyOtp", email) /\ email \in Addresses
  BY DEF VerifyOtp, Submitted, PageOf, Ops, TypeOK, Addresses
<1>8. ASSUME NEW e \in Emails, Reset(c, e)
      PROVE  Submitted(c, "reset", e)
  BY <1>8 DEF Reset, Submitted, PageOf, Ops, Addresses
<1>9. VerifyEmail(c) => Submitted(c, "verifyEmail", who[signedIn]) /\ who[signedIn] \in Addresses
  BY <1>4 DEF VerifyEmail, Submitted, PageOf, Ops, TypeOK
<1>10. Resend(c) => Submitted(c, "resend", who[signedIn]) /\ who[signedIn] \in Addresses
  BY <1>4 DEF Resend, Submitted, PageOf, Ops, TypeOK
<1> QED
  BY <1>1, <1>2, <1>3, <1>5, <1>6, <1>7, <1>8, <1>9, <1>10 DEF Handler, Ops, Addresses

(* Every answer but three ends its handler.                                *)
LEMMA AnswerFinishes ==
  ASSUME TypeOK, NEW c \in Calls, Answer(c)
  PROVE  Finished(c) \/ ChallengePassed(c) \/ ResendDone(c)
<1>1. LoginChallenged(c) => Finished(c)
  <2> SUFFICES ASSUME LoginChallenged(c) PROVE Finished(c)
    OBVIOUS
  <2>1. Filled(c)
    BY DEF LoginChallenged, Filled, OpOf, Slots
  <2> QED
    BY <2>1 DEF LoginChallenged, Push, Finished, Pages
<1>2. OtpVerified(c) => Finished(c)
  <2> SUFFICES ASSUME OtpVerified(c) PROVE Finished(c)
    OBVIOUS
  <2>1. Filled(c)
    BY DEF OtpVerified, Filled, OpOf, Slots
  <2> QED
    BY <2>1 DEF OtpVerified, Push, Finished, Pages
<1>3. LoginDone(c) \/ RegisterDone(c) \/ Refreshed(c) \/ ResetDone(c) => Finished(c)
  BY DEF LoginDone, RegisterDone, Refreshed, ResetDone, Push, Finished, Kept, Pages
<1>4. VerifyEmailDone(c) \/ AcceptDone(c) => Finished(c)
  BY DEF VerifyEmailDone, AcceptDone, Push, Finished, Kept, Pages
<1>5. ForgotDone(c) => Finished(c)
  BY DEF ForgotDone, Finished, Kept, Advanced, TypeOK
<1>6. Failed(c) => Finished(c)
  BY DEF Failed, Finished, Kept, TypeOK
<1> QED
  BY <1>1, <1>2, <1>3, <1>4, <1>5, <1>6 DEF Answer

(* The moves of the router are those of one page to another; the other     *)
(* steps of the tab change little.                                         *)
LEMMA MovesShow ==
  ASSUME TypeOK
  PROVE  /\ Arrive => \E p \in Pages : Shown(p)
         /\ \A p \in Pages : Follow(p) => Shown(p)
<1>1. Arrive => Shown(going)
  BY DEF Arrive, Shown
<1>2. \A p \in Pages : Follow(p) => Shown(p)
  BY DEF Follow, Shown
<1> QED
  BY <1>1, <1>2 DEF Arrive

LEMMA SmallSteps ==
  ASSUME TypeOK, StayHere \/ StartOver \/ Expire \/ \E e \in Emails : EditEmail(e)
  PROVE  Minor
<1>1. StayHere => Minor
  BY DEF StayHere, NoMove, Minor, TypeOK, Addresses
<1>2. StartOver => Minor
  BY DEF StartOver, Minor, TypeOK, Addresses
<1>3. Expire => Minor
  BY DEF Expire, Minor, TypeOK, Addresses
<1>4. (\E e \in Emails : EditEmail(e)) => Minor
  BY DEF EditEmail, Minor, TypeOK, Addresses
<1> QED
  BY <1>1, <1>2, <1>3, <1>4

(* Every step is of one of these sorts.                                    *)
LEMMA StepSorts ==
  ASSUME TypeOK, [Next]_vars
  PROVE  \/ \E c \in Calls, what \in Ops, e \in Addresses : Submitted(c, what, e)
         \/ \E c \in Calls : Server(c) \/ Finished(c) \/ ChallengePassed(c) \/ ResendDone(c)
         \/ \E p \in Pages : Shown(p) \/ Reload(p)
         \/ Cooldown \/ Minor
<1>1. ASSUME NEW c \in Calls, Handler(c)
      PROVE  \E what \in Ops, e \in Addresses : Submitted(c, what, e)
  BY <1>1, HandlerSubmits
<1>2. ASSUME NEW c \in Calls, Answer(c)
      PROVE  Finished(c) \/ ChallengePassed(c) \/ ResendDone(c)
  BY <1>2, AnswerFinishes
<1>3. UNCHANGED vars => Minor
  BY DEF vars, tabVars, callVars, Minor, TypeOK, Addresses
<1> QED
  BY <1>1, <1>2, <1>3, MovesShow, SmallSteps DEF Next

-----------------------------------------------------------------------------
(* Types.                                                                  *)

(* A second screen, a proof and a pill only on the pages that have them,   *)
(* and every variable in its type, after each sort of step.                *)
LEMMA TypePreserved ==
  ASSUME TypeOK, CallInv, [Next]_vars
  PROVE  TypeOK'
<1> USE MaxCallsAssumption, MaxMountsAssumption DEF Slots, Guards, Tokens, NoToken
<1>1. ASSUME NEW c \in Calls, NEW what \in Ops, NEW e \in Addresses, Submitted(c, what, e)
      PROVE  TypeOK'
  <2>1. Guard(what) \in Guards
    BY DEF Guard
  <2> QED
    BY <1>1, <2>1 DEF Submitted, Submit, Stay, TypeOK, Addresses, Mounts
<1>2. ASSUME NEW c \in Calls, Server(c)
      PROVE  TypeOK'
  <2>1. CASE Accepted(c)
    BY <2>1 DEF Accepted, tabVars, TypeOK
  <2>2. CASE Proved(c)
    BY <2>2 DEF Proved, tabVars, TypeOK
  <2>3. CASE Rejected(c)
    BY <2>3 DEF Rejected, tabVars, TypeOK
  <2> QED
    BY <1>2, <2>1, <2>2, <2>3 DEF Server
<1>3. ASSUME NEW c \in Calls, Finished(c)
      PROVE  TypeOK'
  <2>1. slot' \in [Slots -> Tokens]
    BY <1>3 DEF Finished, Kept, Filled, TypeOK
  <2>2. busy' \subseteq Guards
    BY <1>3 DEF Finished, Finish, TypeOK
  <2>3. step' \in {"email", "otp"} /\ (step' = "otp" => page' = "forgot-password")
    <3>1. Advanced(c) => page = "forgot-password"
      BY <1>3 DEF Finished, Advanced, CallInv, PageOf
    <3> QED
      BY <1>3, <3>1 DEF Finished, Finish, Advanced, TypeOK
  <2> QED
    BY <1>3, <2>1, <2>2, <2>3 DEF Finished, Finish, TypeOK
<1>4. ASSUME NEW c \in Calls, ChallengePassed(c)
      PROVE  TypeOK'
  BY <1>4 DEF ChallengePassed, tabVars, TypeOK, Ops
<1>5. ASSUME NEW c \in Calls, ResendDone(c)
      PROVE  TypeOK'
  BY <1>5 DEF ResendDone, TypeOK
<1>6. ASSUME NEW p \in Pages, Shown(p)
      PROVE  TypeOK'
  <2>1. mount' \in Mounts
    BY <1>6 DEF Shown, Show, Fresh, TypeOK, Mounts
  <2>2. held' \in Tokens /\ (held' # NoToken => ReadsSlot(page'))
    BY <1>6 DEF Shown, Show, Fresh, TypeOK, SlotOf
  <2>3. slot' \in [Slots -> Tokens]
    BY <1>6 DEF Shown, Show, TypeOK, SlotOf
  <2>4. taken' \subseteq Mounts \X Calls
    BY <1>6, <2>1, <2>2 DEF Shown, Show, TypeOK
  <2>5. abandoned' \in BOOLEAN
    BY <1>6 DEF Shown, Leave, TypeOK
  <2>6. UNCHANGED <<callVars, signedIn>>
    BY <1>6 DEF Shown
  <2>7. Fresh(p) /\ page' \in Pages
    BY <1>6 DEF Shown, Show, Fresh
  <2> QED
    BY <2>1, <2>2, <2>3, <2>4, <2>5, <2>6, <2>7 DEF Fresh, TypeOK, callVars
<1>7. ASSUME NEW p \in Pages, Reload(p)
      PROVE  TypeOK'
  <2>1. mount' \in Mounts
    BY <1>7 DEF Reload, Fresh, TypeOK, Mounts
  <2>2. slot' \in [Slots -> Tokens]
    BY <1>7 DEF Reload
  <2>3. phase' \in [Calls -> {"idle", "sent", "ok", "token", "refused", "lost", "done"}]
    BY <1>7 DEF Reload, TypeOK
  <2> QED
    BY <1>7, <2>1, <2>2, <2>3 DEF Reload, Fresh, TypeOK
<1>8. ASSUME Cooldown
      PROVE  TypeOK'
  BY <1>8 DEF Cooldown, callVars, TypeOK
<1>9. ASSUME Minor
      PROVE  TypeOK'
  BY <1>9 DEF Minor, callVars, TypeOK, Addresses
<1> QED
  BY <1>1, <1>2, <1>3, <1>4, <1>5, <1>6, <1>7, <1>8, <1>9, StepSorts

-----------------------------------------------------------------------------
(* The order of the requests.                                              *)

(* Requests stay numbered in the order of the pages that made them.        *)
LEMMA CallPreserved ==
  ASSUME TypeOK, CallInv, [Next]_vars
  PROVE  CallInv'
<1> USE MaxCallsAssumption, MaxMountsAssumption DEF Calls, Mounts
<1>0. \A c \in Calls : phase[c] # "idle" => from[c] \in Nat /\ from[c] <= mount
  BY DEF CallInv, TypeOK
<1>1. ASSUME NEW c \in Calls, NEW what \in Ops, NEW e \in Addresses, Submitted(c, what, e)
      PROVE  CallInv'
  <2>1. /\ phase[c] = "idle"
        /\ \A b \in 1 .. c - 1 : phase[b] # "idle"
        /\ op' = [op EXCEPT ![c] = what]
        /\ phase' = [phase EXCEPT ![c] = "sent"]
        /\ from' = [from EXCEPT ![c] = mount]
        /\ page' = page /\ mount' = mount /\ gave' = gave
        /\ page = PageOf(what)
    BY <1>1 DEF Submitted, Submit, Stay
  <2>2. ASSUME NEW d \in Calls, phase'[d] # "idle"
        PROVE  /\ op'[d] \in Ops
               /\ from'[d] \in 1 .. mount'
               /\ from'[d] = mount' => page' = PageOf(op'[d])
    BY <2>1, <2>2, <1>0 DEF CallInv, TypeOK, Ours
  <2>3. ASSUME NEW d \in Calls, phase'[d] # "idle", NEW b \in 1 .. d - 1
        PROVE  phase'[b] # "idle" /\ from'[b] <= from'[d]
    <3>1. CASE d = c
      BY <2>1, <2>3, <3>1, <1>0 DEF TypeOK
    <3>2. CASE d # c
      <4>1. phase[d] # "idle"
        BY <2>1, <2>3, <3>2 DEF TypeOK
      <4>2. phase[b] # "idle" /\ from[b] <= from[d]
        BY <4>1, <2>3 DEF CallInv
      <4>3. b # c
        BY <4>2, <2>1
      <4> QED
        BY <2>1, <3>2, <4>2, <4>3 DEF TypeOK
    <3> QED
      BY <3>1, <3>2
  <2>4. ASSUME NEW d \in Calls, phase'[d] = "idle"
        PROVE  gave'[d] = "nothing"
    BY <2>1, <2>4 DEF CallInv, TypeOK
  <2> QED
    BY <2>2, <2>3, <2>4 DEF CallInv, Ours
<1>2. ASSUME NEW c \in Calls, Server(c)
      PROVE  CallInv'
  BY <1>2 DEF Server, Accepted, Proved, Rejected, tabVars, CallInv, Ours, TypeOK
<1>3. ASSUME NEW c \in Calls, Finished(c)
      PROVE  CallInv'
  BY <1>3 DEF Finished, Finish, CallInv, Ours, TypeOK
<1>4. ASSUME NEW c \in Calls, ChallengePassed(c)
      PROVE  CallInv'
  BY <1>4 DEF ChallengePassed, tabVars, CallInv, Ours, TypeOK, PageOf, Ops
<1>5. ASSUME NEW c \in Calls, ResendDone(c)
      PROVE  CallInv'
  BY <1>5 DEF ResendDone, CallInv, Ours, TypeOK
<1>6. ASSUME NEW p \in Pages, Shown(p) \/ Reload(p)
      PROVE  CallInv'
  <2>1. mount' = mount + 1 /\ op' = op /\ from' = from /\ gave' = gave
    BY <1>6 DEF Shown, Show, Reload, Fresh, callVars
  <2>2. \A c \in Calls : phase'[c] = "idle" <=> phase[c] = "idle"
    BY <1>6 DEF Shown, Reload, Out, callVars, TypeOK
  <2>3. \A c \in Calls : phase[c] # "idle" => from[c] # mount'
    BY <2>1, <1>0 DEF TypeOK
  <2> QED
    BY <2>1, <2>2, <2>3, <1>0 DEF CallInv, Ours, TypeOK
<1>7. ASSUME Cooldown \/ Minor
      PROVE  CallInv'
  BY <1>7 DEF Cooldown, Minor, callVars, CallInv, Ours
<1> QED
  BY <1>1, <1>2, <1>3, <1>4, <1>5, <1>6, <1>7, StepSorts

-----------------------------------------------------------------------------
(* Guards.                                                                 *)

(* A guard is the page's own after each sort of step, and the cooldown     *)
(* follows the request it is for.                                          *)
LEMMA GuardPreserved ==
  ASSUME TypeOK, CallInv, GuardIsOwn, CooldownInv, [Next]_vars
  PROVE  GuardIsOwn' /\ CooldownInv'
<1>0. \A c \in Calls : phase[c] # "idle" => from[c] # mount + 1
  BY DEF CallInv, TypeOK, Mounts
<1>1. ASSUME NEW c \in Calls, NEW what \in Ops, NEW e \in Addresses, Submitted(c, what, e)
      PROVE  GuardIsOwn' /\ CooldownInv'
  <2>1. /\ Guard(what) \notin busy
        /\ busy' = busy \cup {Guard(what)}
        /\ cooling' = cooling
    BY <1>1 DEF Submitted, Submit, Stay
  <2>2. \A g : Holds(c, g)' <=> g = Guard(what)
    BY <1>1 DEF Submitted, Submit, Stay, Holds, Out, Ours, TypeOK
  <2>3. \A d \in Calls \ {c} : \A g : Holds(d, g)' <=> Holds(d, g)
    BY <1>1 DEF Submitted, Submit, Stay, Holds, Out, Ours, TypeOK
  <2>4. \A g : ~Holds(c, g)
    BY <1>1 DEF Submitted, Submit, Holds, Out
  <2>5. Guard(what) \in Guards
    BY DEF Guard, Guards
  <2>6. \A d \in Calls : ~Holds(d, Guard(what))
    BY <2>1, <2>5 DEF GuardIsOwn
  <2>7. cooling => Guard(what) # "resending"
    BY <2>1 DEF GuardIsOwn, Guards
  <2> QED
    BY <2>1, <2>2, <2>3, <2>4, <2>6, <2>7 DEF GuardIsOwn, CooldownInv
<1>2. ASSUME NEW c \in Calls, Server(c) \/ ChallengePassed(c)
      PROVE  GuardIsOwn' /\ CooldownInv'
  <2>1. busy' = busy /\ cooling' = cooling
    BY <1>2 DEF Server, Accepted, Proved, Rejected, ChallengePassed, tabVars
  <2>2. \A d \in Calls : \A g : Holds(d, g)' <=> Holds(d, g)
    BY <1>2 DEF Server, Accepted, Proved, Rejected, ChallengePassed, tabVars, Holds, Out, Ours,
                Guard, TypeOK
  <2> QED
    BY <2>1, <2>2 DEF GuardIsOwn, CooldownInv
<1>3. ASSUME NEW c \in Calls, Finished(c)
      PROVE  GuardIsOwn' /\ CooldownInv'
  <2>1. /\ cooling' = cooling
        /\ Ours(c) => busy' = busy \ {Guard(op[c])} /\ Holds(c, Guard(op[c]))
        /\ ~Ours(c) => busy' = busy
    BY <1>3 DEF Finished, Finish, Holds, Out
  <2>2. \A d \in Calls : \A g : Holds(d, g)' <=> Holds(d, g) /\ d # c
    BY <1>3 DEF Finished, Finish, Holds, Out, Ours, TypeOK
  <2>3. Guard(op[c]) # "resending"
    BY <1>3 DEF Finished, Guard
  <2>4. \A g : Holds(c, g) => Ours(c) /\ g = Guard(op[c])
    BY DEF Holds
  <2>5. CASE Ours(c)
    BY <2>1, <2>2, <2>3, <2>4, <2>5 DEF GuardIsOwn, CooldownInv
  <2>6. CASE ~Ours(c)
    BY <2>1, <2>2, <2>4, <2>6 DEF GuardIsOwn, CooldownInv
  <2> QED
    BY <2>5, <2>6
<1>4. ASSUME NEW c \in Calls, ResendDone(c)
      PROVE  GuardIsOwn' /\ CooldownInv'
  <2>1. /\ Ours(c) => cooling' = TRUE
        /\ ~Ours(c) => cooling' = cooling
        /\ busy' = busy
        /\ Ours(c) => Holds(c, "resending")
    BY <1>4 DEF ResendDone, Holds, Out, Guard, TypeOK
  <2>2. \A d \in Calls : \A g : Holds(d, g)' <=> Holds(d, g) /\ d # c
    BY <1>4 DEF ResendDone, Holds, Out, Ours, TypeOK
  <2>3. \A g : Holds(c, g) => Ours(c) /\ g = "resending"
    BY <1>4 DEF ResendDone, Holds, Guard
  <2>4. "resending" \in Guards
    BY DEF Guards
  <2>5. CASE Ours(c)
    BY <2>1, <2>2, <2>3, <2>4, <2>5 DEF GuardIsOwn, CooldownInv
  <2>6. CASE ~Ours(c)
    BY <2>1, <2>2, <2>3, <2>6 DEF GuardIsOwn, CooldownInv
  <2> QED
    BY <2>5, <2>6
<1>5. ASSUME NEW p \in Pages, Shown(p) \/ Reload(p)
      PROVE  GuardIsOwn' /\ CooldownInv'
  <2>1. mount' = mount + 1 /\ busy' = {} /\ cooling' = FALSE /\ from' = from
    BY <1>5 DEF Shown, Show, Reload, Fresh, callVars
  <2>2. \A d \in Calls : Out(d)' => phase[d] # "idle"
    BY <1>5 DEF Shown, Reload, Out, callVars, TypeOK
  <2>3. \A d \in Calls : \A g : ~Holds(d, g)'
    BY <2>1, <2>2, <1>0 DEF Holds, Ours
  <2> QED
    BY <2>1, <2>3 DEF GuardIsOwn, CooldownInv
<1>6. ASSUME Cooldown
      PROVE  GuardIsOwn' /\ CooldownInv'
  <2>1. /\ cooling /\ cooling' = FALSE
        /\ busy' = busy \ {"resending"}
        /\ UNCHANGED <<callVars, mount>>
    BY <1>6 DEF Cooldown
  <2>2. \A d \in Calls : \A g : Holds(d, g)' <=> Holds(d, g)
    BY <2>1 DEF callVars, Holds, Out, Ours
  <2> QED
    BY <2>1, <2>2 DEF GuardIsOwn, CooldownInv
<1>7. ASSUME Minor
      PROVE  GuardIsOwn' /\ CooldownInv'
  BY <1>7 DEF Minor, callVars, GuardIsOwn, CooldownInv, Holds, Out, Ours
<1> QED
  BY <1>1, <1>2, <1>3, <1>4, <1>5, <1>6, <1>7, StepSorts

-----------------------------------------------------------------------------
(* Proofs handed from page to page.                                        *)

(* What is pending or taken came with an answer that was dealt with, after *)
(* each sort of step.                                                      *)
LEMMA TokenPreserved ==
  ASSUME TypeOK, CallInv, TokenInv, [Next]_vars
  PROVE  TokenInv'
<1>0. /\ \A k \in Slots : slot[k] # NoToken => slot[k] \in Calls
      /\ \A t \in taken : t[2] \in Calls
  BY DEF TypeOK, Tokens
<1>1. ASSUME NEW c \in Calls, NEW what \in Ops, NEW e \in Addresses, Submitted(c, what, e)
      PROVE  TokenInv'
  <2>1. /\ phase[c] = "idle" /\ gave[c] = "nothing"
        /\ op' = [op EXCEPT ![c] = what]
        /\ phase' = [phase EXCEPT ![c] = "sent"]
        /\ UNCHANGED <<slot, taken, gave>>
    BY <1>1 DEF Submitted, Submit, Stay, CallInv
  <2> QED
    BY <1>0, <2>1 DEF TokenInv, TypeOK
<1>2. ASSUME NEW c \in Calls, Server(c)
      PROVE  TokenInv'
  <2>1. UNCHANGED <<slot, taken, op>> /\ phase[c] = "sent"
    BY <1>2 DEF Server, Accepted, Proved, Rejected, tabVars
  <2>2. \A d \in Calls \ {c} : phase'[d] = phase[d] /\ gave'[d] = gave[d]
    BY <1>2 DEF Server, Accepted, Proved, Rejected, TypeOK
  <2>3. /\ phase'[c] = "token" => op[c] \in {"login", "verifyOtp"}
        /\ gave'[c] = "token" => gave[c] = "token" \/ phase'[c] = "token"
        /\ gave'[c] = "session" => gave[c] = "session" \/ SignsIn(op[c])
    BY <1>2 DEF Server, Accepted, Proved, Rejected, TypeOK
  <2> QED
    BY <1>0, <2>1, <2>2, <2>3 DEF TokenInv, SignsIn
<1>3. ASSUME NEW c \in Calls, Finished(c)
      PROVE  TokenInv'
  <2>1. /\ phase[c] # "done"
        /\ phase' = [phase EXCEPT ![c] = "done"]
        /\ UNCHANGED <<op, gave, taken>>
    BY <1>3 DEF Finished, Finish
  <2>2. \A k \in Slots : slot'[k] = slot[k] \/ (slot'[k] = c /\ op[c] = OpOf(k))
    BY <1>3 DEF Finished, Kept, Filled, TypeOK
  <2> QED
    BY <1>0, <2>1, <2>2 DEF TokenInv, TypeOK
<1>4. ASSUME NEW c \in Calls, ChallengePassed(c) \/ ResendDone(c)
      PROVE  TokenInv'
  <2>1. /\ phase[c] \notin {"idle", "done"}
        /\ UNCHANGED <<slot, taken, gave>>
    BY <1>4 DEF ChallengePassed, ResendDone, tabVars
  <2>2. \A d \in Calls \ {c} : phase'[d] = phase[d] /\ op'[d] = op[d]
    BY <1>4 DEF ChallengePassed, ResendDone, TypeOK
  <2>3. /\ phase'[c] # "token"
        /\ gave[c] = "token" => phase'[c] = "done"
        /\ gave[c] = "session" => op'[c] \in {"login", "register", "challenge", "me", "accept"}
    BY <1>4 DEF ChallengePassed, ResendDone, TokenInv, TypeOK
  <2> QED
    BY <1>0, <2>1, <2>2, <2>3 DEF TokenInv
<1>5. ASSUME NEW p \in Pages, Shown(p)
      PROVE  TokenInv'
  <2>1. UNCHANGED callVars
    BY <1>5 DEF Shown
  <2>2. \A k \in Slots : slot'[k] \in {slot[k], NoToken}
    BY <1>5 DEF Shown, Show, TypeOK
  <2>3. ASSUME NEW t \in taken'
        PROVE  t \in taken \/ \E k \in Slots : slot[k] # NoToken /\ t[2] = slot[k]
    BY <1>5, <2>3 DEF Shown, Show, SlotOf, Slots
  <2> QED
    BY <2>1, <2>2, <2>3 DEF TokenInv, callVars
<1>6. ASSUME NEW p \in Pages, Reload(p)
      PROVE  TokenInv'
  <2>1. UNCHANGED <<op, gave, taken>> /\ \A k \in Slots : slot'[k] = NoToken
    BY <1>6 DEF Reload, Slots
  <2>2. \A c \in Calls : phase'[c] # "done" => phase'[c] = phase[c] /\ phase[c] = "idle"
    BY <1>6 DEF Reload, Out, TypeOK
  <2>3. \A c \in Calls : phase[c] = "done" => phase'[c] = "done"
    BY <1>6 DEF Reload, Out
  <2> QED
    BY <1>0, <2>1, <2>2, <2>3 DEF TokenInv
<1>7. ASSUME Cooldown \/ Minor
      PROVE  TokenInv'
  BY <1>7 DEF Cooldown, Minor, callVars, TokenInv
<1> QED
  BY <1>1, <1>2, <1>3, <1>4, <1>5, <1>6, <1>7, StepSorts DEF Server

(* A proof does not reach a second page after any sort of step.            *)
LEMMA OneUsePreserved ==
  ASSUME TypeOK, TokenInv, OneUseToken, [Next]_vars
  PROVE  OneUseToken'
<1>0. \A t \in taken : t[2] \in Calls /\ t[2] # NoToken
  BY DEF TypeOK, Calls, NoToken
<1>1. ASSUME NEW c \in Calls, Finished(c)
      PROVE  OneUseToken'
  <2>1. \A k \in Slots : slot'[k] = slot[k] \/ (slot'[k] = c /\ phase[c] = "token")
    BY <1>1 DEF Finished, Kept, Filled, TypeOK
  <2>2. taken' = taken
    BY <1>1 DEF Finished, Finish
  <2> QED
    BY <2>1, <2>2 DEF OneUseToken, TokenInv
<1>2. ASSUME NEW p \in Pages, Shown(p)
      PROVE  OneUseToken'
  <2>1. CASE held' = NoToken
    <3>1. taken' = taken /\ \A k \in Slots : slot'[k] \in {slot[k], NoToken}
      BY <1>2, <2>1 DEF Shown, Show, TypeOK
    <3> QED
      BY <3>1, <1>0 DEF OneUseToken
  <2>2. CASE held' # NoToken
    <3> DEFINE k == SlotOf(p)
    <3>1. k \in Slots
      BY DEF SlotOf, Slots
    <3>2. /\ held' = slot[k]
          /\ taken' = taken \cup {<<mount', held'>>}
          /\ slot' = [slot EXCEPT ![k] = NoToken]
      BY <1>2, <2>2 DEF Shown, Show
    <3>3. held' \in Calls
      BY <2>2, <3>1, <3>2 DEF TypeOK, Tokens
    <3>4. \A t \in taken : t[2] # held'
      BY <3>1, <3>2 DEF OneUseToken
    <3>5. \A j \in Slots \ {k} : slot[j] # held'
      BY <2>2, <3>1, <3>2 DEF TokenInv, OpOf, Slots
    <3>6. \A j \in Slots : slot'[j] # held' /\ slot'[j] \in {slot[j], NoToken}
      BY <2>2, <3>1, <3>2, <3>5 DEF TypeOK
    <3> QED
      BY <3>2, <3>4, <3>6, <1>0 DEF OneUseToken
  <2> QED
    BY <2>1, <2>2
<1>3. ASSUME NEW p \in Pages, Reload(p)
      PROVE  OneUseToken'
  <2>1. taken' = taken /\ \A k \in Slots : slot'[k] = NoToken
    BY <1>3 DEF Reload, Slots
  <2> QED
    BY <2>1, <1>0 DEF OneUseToken
<1>4. ASSUME UNCHANGED <<slot, taken>>
      PROVE  OneUseToken'
  BY <1>4 DEF OneUseToken
<1>5. ASSUME NEW c \in Calls, NEW what \in Ops, NEW e \in Addresses, Submitted(c, what, e)
      PROVE  UNCHANGED <<slot, taken>>
  BY <1>5 DEF Submitted, Stay
<1>6. ASSUME NEW c \in Calls, Server(c) \/ ChallengePassed(c) \/ ResendDone(c)
      PROVE  UNCHANGED <<slot, taken>>
  BY <1>6 DEF Server, Accepted, Proved, Rejected, ChallengePassed, ResendDone, tabVars
<1>7. Cooldown \/ Minor => UNCHANGED <<slot, taken>>
  BY DEF Cooldown, Minor
<1> QED
  BY <1>1, <1>2, <1>3, <1>4, <1>5, <1>6, <1>7, StepSorts

-----------------------------------------------------------------------------
(* Nothing left behind.                                                    *)

(* As long as no page was left with a request out, requests of a kind are  *)
(* answered one after the other: this survives each sort of step.          *)
LEMMA UndisturbedPreserved ==
  ASSUME TypeOK, CallInv, GuardIsOwn, TokenInv, UndisturbedInv, [Next]_vars
  PROVE  UndisturbedInv'
<1> USE DEF Calls
<1>0. ASSUME NEW c \in Calls, NEW b \in Calls, b > c, phase[b] # "idle"
      PROVE  phase[c] # "idle"
  BY <1>0, MaxCallsAssumption DEF CallInv
<1>1. ASSUME NEW c \in Calls, NEW what \in Ops, NEW e \in Addresses, Submitted(c, what, e),
             ~abandoned'
      PROVE  UndisturbedInv'
  <2>1. /\ phase[c] = "idle" /\ gave[c] = "nothing"
        /\ Guard(what) \notin busy
        /\ op' = [op EXCEPT ![c] = what]
        /\ phase' = [phase EXCEPT ![c] = "sent"]
        /\ from' = [from EXCEPT ![c] = mount]
        /\ UNCHANGED <<mount, slot, gave>> /\ ~abandoned
    BY <1>1 DEF Submitted, Submit, Stay, CallInv
  <2>2. \A d \in Calls \ {c} : (Out(d)' <=> Out(d)) /\ (Ours(d)' <=> Ours(d)) /\ op'[d] = op[d]
    BY <2>1 DEF Out, Ours, TypeOK
  <2>3. \A d \in Calls : Out(d)' => Ours(d)'
    BY <2>1, <2>2 DEF UndisturbedInv, Ours, TypeOK
  <2>4. \A d \in Calls : Out(d) => Guard(op[d]) # Guard(what)
    <3>1. Guard(what) \in Guards
      BY DEF Guard, Guards
    <3> QED
      BY <2>1, <3>1 DEF UndisturbedInv, GuardIsOwn, Holds
  <2>5. ASSUME NEW d \in Calls, NEW b \in Calls, Out(d)', b > d, Guard(op'[b]) = Guard(op'[d])
        PROVE  phase'[b] = "idle"
    <3>1. CASE d = c
      BY <2>1, <2>5, <3>1, <1>0 DEF TypeOK
    <3>2. CASE d # c /\ b = c
      BY <2>1, <2>2, <2>4, <2>5, <3>2 DEF TypeOK
    <3>3. CASE d # c /\ b # c
      BY <2>1, <2>2, <2>5, <3>3 DEF UndisturbedInv, TypeOK
    <3> QED
      BY <3>1, <3>2, <3>3
  <2>6. ASSUME NEW k \in Slots, slot'[k] # NoToken, NEW d \in Calls, op'[d] = OpOf(k), gave'[d] = "token"
        PROVE  d <= slot'[k] \/ Out(d)'
    BY <2>1, <2>2, <2>6 DEF UndisturbedInv
  <2> QED
    BY <2>3, <2>5, <2>6 DEF UndisturbedInv
<1>2. ASSUME NEW c \in Calls, Server(c), ~abandoned'
      PROVE  UndisturbedInv'
  <2>1. /\ UNCHANGED <<mount, slot, op, from, abandoned>>
        /\ phase[c] = "sent" /\ phase'[c] \in {"ok", "token", "refused", "lost"}
        /\ \A d \in Calls \ {c} : phase'[d] = phase[d] /\ gave'[d] = gave[d]
    <3>1. Accepted(c) \/ Proved(c) \/ Rejected(c)
      BY <1>2 DEF Server
    <3>2. UNCHANGED <<mount, slot, op, from, abandoned>> /\ phase[c] = "sent"
      BY <3>1 DEF Accepted, Proved, Rejected, tabVars
    <3>3. phase'[c] \in {"ok", "token", "refused", "lost"}
      BY <3>1 DEF Accepted, Proved, Rejected, TypeOK
    <3>4. \A d \in Calls \ {c} : phase'[d] = phase[d] /\ gave'[d] = gave[d]
      BY <3>1 DEF Accepted, Proved, Rejected, TypeOK
    <3> QED
      BY <3>2, <3>3, <3>4
  <2>2. /\ Out(c) /\ Out(c)' /\ phase[c] # "idle" /\ phase'[c] # "idle"
        /\ \A d \in Calls \ {c} : Out(d)' <=> Out(d)
    BY <2>1 DEF Out
  <2>3. ~abandoned
    BY <1>2, <2>1
  <2>4. \A d \in Calls : Out(d)' => Ours(d)'
    BY <2>1, <2>2, <2>3 DEF UndisturbedInv, Ours
  <2>5. \A d, b \in Calls : (Out(d)' /\ b > d /\ Guard(op[b]) = Guard(op[d])) => phase'[b] = "idle"
    BY <2>1, <2>2, <2>3 DEF UndisturbedInv
  <2>6. \A k \in Slots : slot[k] # NoToken =>
          \A d \in Calls : (op[d] = OpOf(k) /\ gave'[d] = "token") => d <= slot[k] \/ Out(d)'
    BY <2>1, <2>2, <2>3 DEF UndisturbedInv
  <2> QED
    BY <2>1, <2>4, <2>5, <2>6 DEF UndisturbedInv
<1>3. ASSUME NEW c \in Calls, Finished(c), ~abandoned'
      PROVE  UndisturbedInv'
  <2>1. /\ Out(c) /\ phase[c] # "idle"
        /\ phase' = [phase EXCEPT ![c] = "done"]
        /\ UNCHANGED <<mount, op, from, gave>> /\ ~abandoned
    BY <1>3 DEF Finished, Finish, Out
  <2>2. /\ ~Out(c)'
        /\ \A d \in Calls \ {c} : (Out(d)' <=> Out(d)) /\ (phase'[d] = phase[d])
    BY <2>1 DEF Out, TypeOK
  <2>3. ASSUME NEW k \in Slots, slot'[k] # NoToken, NEW d \in Calls, op[d] = OpOf(k), gave[d] = "token"
        PROVE  d <= slot'[k] \/ Out(d)'
    <3>1. CASE Filled(c) /\ op[c] = OpOf(k)
      <4>1. slot'[k] = c
        BY <3>1 DEF Filled, OpOf, Slots, TypeOK
      <4>2. d > c => phase[d] = "idle"
        BY <2>1, <2>3, <3>1 DEF UndisturbedInv
      <4> QED
        BY <4>1, <4>2, <2>3 DEF CallInv
    <3>2. CASE ~(Filled(c) /\ op[c] = OpOf(k))
      <4>1. slot'[k] = slot[k]
        BY <1>3, <3>2 DEF Finished, Kept, Filled, TypeOK
      <4>2. d # c
        BY <1>3, <2>1, <2>3, <3>2 DEF Finished, Kept, TokenInv, Out
      <4> QED
        BY <2>1, <2>2, <2>3, <4>1, <4>2 DEF UndisturbedInv
    <3> QED
      BY <3>1, <3>2
  <2>4. \A d \in Calls : Out(d)' => Ours(d)'
    BY <2>1, <2>2 DEF UndisturbedInv, Ours
  <2>5. \A d, b \in Calls : (Out(d)' /\ b > d /\ Guard(op[b]) = Guard(op[d])) => phase'[b] = "idle"
    BY <2>1, <2>2 DEF UndisturbedInv
  <2> QED
    BY <2>1, <2>3, <2>4, <2>5 DEF UndisturbedInv
<1>4. ASSUME NEW c \in Calls, ChallengePassed(c) \/ ResendDone(c), ~abandoned'
      PROVE  UndisturbedInv'
  <2>1. /\ UNCHANGED <<mount, slot, from, gave, abandoned>>
        /\ phase[c] \in {"ok", "refused", "lost"} /\ phase'[c] \in {"sent", "done"}
        /\ \A d \in Calls \ {c} : phase'[d] = phase[d] /\ op'[d] = op[d]
        /\ Guard(op'[c]) = Guard(op[c]) /\ op'[c] \notin {"login", "verifyOtp"}
    <3>1. UNCHANGED <<mount, slot, from, gave, abandoned>> /\ phase[c] \in {"ok", "refused", "lost"}
      BY <1>4 DEF ChallengePassed, ResendDone, tabVars
    <3>2. /\ phase'[c] \in {"sent", "done"}
          /\ \A d \in Calls \ {c} : phase'[d] = phase[d] /\ op'[d] = op[d]
      BY <1>4 DEF ChallengePassed, ResendDone, TypeOK
    <3>3. Guard(op'[c]) = Guard(op[c]) /\ op'[c] \notin {"login", "verifyOtp"}
      BY <1>4 DEF ChallengePassed, ResendDone, TypeOK, Guard
    <3> QED
      BY <3>1, <3>2, <3>3
  <2>2. \A d \in Calls : Guard(op'[d]) = Guard(op[d])
    BY <2>1
  <2>3. \A k \in Slots : OpOf(k) \in {"login", "verifyOtp"}
    BY DEF OpOf
  <2>4. Out(c) /\ \A d \in Calls \ {c} : Out(d)' <=> Out(d)
    BY <2>1 DEF Out
  <2>5. ~abandoned
    BY <1>4, <2>1
  <2>6. \A d \in Calls : Out(d)' => Ours(d)'
    BY <2>1, <2>4, <2>5 DEF UndisturbedInv, Ours
  <2>7. ASSUME NEW d \in Calls, NEW b \in Calls, Out(d)', b > d, Guard(op'[b]) = Guard(op'[d])
        PROVE  phase'[b] = "idle"
    <3>1. Out(d) /\ Guard(op[b]) = Guard(op[d])
      BY <2>2, <2>4, <2>7
    <3>2. phase[b] = "idle" /\ b # c
      BY <2>1, <2>5, <2>7, <3>1 DEF UndisturbedInv
    <3> QED
      BY <2>1, <3>2
  <2>8. \A k \in Slots : slot[k] # NoToken =>
          \A d \in Calls : (op'[d] = OpOf(k) /\ gave[d] = "token") => d <= slot[k] \/ Out(d)'
    BY <2>1, <2>3, <2>4, <2>5 DEF UndisturbedInv
  <2> QED
    BY <2>1, <2>6, <2>7, <2>8 DEF UndisturbedInv
<1>5. ASSUME NEW p \in Pages, Shown(p), ~abandoned'
      PROVE  UndisturbedInv'
  <2>1. UNCHANGED callVars /\ ~abandoned /\ \A c \in Calls : ~(Out(c) /\ Ours(c))
    BY <1>5 DEF Shown, Leave, TypeOK
  <2>2. \A k \in Slots : slot'[k] \in {slot[k], NoToken}
    BY <1>5 DEF Shown, Show, TypeOK
  <2>3. \A c \in Calls : ~Out(c)
    BY <2>1 DEF UndisturbedInv
  <2> QED
    BY <2>1, <2>2, <2>3 DEF UndisturbedInv, Out, callVars
<1>6. ASSUME NEW p \in Pages, Reload(p)
      PROVE  UndisturbedInv'
  <2>1. \A c \in Calls : ~Out(c)'
    BY <1>6 DEF Reload, Out, TypeOK
  <2>2. \A k \in Slots : slot'[k] = NoToken
    BY <1>6 DEF Reload, Slots
  <2> QED
    BY <2>1, <2>2 DEF UndisturbedInv
<1>7. ASSUME Cooldown \/ Minor
      PROVE  UndisturbedInv'
  BY <1>7 DEF Cooldown, Minor, callVars, UndisturbedInv, Out, Ours
<1>8. abandoned' => UndisturbedInv'
  BY DEF UndisturbedInv
<1> QED
  BY <1>1, <1>2, <1>3, <1>4, <1>5, <1>6, <1>7, <1>8, StepSorts

(* The proof a page shows stays the newest of its kind: a request that     *)
(* could bring a newer one belongs to a page that is gone.                 *)
LEMMA NewestTokenPreserved ==
  ASSUME TypeOK, CallInv, UndisturbedInv, UndisturbedTokenIsNewest, [Next]_vars
  PROVE  UndisturbedTokenIsNewest'
<1>1. ASSUME UNCHANGED <<page, held>>, abandoned => abandoned',
             \A c \in Calls : gave'[c] = "token" => gave[c] = "token" /\ op[c] = op'[c]
      PROVE  UndisturbedTokenIsNewest'
  BY <1>1 DEF UndisturbedTokenIsNewest
<1>2. ASSUME NEW c \in Calls, NEW what \in Ops, NEW e \in Addresses, Submitted(c, what, e)
      PROVE  UndisturbedTokenIsNewest'
  <2>1. /\ UNCHANGED <<page, held, abandoned, gave>>
        /\ \A d \in Calls : gave[d] = "token" => op'[d] = op[d]
    BY <1>2 DEF Submitted, Submit, Stay, CallInv, TypeOK
  <2> QED
    BY <2>1, <1>1
<1>3. ASSUME NEW c \in Calls, Accepted(c) \/ Rejected(c)
      PROVE  UndisturbedTokenIsNewest'
  <2>1. /\ UNCHANGED <<page, held, abandoned, op>>
        /\ \A d \in Calls : gave'[d] = "token" => gave[d] = "token"
    BY <1>3 DEF Accepted, Rejected, tabVars, TypeOK
  <2> QED
    BY <2>1, <1>1
<1>4. ASSUME NEW c \in Calls, Proved(c), ~abandoned', held' # NoToken
      PROVE  FALSE
  <2>1. Out(c) /\ ~abandoned /\ held # NoToken /\ op[c] \in {"login", "verifyOtp"}
    BY <1>4 DEF Proved, Out, tabVars
  <2>2. Ours(c) /\ phase[c] # "idle"
    BY <2>1 DEF UndisturbedInv, Out
  <2>3. page = PageOf(op[c]) /\ ReadsSlot(page)
    BY <2>1, <2>2 DEF CallInv, TypeOK
  <2> QED
    BY <2>1, <2>3 DEF PageOf, ReadsSlot
<1>5. ASSUME NEW c \in Calls, Finished(c) \/ ChallengePassed(c) \/ ResendDone(c)
      PROVE  UndisturbedTokenIsNewest'
  <2>1. UNCHANGED <<page, held, abandoned, gave>>
    BY <1>5 DEF Finished, Finish, ChallengePassed, ResendDone, tabVars
  <2>2. Finished(c) \/ ResendDone(c) => op' = op
    BY DEF Finished, Finish, ResendDone
  <2>3. ChallengePassed(c) => op' = [op EXCEPT ![c] = "me"] /\ op[c] = "challenge"
    BY DEF ChallengePassed
  <2>4. Source(page) \in {"login", "verifyOtp"}
    BY DEF Source
  <2>5. \A d \in Calls : op'[d] = Source(page) => op[d] = Source(page)
    BY <1>5, <2>2, <2>3, <2>4 DEF TypeOK
  <2> QED
    BY <2>1, <2>5 DEF UndisturbedTokenIsNewest
<1>6. ASSUME NEW p \in Pages, Shown(p), ~abandoned', held' # NoToken
      PROVE  UndisturbedTokenIsNewest'
  <2>1. UNCHANGED callVars /\ ~abandoned /\ \A c \in Calls : ~(Out(c) /\ Ours(c))
    BY <1>6 DEF Shown, Leave, TypeOK
  <2>2. \A c \in Calls : ~Out(c)
    BY <2>1 DEF UndisturbedInv
  <2>3. page' = p /\ ReadsSlot(p) /\ held' = slot[SlotOf(p)]
    BY <1>6 DEF Shown, Show, Fresh
  <2>4. Source(p) = OpOf(SlotOf(p)) /\ SlotOf(p) \in Slots
    BY <2>3 DEF Source, OpOf, SlotOf, ReadsSlot, Slots
  <2>5. \A c \in Calls : (op[c] = Source(p) /\ gave[c] = "token") => c <= held'
    BY <1>6, <2>1, <2>2, <2>3, <2>4 DEF UndisturbedInv
  <2> QED
    BY <2>1, <2>3, <2>5 DEF UndisturbedTokenIsNewest, callVars
<1>7. ASSUME NEW p \in Pages, Reload(p)
      PROVE  held' = NoToken
  BY <1>7 DEF Reload
<1>8. Cooldown \/ Minor => UndisturbedTokenIsNewest'
  BY <1>1 DEF Cooldown, Minor, callVars
<1>9. abandoned' \/ held' = NoToken => UndisturbedTokenIsNewest'
  BY DEF UndisturbedTokenIsNewest
<1> QED
  BY <1>2, <1>3, <1>4, <1>5, <1>6, <1>7, <1>8, <1>9, StepSorts DEF Server

(* The cookies stay those of the latest request that signed in: an answer  *)
(* that signs in comes while no later request of its guard was made, and   *)
(* the requests of one page that sign in share their guard.                *)
LEMMA NewestSessionPreserved ==
  ASSUME TypeOK, CallInv, TokenInv, UndisturbedInv, UndisturbedSessionIsNewest, [Next]_vars
  PROVE  UndisturbedSessionIsNewest'
<1> USE DEF Calls
<1>1. ASSUME NEW c \in Calls, Accepted(c), ~abandoned', SignsIn(op[c])
      PROVE  UndisturbedSessionIsNewest'
  <2>1. /\ Out(c) /\ ~abandoned /\ signedIn' = c
        /\ gave' = [gave EXCEPT ![c] = "session"]
    BY <1>1 DEF Accepted, Out
  <2>2. Ours(c) /\ phase[c] # "idle"
    BY <2>1 DEF UndisturbedInv, Out
  <2>3. ASSUME NEW d \in Calls, gave[d] = "session", d > c
        PROVE  FALSE
    <3>1. phase[d] # "idle" /\ op[d] \in {"login", "register", "challenge", "me", "accept"}
      BY <2>3 DEF CallInv, TokenInv
    <3>2. from[c] <= from[d] /\ from[d] \in 1 .. mount
      BY <2>3, <3>1, MaxCallsAssumption DEF CallInv
    <3>3. Ours(d)
      BY <2>2, <3>2 DEF Ours, TypeOK, Mounts
    <3>4. PageOf(op[d]) = PageOf(op[c])
      BY <2>2, <3>1, <3>3 DEF CallInv
    <3>5. Guard(op[d]) = Guard(op[c])
      BY <1>1, <3>1, <3>4 DEF PageOf, Guard, SignsIn
    <3> QED
      BY <2>1, <2>3, <3>1, <3>5 DEF UndisturbedInv
  <2>4. \A d \in Calls : gave'[d] = "session" => d <= c
    BY <2>1, <2>3, MaxCallsAssumption DEF TypeOK
  <2> QED
    BY <2>1, <2>4 DEF UndisturbedSessionIsNewest
<1>2. ASSUME signedIn' = signedIn, abandoned => abandoned',
             \A c \in Calls : gave'[c] = "session" => gave[c] = "session"
      PROVE  UndisturbedSessionIsNewest'
  BY <1>2 DEF UndisturbedSessionIsNewest
<1>3. ASSUME NEW c \in Calls, NEW what \in Ops, NEW e \in Addresses, Submitted(c, what, e)
      PROVE  UndisturbedSessionIsNewest'
  BY <1>2, <1>3 DEF Submitted, Submit, Stay
<1>4. ASSUME NEW c \in Calls, Accepted(c), ~SignsIn(op[c])
      PROVE  UndisturbedSessionIsNewest'
  <2>1. UNCHANGED <<signedIn, abandoned>> /\ \A d \in Calls : gave'[d] = gave[d]
    BY <1>4 DEF Accepted, TypeOK
  <2> QED
    BY <2>1, <1>2
<1>5. ASSUME NEW c \in Calls, Proved(c) \/ Rejected(c)
      PROVE  UndisturbedSessionIsNewest'
  <2>1. UNCHANGED <<signedIn, abandoned>> /\ \A d \in Calls : gave'[d] = "session" => gave[d] = "session"
    BY <1>5 DEF Proved, Rejected, TypeOK
  <2> QED
    BY <2>1, <1>2
<1>6. ASSUME NEW c \in Calls, Finished(c) \/ ChallengePassed(c) \/ ResendDone(c)
      PROVE  UndisturbedSessionIsNewest'
  BY <1>2, <1>6 DEF Finished, Finish, ChallengePassed, ResendDone
<1>7. ASSUME NEW p \in Pages, Shown(p)
      PROVE  UndisturbedSessionIsNewest'
  <2>1. UNCHANGED <<callVars, signedIn>> /\ (abandoned => abandoned')
    BY <1>7 DEF Shown, Leave
  <2> QED
    BY <2>1, <1>2 DEF callVars
<1>8. ASSUME NEW p \in Pages, Reload(p)
      PROVE  UndisturbedSessionIsNewest'
  BY <1>2, <1>8 DEF Reload
<1>9. Cooldown \/ Minor => UndisturbedSessionIsNewest'
  BY <1>2 DEF Cooldown, Minor, callVars
<1>10. abandoned' => UndisturbedSessionIsNewest'
  BY DEF UndisturbedSessionIsNewest
<1> QED
  BY <1>1, <1>3, <1>4, <1>5, <1>6, <1>7, <1>8, <1>9, <1>10, StepSorts DEF Server

-----------------------------------------------------------------------------
(* The tab opens on a page with nothing pending.                           *)
LEMMA InitInductive == Init => IndInv
<1> SUFFICES ASSUME Init PROVE IndInv
  OBVIOUS
<1>1. TypeOK
  <2>1. mount \in Mounts
    BY MaxMountsAssumption DEF Init, Mounts
  <2>2. slot \in [Slots -> Tokens]
    BY DEF Init, Slots, Tokens
  <2>3. /\ op \in [Calls -> Ops \cup {"none"}]
        /\ phase \in [Calls -> {"idle", "sent", "ok", "token", "refused", "lost", "done"}]
        /\ from \in [Calls -> Mounts \cup {0}]
        /\ who \in [Calls -> Emails \cup {NoEmail}]
        /\ gave \in [Calls -> {"nothing", "session", "token"}]
    BY DEF Init
  <2> QED
    BY <2>1, <2>2, <2>3 DEF Init, TypeOK, Pages, Tokens
<1>2. CallInv /\ CooldownInv /\ GuardIsOwn
  BY DEF Init, CallInv, CooldownInv, GuardIsOwn, Holds, Out
<1>3. OneUseToken /\ TokenInv
  BY DEF Init, OneUseToken, TokenInv, Slots
<1>4. UndisturbedTokenIsNewest /\ UndisturbedSessionIsNewest
  BY DEF Init, UndisturbedTokenIsNewest, UndisturbedSessionIsNewest
<1>5. UndisturbedInv
  BY DEF Init, UndisturbedInv, Out, Slots
<1> QED
  BY <1>1, <1>2, <1>3, <1>4, <1>5 DEF IndInv

(* Every step of the tab, the network and the engine keeps it.             *)
LEMMA StepInductive == IndInv /\ [Next]_vars => IndInv'
<1> SUFFICES ASSUME IndInv, [Next]_vars PROVE IndInv'
  OBVIOUS
<1>1. TypeOK' /\ CallInv'
  BY TypePreserved, CallPreserved DEF IndInv
<1>2. GuardIsOwn' /\ CooldownInv'
  BY GuardPreserved DEF IndInv
<1>3. OneUseToken' /\ TokenInv'
  BY TokenPreserved, OneUsePreserved DEF IndInv
<1>4. UndisturbedInv'
  BY UndisturbedPreserved DEF IndInv
<1>5. UndisturbedTokenIsNewest' /\ UndisturbedSessionIsNewest'
  BY NewestTokenPreserved, NewestSessionPreserved DEF IndInv
<1> QED
  BY <1>1, <1>2, <1>3, <1>4, <1>5 DEF IndInv

(* The conjunction of the parts above is an invariant of the pages.        *)
THEOREM PagesInductive == Spec => []IndInv
BY InitInductive, StepInductive, PTL DEF Spec

(* Types: a second screen, a proof and a pill only where they belong, even *)
(* with the answers to pages that are gone still coming in.                *)
THEOREM PagesTypeCorrect == Spec => []TypeOK
<1>1. IndInv => TypeOK
  BY DEF IndInv
<1> QED
  BY <1>1, PagesInductive, PTL

(* consumePendingMfaChallenge and consumeResetVerifiedToken give a proof   *)
(* to one mount of a page, whichever answers arrive when.                  *)
THEOREM ProofUsedOnce == Spec => []OneUseToken
<1>1. IndInv => OneUseToken
  BY DEF IndInv
<1> QED
  BY <1>1, PagesInductive, PTL

(* isSubmitting, isVerifyingRef and resendDisabledRef are taken exactly    *)
(* while a request of this very page (or its cooldown) holds them.         *)
THEOREM GuardHeldByOwn == Spec => []GuardIsOwn
<1>1. IndInv => GuardIsOwn
  BY DEF IndInv
<1> QED
  BY <1>1, PagesInductive, PTL

(* Without a page left while its request was out, the challenge and the    *)
(* reset are for the newest proof of their kind.                           *)
THEOREM HeldTokenIsNewest == Spec => []UndisturbedTokenIsNewest
<1>1. IndInv => UndisturbedTokenIsNewest
  BY DEF IndInv
<1> QED
  BY <1>1, PagesInductive, PTL

(* Under the same condition the cookies are the newest session's.          *)
THEOREM SessionIsNewest == Spec => []UndisturbedSessionIsNewest
<1>1. IndInv => UndisturbedSessionIsNewest
  BY DEF IndInv
<1> QED
  BY <1>1, PagesInductive, PTL
=============================================================================
