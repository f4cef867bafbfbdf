--------------------------- MODULE PlatformConsole ---------------------------
(***************************************************************************)
(* One browser tab on the platform console: the edge gate (apps/web/       *)
(* proxy.ts), the second gate in the protected layout, the login page with *)
(* its segmented code input, the Sessions and Users pages, the shell's     *)
(* sign-out, and the one fetch that serves all of them and refreshes an    *)
(* expired access token (apps/web/lib/platform-client.ts).  The Security   *)
(* page's panel is MfaPanel; here it is the page a sign-in lands on.       *)
(*                                                                         *)
(* Dashboard and platform tokens share one access cookie, which expires,   *)
(* and which a dashboard sign-in in another tab overwrites.  Requests are  *)
(* served and answered in any order while the admin navigates; an answer   *)
(* to a page that is gone sets no state but still navigates.               *)
(***************************************************************************)
EXTENDS Naturals, Sequences, FiniteSets

CONSTANTS
  Digits,      \* what can be typed in a cell, without 0, which is an empty one
  Length,      \* cells of the code input
  Destinations,\* the pages the tab may be opened on
  MaxCalls     \* bounds the calls the tab makes

ASSUME ConsoleAssumption ==
  /\ Digits \subseteq Nat \ {0} /\ Length \in Nat \ {0} /\ MaxCalls \in Nat
  /\ Destinations \subseteq {"security", "sessions", "users", "login", "dashboard"}

VARIABLES
  route,       \* the page on screen
  reason,      \* the login page's ?reason
  nav,         \* the navigation under way: its target and how far it got
  errorCode,   \* whether the page on screen shows an error
  isSubmitting, mfaTempToken, pendingMfaCode, isMfaSubmitting,  \* the login form
  values,      \* the cells of its code input
  state,       \* the Sessions page: loading, error or ready
  revoking,    \* and its bulk revoke in flight
  calls,       \* the calls not answered yet
  sent,        \* calls so far
  refreshing,  \* the one refresh in flight
  cookie,      \* whose access token the jar holds, none when absent or expired
  session,     \* whether the platform refresh cookie's session is alive
  known        \* whether this browser ever held a platform token

loginVars == <<isSubmitting, mfaTempToken, pendingMfaCode, isMfaSubmitting, values>>
pageVars  == <<errorCode, loginVars, state, revoking>>
callVars  == <<calls, sent, refreshing>>
jarVars   == <<cookie, session, known>>
vars == <<route, reason, nav, pageVars, callVars, jarVars>>

Protected == {"security", "sessions", "users"}
Routes == Protected \cup {"blank", "login", "dashboard", "dashboardLogin", "failed"}

Blank == [i \in 1..Length |-> 0]
NoNav == [to |-> "none", at |-> "none", domain |-> "none"]

-----------------------------------------------------------------------------
(* What a page offers.                                                     *)
ShellOffers ==
  CASE route \in Protected  -> {"signOut"} \cup Protected
    [] route = "dashboard"  -> {"users"}
    [] OTHER                -> {}

LoginOffers ==
  IF route # "login" THEN {}
  ELSE IF ~mfaTempToken THEN (IF isSubmitting THEN {} ELSE {"submit"})
  ELSE {"cells", "back"} \cup
         (IF isMfaSubmitting \/ pendingMfaCode = <<>> THEN {} ELSE {"verify"})

SessionsOffers ==
  IF route = "sessions" /\ state = "ready" /\ ~revoking THEN {"revokeAll"} ELSE {}

-----------------------------------------------------------------------------
(* A call remembers whether the page that made it is still mounted and     *)
(* whether it was replayed.                                                *)
Call(op) == [id |-> sent + 1, op |-> op, mine |-> TRUE, replay |-> FALSE, at |-> "sent"]

Send(op) ==
  /\ sent < MaxCalls
  /\ sent' = sent + 1
  /\ calls' = calls \cup {Call(op)}
  /\ UNCHANGED <<refreshing, jarVars>>

Orphaned == {[c EXCEPT !.mine = FALSE] : c \in calls}

-----------------------------------------------------------------------------
(* A navigation, by a shell's link or router.push (a page load is a new    *)
(* start).                                                                 *)
Towards(to) == [to |-> to, at |-> "edge", domain |-> "none"]

Visit(to) ==
  /\ to \in ShellOffers
  /\ nav' = Towards(to)
  /\ UNCHANGED <<route, reason, pageVars, callVars, jarVars>>

(* Another page mounts, with its initial state, and what awaited the calls *)
(* of the one before is gone.                                              *)
Mount(page) ==
  /\ route' = page
  /\ errorCode' = FALSE /\ state' = "loading" /\ revoking' = FALSE
  /\ isSubmitting' = FALSE /\ mfaTempToken' = FALSE
  /\ pendingMfaCode' = <<>> /\ isMfaSubmitting' = FALSE /\ values' = Blank
  /\ UNCHANGED <<refreshing, jarVars>>

(* The login page keeps its state when it is redirected to itself.         *)
ToLogin(page, why) ==
  /\ nav' = NoNav /\ reason' = why
  /\ IF route = page THEN UNCHANGED <<route, pageVars, callVars, jarVars>>
     ELSE Mount(page) /\ calls' = Orphaned /\ UNCHANGED sent

(* The Sessions page asks who is signed in as it mounts.                   *)
Arrive ==
  /\ nav' = NoNav /\ reason' = "none"
  /\ IF nav.to = route THEN UNCHANGED <<route, pageVars, callVars, jarVars>>
     ELSE /\ Mount(nav.to)
          /\ IF nav.to = "sessions"
             THEN /\ sent < MaxCalls
                  /\ sent' = sent + 1
                  /\ calls' = Orphaned \cup {Call("me")}
             ELSE calls' = Orphaned /\ UNCHANGED sent

Reaches(stage) == nav' = [nav EXCEPT !.at = stage, !.domain = cookie]
                  /\ UNCHANGED <<route, reason, pageVars, callVars, jarVars>>

(* The tree's layout is kept while the shell's links stay in the tree.     *)
Beyond == IF nav.to \in Protected /\ route \notin Protected THEN "layout" ELSE "page"

(* A variant: the gate lets a request without a verified token through to  *)
(* the layout.                                                             *)
EdgeGateOpen ==
  LET tree  == IF nav.to = "dashboard" THEN "dashboard" ELSE "platform"
      login == IF nav.to = "dashboard" THEN "dashboardLogin" ELSE "login"
  IN  /\ nav.at = "edge"
      /\ IF nav.to \notin Protected \cup {"dashboard"} THEN Reaches("page")
         ELSE IF cookie \notin {"none", tree} THEN ToLogin(login, "wrong-domain")
         ELSE Reaches(Beyond)

(* proxy: an unverified session is sent to its tree's login without a word,*)
(* a token of the other domain with a reason; login pages are not gated.   *)
EdgeGate ==
  LET tree  == IF nav.to = "dashboard" THEN "dashboard" ELSE "platform"
      login == IF nav.to = "dashboard" THEN "dashboardLogin" ELSE "login"
  IN  /\ nav.at = "edge"
      /\ IF nav.to \notin Protected \cup {"dashboard"} THEN Reaches("page")
         ELSE IF cookie = "none" THEN ToLogin(login, "none")
         ELSE IF cookie # tree THEN ToLogin(login, "wrong-domain")
         ELSE Reaches(Beyond)

(* The layout, which renders only when the tree is entered: it decodes the *)
(* cookie the gate saw, which may have lapsed since.                       *)
Layout(lapsed) ==
  /\ nav.at = "layout"
  /\ IF lapsed THEN ToLogin("login", "session-expired")
     ELSE IF nav.domain # "platform" THEN ToLogin("login", "wrong-domain")
     ELSE /\ nav' = [nav EXCEPT !.at = "page"]
          /\ UNCHANGED <<route, reason, pageVars, callVars, jarVars>>

(* The Users page is rendered from the API's answer; the others at once.   *)
Render(answer) ==
  /\ nav.at = "page"
  /\ CASE nav.to # "users" -> Arrive
       [] nav.to = "users" /\ answer = 401 -> ToLogin("login", "session-expired")
       [] nav.to = "users" /\ answer = 200 -> Arrive
       [] OTHER -> /\ nav' = NoNav /\ route' = "failed"
                   /\ calls' = Orphaned
                   /\ UNCHANGED <<reason, pageVars, sent, refreshing, jarVars>>

-----------------------------------------------------------------------------
(* The login form.                                                         *)
OnLogin ==
  /\ "submit" \in LoginOffers
  /\ Send("login")
  /\ errorCode' = FALSE /\ isSubmitting' = TRUE
  /\ UNCHANGED <<route, reason, nav, mfaTempToken, pendingMfaCode, isMfaSubmitting, values, state,
                 revoking>>

OnMfaSubmit ==
  /\ "verify" \in LoginOffers
  /\ Send("challenge")
  /\ errorCode' = FALSE /\ isMfaSubmitting' = TRUE
  /\ UNCHANGED <<route, reason, nav, isSubmitting, mfaTempToken, pendingMfaCode, values, state,
                 revoking>>

(* A variant: going back also frees the Verify button.                     *)
BackFrees ==
  /\ "back" \in LoginOffers
  /\ mfaTempToken' = FALSE /\ pendingMfaCode' = <<>> /\ errorCode' = FALSE /\ values' = Blank
  /\ isMfaSubmitting' = FALSE
  /\ UNCHANGED <<route, reason, nav, isSubmitting, state, revoking, callVars, jarVars>>

(* "Back to sign in", which unmounts the cells; a challenge in flight goes *)
(* on, and keeps the Verify button of the next step disabled.              *)
Back ==
  /\ "back" \in LoginOffers
  /\ mfaTempToken' = FALSE /\ pendingMfaCode' = <<>> /\ errorCode' = FALSE /\ values' = Blank
  /\ UNCHANGED <<route, reason, nav, isSubmitting, isMfaSubmitting, state, revoking, callVars,
                 jarVars>>

-----------------------------------------------------------------------------
(* The code input.  A change or a paste that leaves every cell filled      *)
(* hands the code to the form; clearing a cell never takes it back.        *)
FormAround == <<route, reason, nav, errorCode, isSubmitting, mfaTempToken, isMfaSubmitting, state,
                revoking, callVars, jarVars>>

Complete(cells) == \A i \in DOMAIN cells : cells[i] # 0

NotifyIfComplete(next) ==
  pendingMfaCode' = IF Complete(next) THEN next ELSE pendingMfaCode

(* A variant: the code is read from the state of before the change.        *)
HandleChangeLate(i, digit) ==
  /\ "cells" \in LoginOffers
  /\ values' = [values EXCEPT ![i] = digit]
  /\ NotifyIfComplete(values)
  /\ UNCHANGED FormAround

HandleChange(i, digit) ==
  /\ "cells" \in LoginOffers
  /\ values' = [values EXCEPT ![i] = digit]
  /\ NotifyIfComplete(values')
  /\ UNCHANGED FormAround

(* Backspace clears the cell, or the one before an empty cell.             *)
HandleBackspace(i) ==
  /\ "cells" \in LoginOffers
  /\ values' = [values EXCEPT ![IF values[i] = 0 /\ i > 1 THEN i - 1 ELSE i] = 0]
  /\ UNCHANGED <<pendingMfaCode, FormAround>>

(* A paste fills from the first cell on, and empties the others.           *)
HandlePaste(chars) ==
  /\ "cells" \in LoginOffers
  /\ values' = [i \in 1..Length |-> IF i \in DOMAIN chars THEN chars[i] ELSE 0]
  /\ NotifyIfComplete(values')
  /\ UNCHANGED FormAround

-----------------------------------------------------------------------------
(* The Sessions page's bulk revoke and the shell's sign-out, which nothing *)
(* keeps from being clicked again.                                         *)
HandleRevokeAll ==
  /\ "revokeAll" \in SessionsOffers
  /\ Send("revokeAll")
  /\ revoking' = TRUE /\ errorCode' = FALSE
  /\ UNCHANGED <<route, reason, nav, loginVars, state>>

HandleSignOut ==
  /\ "signOut" \in ShellOffers
  /\ Send("logout")
  /\ UNCHANGED <<route, reason, nav, pageVars>>

-----------------------------------------------------------------------------
(* The platform API.  Whatever it does to the jar it does when it answers. *)
Becomes(c, at) == calls' = (calls \ {c}) \cup {[c EXCEPT !.at = at]}

Serve(c, at, jar, alive) ==
  /\ c.at = "sent"
  /\ Becomes(c, at)
  /\ cookie' = jar /\ session' = alive
  /\ known' = (known \/ jar = "platform")
  /\ UNCHANGED <<route, reason, nav, pageVars, sent, refreshing>>

ServeLogin(c, mfa) ==
  /\ c.op = "login"
  /\ IF mfa THEN Serve(c, "mfaRequired", cookie, session)
            ELSE Serve(c, "ok", "platform", TRUE)
ServeChallenge(c) == c.op = "challenge" /\ Serve(c, "ok", "platform", TRUE)
ServeMe(c) == c.op = "me" /\ cookie = "platform" /\ Serve(c, "ok", cookie, session)
ServeLogout(c) == c.op = "logout" /\ cookie = "platform" /\ Serve(c, "ok", "none", FALSE)
ServeRevokeAll(c) == c.op = "revokeAll" /\ cookie = "platform" /\ Serve(c, "ok", cookie, FALSE)
Unauthorized(c) == Serve(c, "unauthorized", cookie, session)
Refused(c) == Serve(c, "refused", cookie, session)

(* A dashboard sign-in in another tab, and time.                           *)
Elsewhere ==
  /\ cookie' \in {"dashboard", "none"} /\ cookie' # cookie
  /\ UNCHANGED <<route, reason, nav, pageVars, callVars, session, known>>

-----------------------------------------------------------------------------
(* The single-flight fetch: a first 401 joins the refresh in flight or     *)
(* starts one, and a second is the answer.                                 *)
Waiting == {c \in calls : c.at = "waiting"}

Meet401(c) ==
  /\ c.at = "unauthorized"
  /\ IF c.replay THEN Becomes(c, "refused") /\ UNCHANGED refreshing
                 ELSE Becomes(c, "waiting") /\ refreshing' = TRUE
  /\ UNCHANGED <<route, reason, nav, pageVars, sent, jarVars>>

(* The refresh relays fresh cookies and every waiting call is replayed, or *)
(* it fails and the 401 is the answer of all.                              *)
Refreshed(ok) ==
  /\ refreshing /\ refreshing' = FALSE
  /\ ok => session
  /\ calls' = (calls \ Waiting) \cup
       {[c EXCEPT !.at = IF ok THEN "sent" ELSE "refused", !.replay = TRUE] : c \in Waiting}
  /\ cookie' = IF ok THEN "platform" ELSE cookie
  /\ known' = (known \/ ok)
  /\ UNCHANGED <<route, reason, nav, pageVars, sent, session>>

-----------------------------------------------------------------------------
(* The handlers past their awaits.  State is set only while the page is    *)
(* mounted; router.push goes on without it.                                *)
Answered(c, op, at) ==
  /\ c.op = op /\ c.at = at
  /\ calls' = calls \ {c}
  /\ UNCHANGED <<route, reason, sent, refreshing, jarVars>>

Push(to) == nav' = Towards(to)

LoginAnswered(c) ==
  /\ \/ /\ Answered(c, "login", "ok")
        /\ Push("security")
        /\ UNCHANGED <<mfaTempToken, errorCode>>
     \/ /\ Answered(c, "login", "mfaRequired")
        /\ mfaTempToken' = (mfaTempToken \/ c.mine)
        /\ UNCHANGED <<nav, errorCode>>
     \/ /\ Answered(c, "login", "refused")
        /\ errorCode' = (errorCode \/ c.mine)
        /\ UNCHANGED <<nav, mfaTempToken>>
  /\ isSubmitting' = (isSubmitting /\ ~c.mine)
  /\ UNCHANGED <<pendingMfaCode, isMfaSubmitting, values, state, revoking>>

ChallengeAnswered(c) ==
  /\ \/ /\ Answered(c, "challenge", "ok")
        /\ Push("security")
        /\ UNCHANGED errorCode
     \/ /\ Answered(c, "challenge", "refused")
        /\ errorCode' = (errorCode \/ c.mine)
        /\ UNCHANGED nav
  /\ isMfaSubmitting' = (isMfaSubmitting /\ ~c.mine)
  /\ UNCHANGED <<isSubmitting, mfaTempToken, pendingMfaCode, values, state, revoking>>

(* A variant: a profile that cannot be read leaves the page loading.       *)
MeAnsweredUncaught(c) ==
  /\ Answered(c, "me", "ok") \/ Answered(c, "me", "refused")
  /\ state' = IF c.mine /\ route = "sessions" /\ c.at = "ok" THEN "ready" ELSE state
  /\ UNCHANGED <<nav, errorCode, loginVars, revoking>>

MeAnswered(c) ==
  /\ Answered(c, "me", "ok") \/ Answered(c, "me", "refused")
  /\ state' = IF ~c.mine \/ route # "sessions" THEN state
              ELSE IF c.at = "ok" THEN "ready" ELSE "error"
  /\ UNCHANGED <<nav, errorCode, loginVars, revoking>>

RevokeAllAnswered(c) ==
  /\ \/ /\ Answered(c, "revokeAll", "ok")
        /\ Push("login")
        /\ UNCHANGED errorCode
     \/ /\ Answered(c, "revokeAll", "refused")
        /\ errorCode' = (errorCode \/ c.mine)
        /\ UNCHANGED nav
  /\ revoking' = (revoking /\ ~c.mine)
  /\ UNCHANGED <<loginVars, state>>

(* Signing out goes to the login page whether or not it worked.            *)
LogoutAnswered(c) ==
  /\ Answered(c, "logout", "ok") \/ Answered(c, "logout", "refused")
  /\ Push("login")
  /\ UNCHANGED pageVars

-----------------------------------------------------------------------------
Init ==
  /\ route = "blank" /\ reason = "none" /\ errorCode = FALSE
  /\ \E to \in Destinations : nav = Towards(to)
  /\ isSubmitting = FALSE /\ mfaTempToken = FALSE /\ pendingMfaCode = <<>>
  /\ isMfaSubmitting = FALSE /\ values = Blank
  /\ state = "loading" /\ revoking = FALSE
  /\ calls = {} /\ sent = 0 /\ refreshing = FALSE
  /\ cookie \in {"none", "dashboard", "platform"} /\ session \in BOOLEAN
  /\ known = (session \/ cookie = "platform")

Typing ==
  \/ \E i \in 1..Length : HandleBackspace(i) \/ \E d \in Digits \cup {0} : HandleChange(i, d)
  \/ \E chars \in UNION {[1..n -> Digits] : n \in 0..Length} : HandlePaste(chars)

Admin ==
  \/ \E to \in Protected : Visit(to)
  \/ OnLogin \/ OnMfaSubmit \/ Back \/ Typing \/ HandleRevokeAll \/ HandleSignOut

Navigate ==
  \/ EdgeGate
  \/ \E lapsed \in BOOLEAN : Layout(lapsed)
  \/ \E answer \in {200, 401, 500} : Render(answer)

Server ==
  \/ \E c \in calls :
       \/ \E mfa \in BOOLEAN : ServeLogin(c, mfa)
       \/ ServeChallenge(c) \/ ServeMe(c) \/ ServeLogout(c) \/ ServeRevokeAll(c)
       \/ Unauthorized(c) \/ Refused(c)
  \/ \E ok \in BOOLEAN : Refreshed(ok)

Client ==
  \E c \in calls :
    \/ Meet401(c) \/ MeAnswered(c) \/ LogoutAnswered(c)
    \/ LoginAnswered(c) \/ ChallengeAnswered(c) \/ RevokeAllAnswered(c)

Next == Admin \/ Navigate \/ Server \/ Client \/ Elsewhere

Spec == Init /\ [][Next]_vars
-----------------------------------------------------------------------------
CallType == [id : 1..MaxCalls, op : {"me", "login", "challenge", "revokeAll", "logout"},
             mine : BOOLEAN, replay : BOOLEAN,
             at : {"sent", "ok", "mfaRequired", "refused", "unauthorized", "waiting"}]

(* Every variable keeps its type, and the Sessions page says it is loading *)
(* just while its own question is out.                                     *)
TypeOK ==
  /\ route \in Routes /\ reason \in {"none", "session-expired", "wrong-domain"}
  /\ nav \in [to : Routes \cup {"none"}, at : {"none", "edge", "layout", "page"},
              domain : {"none", "dashboard", "platform"}]
  /\ errorCode \in BOOLEAN
  /\ isSubmitting \in BOOLEAN /\ mfaTempToken \in BOOLEAN /\ isMfaSubmitting \in BOOLEAN
  /\ pendingMfaCode \in {<<>>} \cup [1..Length -> Digits]
  /\ values \in [1..Length -> Digits \cup {0}]
  /\ state \in {"loading", "error", "ready"} /\ revoking \in BOOLEAN
  /\ calls \subseteq CallType /\ sent \in 0..MaxCalls /\ refreshing \in BOOLEAN
  /\ cookie \in {"none", "dashboard", "platform"}
  /\ session \in BOOLEAN /\ known \in BOOLEAN
  /\ route = "sessions" => (state = "loading" <=> \E c \in calls : c.mine /\ c.op = "me")

(* A code that fills the cells is the one the Verify button submits, over  *)
(* whatever code was handed up before it, and no code outlives the         *)
(* challenge it was typed for.                                             *)
ShownCodeIsPending ==
  /\ route = "login" /\ mfaTempToken /\ Complete(values) => pendingMfaCode = values
  /\ ~mfaTempToken => pendingMfaCode = <<>>

(* Only a browser that held a platform token is told its session expired,  *)
(* though neither the layout nor the Users page can tell by itself.        *)
ExpiredOnlyAfterSession == reason = "session-expired" => known

(* A button is busy exactly while a request of the page on screen is out,  *)
(* one of a kind at most: it is freed by every answer, and only by its     *)
(* own, over the early return that asks for a code, Back with a challenge  *)
(* out, and answers to a page that was left.                               *)
Out(op) == \E c \in calls : c.mine /\ c.op = op

BusyIsExact ==
  /\ route = "login" => (isSubmitting <=> Out("login")) /\ (isMfaSubmitting <=> Out("challenge"))
  /\ route = "sessions" => (revoking <=> Out("revokeAll"))
  /\ \A c, d \in calls : c.mine /\ d.mine /\ c.op = d.op /\ c.op # "logout" => c = d

=============================================================================
