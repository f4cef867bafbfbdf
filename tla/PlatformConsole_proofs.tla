------------------------ MODULE PlatformConsole_proofs ------------------------
(***************************************************************************)
(* Proofs about PlatformConsole for any digits, any number of cells and of *)
(* calls: its types, that the code on screen is the one that is submitted, *)
(* that nobody is told of a session that was never there, and that the     *)
(* buttons are busy exactly while their requests are out.                  *)
(***************************************************************************)
EXTENDS PlatformConsole, TLAPS

Ops == {"me", "login", "challenge", "revokeAll", "logout"}
Ats == {"sent", "ok", "mfaRequired", "refused", "unauthorized", "waiting"}
Domains == {"none", "dashboard", "platform"}
Reasons == {"none", "session-expired", "wrong-domain"}
NavType == [to : Routes \cup {"none"}, at : {"none", "edge", "layout", "page"}, domain : Domains]

(* The parts of the invariant: what the variables hold, ...                *)
PageInv ==
  /\ route \in Routes /\ reason \in Reasons
  /\ nav \in NavType /\ (nav.at # "none" => nav.to \in Routes)
  /\ errorCode \in BOOLEAN /\ isSubmitting \in BOOLEAN /\ mfaTempToken \in BOOLEAN
  /\ isMfaSubmitting \in BOOLEAN /\ revoking \in BOOLEAN
  /\ state \in {"loading", "error", "ready"}

CallInv ==
  /\ calls \subseteq CallType /\ sent \in Nat /\ sent <= MaxCalls
  /\ refreshing \in BOOLEAN
  /\ cookie \in Domains /\ session \in BOOLEAN /\ known \in BOOLEAN

(* ... that the Sessions page has at most one question out, and says it is *)
(* loading just while it has, ...                                          *)
MineMe(c) == c.mine = TRUE /\ c.op = "me"

MeInv ==
  /\ route = "sessions" => (state = "loading" <=> \E c \in calls : MineMe(c))
  /\ \A c \in calls : MineMe(c) => route = "sessions"
  /\ \A c, d \in calls : MineMe(c) /\ MineMe(d) => c = d

(* ... that a form not shown holds no code, and full cells are handed up,  *)
CodeInv ==
  /\ pendingMfaCode \in {<<>>} \cup [1..Length -> Digits]
  /\ values \in [1..Length -> Digits \cup {0}]
  /\ mfaTempToken = FALSE => values = Blank /\ pendingMfaCode = <<>>
  /\ Complete(values) => pendingMfaCode = values

(* ... and that the gate lets only a platform token through to the places  *)
(* that speak of an expired session.                                       *)
KnownInv ==
  /\ cookie = "platform" => known = TRUE
  /\ nav.at = "layout" => known = TRUE
  /\ nav.at = "page" /\ nav.to = "users" => known = TRUE
  /\ reason = "session-expired" => known = TRUE

IndInv == PageInv /\ CallInv /\ MeInv /\ CodeInv /\ KnownInv

-----------------------------------------------------------------------------
(* The invariant implies the properties.                                   *)
LEMMA InvImplies == IndInv => TypeOK /\ ShownCodeIsPending /\ ExpiredOnlyAfterSession
<1> SUFFICES ASSUME IndInv PROVE TypeOK /\ ShownCodeIsPending /\ ExpiredOnlyAfterSession
  OBVIOUS
<1>1. ShownCodeIsPending /\ ExpiredOnlyAfterSession
  BY DEF IndInv, CodeInv, KnownInv, ShownCodeIsPending, ExpiredOnlyAfterSession
<1>2. sent \in 0..MaxCalls
  BY ConsoleAssumption DEF IndInv, CallInv
<1>3. route = "sessions" => (state = "loading" <=> \E c \in calls : c.mine /\ c.op = "me")
  <2>1. \A c \in calls : c.mine \in BOOLEAN
    BY DEF IndInv, CallInv, CallType
  <2> QED
    BY <2>1, Zenon DEF IndInv, MeInv, MineMe
<1>4. TypeOK
  BY <1>2, <1>3, Zenon DEF IndInv, PageInv, CallInv, CodeInv, Reasons, NavType, Domains, TypeOK
<1> QED
  BY <1>1, <1>4

(* Empty cells are not complete: there is at least one.                    *)
LEMMA BlankIncomplete == Blank \in [1..Length -> Digits \cup {0}] /\ ~Complete(Blank)
BY ConsoleAssumption DEF Blank, Complete

LEMMA InvInit == Init => IndInv
<1> SUFFICES ASSUME Init PROVE IndInv
  OBVIOUS
<1>1. PICK to \in Destinations : nav = Towards(to)
  BY DEF Init
<1>2. to \in Routes /\ nav \in NavType /\ nav.to = to /\ nav.at = "edge"
  BY <1>1, ConsoleAssumption DEF Towards, NavType, Routes, Protected, Domains
<1>3. PageInv
  <2>1. route \in Routes /\ reason \in Reasons /\ state \in {"loading", "error", "ready"}
    BY DEF Init, Routes, Reasons
  <2> QED
    BY <1>2, <2>1 DEF Init, PageInv
<1>4. CallInv
  <2>1. known \in BOOLEAN /\ session \in BOOLEAN /\ refreshing \in BOOLEAN
    BY Zenon DEF Init
  <2>2. calls = {} /\ sent = 0 /\ cookie \in Domains
    BY DEF Init, Domains
  <2> QED
    BY <2>1, <2>2, ConsoleAssumption DEF CallInv
<1>5. MeInv
  BY DEF Init, MeInv
<1>6. CodeInv
  BY BlankIncomplete DEF Init, CodeInv
<1>7. KnownInv
  BY <1>2 DEF Init, KnownInv
<1> QED
  BY <1>3, <1>4, <1>5, <1>6, <1>7 DEF IndInv

-----------------------------------------------------------------------------
(* Steps of the calls.  A call that moves on stays the call it is.         *)
LEMMA BecomesKeeps ==
  ASSUME IndInv, NEW c \in calls, NEW at \in Ats, Becomes(c, at), UNCHANGED <<route, state>>
  PROVE  calls' \subseteq CallType /\ MeInv'
<1> DEFINE next == [c EXCEPT !.at = at]
<1>1. c \in CallType
  BY DEF IndInv, CallInv
<1>2. next \in CallType /\ next.mine = c.mine /\ next.op = c.op
  BY <1>1 DEF CallType, Ats
<1>3. calls' = (calls \ {c}) \cup {next}
  BY DEF Becomes
<1> HIDE DEF next
<1>4. calls' \subseteq CallType
  BY <1>2, <1>3 DEF IndInv, CallInv
<1>5. MineMe(next) <=> MineMe(c)
  BY <1>2 DEF MineMe
<1>6. (\E d \in calls' : MineMe(d)) <=> (\E d \in calls : MineMe(d))
  BY <1>3, <1>5
<1> QED
  BY <1>3, <1>4, <1>5, <1>6 DEF IndInv, MeInv

(* The API serves a call.                                                  *)
LEMMA ServeKeeps ==
  ASSUME IndInv, NEW c \in calls, NEW at \in Ats, NEW jar \in Domains, NEW alive \in BOOLEAN,
         Serve(c, at, jar, alive)
  PROVE  IndInv'
<1>1. /\ UNCHANGED <<route, reason, nav, pageVars, sent, refreshing>>
      /\ Becomes(c, at) /\ cookie' = jar /\ session' = alive
  BY DEF Serve
<1>2. UNCHANGED <<errorCode, isSubmitting, mfaTempToken, pendingMfaCode, isMfaSubmitting, values,
                  state, revoking>>
  BY <1>1 DEF pageVars, loginVars
<1>3. calls' \subseteq CallType /\ MeInv'
  BY <1>1, <1>2, BecomesKeeps
<1>4. known' \in BOOLEAN /\ (known = TRUE \/ jar = "platform" => known' = TRUE)
  BY Zenon DEF Serve, IndInv, CallInv
<1>5. PageInv' /\ CodeInv'
  BY <1>1, <1>2 DEF IndInv, PageInv, CodeInv, Complete
<1>6. CallInv'
  BY <1>1, <1>3, <1>4 DEF IndInv, CallInv
<1>7. KnownInv'
  BY <1>1, <1>4 DEF IndInv, KnownInv
<1> QED
  BY <1>3, <1>5, <1>6, <1>7 DEF IndInv

(* A first 401 waits for the refresh, a second is the answer.              *)
LEMMA Meet401Keeps == ASSUME IndInv, NEW c \in calls, Meet401(c) PROVE IndInv'
<1>1. UNCHANGED <<route, reason, nav, pageVars, sent, jarVars>>
  BY DEF Meet401
<1>2. UNCHANGED <<errorCode, isSubmitting, mfaTempToken, pendingMfaCode, isMfaSubmitting, values,
                  state, revoking, cookie, session, known>>
  BY <1>1 DEF pageVars, loginVars, jarVars
<1>3. PICK at \in Ats : Becomes(c, at) /\ refreshing' \in BOOLEAN
  <2>1. CASE c.replay
    BY <2>1 DEF Meet401, Ats, IndInv, CallInv
  <2>2. CASE ~c.replay
    BY <2>2 DEF Meet401, Ats
  <2> QED
    BY <2>1, <2>2
<1>4. calls' \subseteq CallType /\ MeInv'
  BY <1>1, <1>2, <1>3, BecomesKeeps
<1>5. PageInv' /\ CodeInv' /\ KnownInv'
  BY <1>1, <1>2 DEF IndInv, PageInv, CodeInv, Complete, KnownInv
<1>6. CallInv'
  BY <1>1, <1>2, <1>3, <1>4 DEF IndInv, CallInv
<1> QED
  BY <1>4, <1>5, <1>6 DEF IndInv

(* The refresh resumes all that wait for it.                               *)
LEMMA RefreshedKeeps == ASSUME IndInv, NEW ok \in BOOLEAN, Refreshed(ok) PROVE IndInv'
<1> DEFINE at == IF ok THEN "sent" ELSE "refused"
           Next1(c) == [c EXCEPT !.at = at, !.replay = TRUE]
<1>1. /\ UNCHANGED <<route, reason, nav, pageVars, sent, session>> /\ refreshing' = FALSE
      /\ calls' = (calls \ Waiting) \cup {Next1(c) : c \in Waiting}
      /\ cookie' = IF ok THEN "platform" ELSE cookie
      /\ known' = (known \/ ok)
  BY Zenon DEF Refreshed
<1>2. UNCHANGED <<errorCode, isSubmitting, mfaTempToken, pendingMfaCode, isMfaSubmitting, values,
                  state, revoking>>
  BY <1>1 DEF pageVars, loginVars
<1>3. ASSUME NEW c \in calls PROVE Next1(c) \in CallType /\ (MineMe(Next1(c)) <=> MineMe(c))
  <2>1. c \in CallType
    BY DEF IndInv, CallInv
  <2>2. Next1(c) \in CallType /\ Next1(c).mine = c.mine /\ Next1(c).op = c.op
    BY <2>1 DEF CallType
  <2> QED
    BY <2>2 DEF MineMe
<1> HIDE DEF Next1
<1>4. Waiting \subseteq calls
  BY DEF Waiting
<1>5. calls' \subseteq CallType
  BY <1>1, <1>3, <1>4 DEF IndInv, CallInv
<1>6. MeInv'
  <2>1. (\E d \in calls' : MineMe(d)) <=> (\E d \in calls : MineMe(d))
    BY <1>1, <1>3, <1>4
  <2>2. \A d \in calls' : MineMe(d) => route = "sessions"
    BY <1>1, <1>3, <1>4 DEF IndInv, MeInv
  <2>3. \A d, e \in calls' : MineMe(d) /\ MineMe(e) => d = e
    BY <1>1, <1>3, <1>4 DEF IndInv, MeInv
  <2> QED
    BY <1>1, <1>2, <2>1, <2>2, <2>3 DEF IndInv, MeInv
<1>7. known' \in BOOLEAN /\ cookie' \in Domains
      /\ (known = TRUE => known' = TRUE) /\ (cookie' = "platform" => known' = TRUE)
  <2>1. CASE ok
    BY <1>1, <2>1 DEF Domains
  <2>2. CASE ~ok
    <3>1. cookie' = cookie /\ known' = (known \/ FALSE)
      BY <1>1, <2>2
    <3>2. known \in BOOLEAN
      BY DEF IndInv, CallInv
    <3>3. known' = known
      BY <3>1, <3>2, Zenon
    <3> QED
      BY <3>1, <3>2, <3>3 DEF IndInv, CallInv, KnownInv
  <2> QED
    BY <2>1, <2>2
<1>8. CallInv'
  BY <1>1, <1>5, <1>7 DEF IndInv, CallInv
<1>9. PageInv' /\ CodeInv'
  BY <1>1, <1>2 DEF IndInv, PageInv, CodeInv, Complete
<1>10. KnownInv'
  BY <1>1, <1>7 DEF IndInv, KnownInv
<1> QED
  BY <1>6, <1>8, <1>9, <1>10 DEF IndInv

-----------------------------------------------------------------------------
(* Navigations.  A page that is left orphans its calls.                    *)
LEMMA OrphanedFacts ==
  ASSUME IndInv
  PROVE  Orphaned \subseteq CallType /\ \A c \in Orphaned : ~MineMe(c)
<1>1. ASSUME NEW c \in calls
      PROVE  [c EXCEPT !.mine = FALSE] \in CallType /\ [c EXCEPT !.mine = FALSE].mine = FALSE
  <2>1. c \in CallType
    BY DEF IndInv, CallInv
  <2> QED
    BY <2>1 DEF CallType
<1> QED
  BY <1>1 DEF Orphaned, MineMe

(* A step that only moves the navigation along.                            *)
LEMMA StayKeeps ==
  ASSUME IndInv, UNCHANGED <<route, pageVars, callVars, jarVars>>,
         nav' \in NavType, nav'.at # "none" => nav'.to \in Routes,
         reason' \in Reasons, KnownInv'
  PROVE  IndInv'
<1>1. UNCHANGED <<route, errorCode, isSubmitting, mfaTempToken, pendingMfaCode, isMfaSubmitting,
                  values, state, revoking, calls, sent, refreshing, cookie, session, known>>
  BY DEF pageVars, loginVars, callVars, jarVars
<1>2. PageInv' /\ CodeInv'
  BY <1>1 DEF IndInv, PageInv, CodeInv, Complete
<1>3. CallInv' /\ MeInv'
  BY <1>1 DEF IndInv, CallInv, MeInv
<1> QED
  BY <1>2, <1>3 DEF IndInv

(* Another page is mounted, and asks at most one question.                 *)
LEMMA MountKeeps ==
  ASSUME IndInv, NEW page \in Routes, Mount(page), nav' = NoNav,
         reason' \in Reasons, reason' = "session-expired" => known = TRUE,
         \/ page # "sessions" /\ calls' = Orphaned /\ sent' = sent
         \/ page = "sessions" /\ calls' = Orphaned \cup {Call("me")}
              /\ sent < MaxCalls /\ sent' = sent + 1
  PROVE  IndInv'
<1>1. /\ route' = page /\ errorCode' = FALSE /\ state' = "loading" /\ revoking' = FALSE
      /\ isSubmitting' = FALSE /\ mfaTempToken' = FALSE
      /\ pendingMfaCode' = <<>> /\ isMfaSubmitting' = FALSE /\ values' = Blank
      /\ UNCHANGED <<refreshing, cookie, session, known>>
  BY DEF Mount, jarVars
<1>2. nav' \in NavType /\ nav'.at = "none"
  BY DEF NoNav, NavType, Domains
<1>3. PageInv'
  BY <1>1, <1>2 DEF PageInv
<1>4. CodeInv'
  BY <1>1, BlankIncomplete DEF CodeInv, Complete
<1>5. KnownInv'
  BY <1>1, <1>2 DEF IndInv, KnownInv
<1>6. Orphaned \subseteq CallType /\ \A c \in Orphaned : ~MineMe(c)
  BY OrphanedFacts
<1>7. CASE page # "sessions" /\ calls' = Orphaned /\ sent' = sent
  <2>1. CallInv'
    BY <1>1, <1>6, <1>7 DEF IndInv, CallInv
  <2>2. MeInv'
    BY <1>1, <1>6, <1>7 DEF MeInv
  <2> QED
    BY <1>3, <1>4, <1>5, <2>1, <2>2 DEF IndInv
<1>8. CASE page = "sessions" /\ calls' = Orphaned \cup {Call("me")}
             /\ sent < MaxCalls /\ sent' = sent + 1
  <2> DEFINE me == Call("me")
  <2>1. sent \in Nat /\ sent + 1 \in 1..MaxCalls /\ sent + 1 <= MaxCalls
    BY <1>8, ConsoleAssumption DEF IndInv, CallInv
  <2>2. me \in CallType /\ MineMe(me)
    BY <2>1 DEF Call, CallType, MineMe
  <2>3. calls' = Orphaned \cup {me}
    BY <1>8
  <2> HIDE DEF me
  <2>4. CallInv'
    BY <1>1, <1>6, <1>8, <2>1, <2>2, <2>3 DEF IndInv, CallInv
  <2>5. MeInv'
    BY <1>1, <1>6, <1>8, <2>2, <2>3 DEF MeInv
  <2> QED
    BY <1>3, <1>4, <1>5, <2>4, <2>5 DEF IndInv
<1> QED
  BY <1>7, <1>8

LEMMA ToLoginKeeps ==
  ASSUME IndInv, NEW page \in {"login", "dashboardLogin"}, NEW why \in Reasons,
         why = "session-expired" => known = TRUE, ToLogin(page, why)
  PROVE  IndInv'
<1>1. nav' = NoNav /\ reason' = why /\ page \in Routes /\ page # "sessions"
  BY DEF ToLogin, Routes
<1>2. nav' \in NavType /\ nav'.at = "none"
  BY <1>1 DEF NoNav, NavType, Domains
<1>3. CASE route = page
  <2>1. UNCHANGED <<route, pageVars, callVars, jarVars>>
    BY <1>3 DEF ToLogin
  <2>2. KnownInv'
    BY <1>1, <1>2, <2>1 DEF IndInv, KnownInv, jarVars
  <2> QED
    BY <1>1, <1>2, <2>1, <2>2, StayKeeps
<1>4. CASE route # page
  <2>1. Mount(page) /\ calls' = Orphaned /\ sent' = sent
    BY <1>4 DEF ToLogin
  <2> QED
    BY <1>1, <2>1, MountKeeps
<1> QED
  BY <1>3, <1>4

LEMMA ArriveKeeps == ASSUME IndInv, nav.at = "page", Arrive PROVE IndInv'
<1>1. nav' = NoNav /\ reason' = "none" /\ nav.to \in Routes
  BY DEF Arrive, IndInv, PageInv
<1>2. nav' \in NavType /\ nav'.at = "none" /\ reason' \in Reasons
  BY <1>1 DEF NoNav, NavType, Domains, Reasons
<1>3. CASE nav.to = route
  <2>1. UNCHANGED <<route, pageVars, callVars, jarVars>>
    BY <1>3 DEF Arrive
  <2>2. KnownInv'
    BY <1>1, <1>2, <2>1 DEF IndInv, KnownInv, jarVars
  <2> QED
    BY <1>2, <2>1, <2>2, StayKeeps
<1>4. CASE nav.to # route /\ nav.to = "sessions"
  <2>1. Mount("sessions") /\ calls' = Orphaned \cup {Call("me")} /\ sent < MaxCalls /\ sent' = sent + 1
    BY <1>4 DEF Arrive
  <2> QED
    BY <1>1, <1>2, <1>4, <2>1, MountKeeps
<1>5. CASE nav.to # route /\ nav.to # "sessions"
  <2>1. Mount(nav.to) /\ calls' = Orphaned /\ sent' = sent
    BY <1>5 DEF Arrive
  <2> QED
    BY <1>1, <1>2, <1>5, <2>1, MountKeeps
<1> QED
  BY <1>3, <1>4, <1>5

LEMMA VisitKeeps == ASSUME IndInv, NEW to \in Routes, nav' = Towards(to),
                           UNCHANGED <<route, reason, pageVars, callVars, jarVars>>
                    PROVE  IndInv'
<1>1. nav' \in NavType /\ nav'.to = to /\ nav'.at = "edge"
  BY DEF Towards, NavType, Domains
<1>2. KnownInv' /\ reason' \in Reasons
  BY <1>1 DEF IndInv, PageInv, KnownInv, jarVars
<1> QED
  BY <1>1, <1>2, StayKeeps

LEMMA ReachesKeeps ==
  ASSUME IndInv, nav.at = "edge", NEW stage \in {"layout", "page"}, Reaches(stage),
         stage = "layout" \/ nav.to = "users" => cookie = "platform"
  PROVE  IndInv'
<1>1. /\ nav' = [nav EXCEPT !.at = stage, !.domain = cookie]
      /\ UNCHANGED <<route, reason, pageVars, callVars, jarVars>>
  BY DEF Reaches
<1>2. nav \in NavType /\ nav.to \in Routes /\ cookie \in Domains
  BY DEF IndInv, PageInv, CallInv
<1>3. nav' \in NavType /\ nav'.to = nav.to /\ nav'.at = stage
  BY <1>1, <1>2 DEF NavType
<1>4. KnownInv' /\ reason' \in Reasons
  BY <1>1, <1>3 DEF IndInv, PageInv, KnownInv, jarVars
<1> QED
  BY <1>1, <1>2, <1>3, <1>4, StayKeeps

LEMMA EdgeGateKeeps == ASSUME IndInv, EdgeGate PROVE IndInv'
<1> DEFINE tree  == IF nav.to = "dashboard" THEN "dashboard" ELSE "platform"
           login == IF nav.to = "dashboard" THEN "dashboardLogin" ELSE "login"
<1>1. /\ nav.at = "edge"
      /\ IF nav.to \notin Protected \cup {"dashboard"} THEN Reaches("page")
         ELSE IF cookie = "none" THEN ToLogin(login, "none")
         ELSE IF cookie # tree THEN ToLogin(login, "wrong-domain")
         ELSE Reaches(Beyond)
  BY DEF EdgeGate
<1>2. login \in {"login", "dashboardLogin"}
  OBVIOUS
<1> HIDE DEF login
<1>3. CASE nav.to \notin Protected \cup {"dashboard"}
  <2>1. Reaches("page") /\ nav.to # "users"
    BY <1>1, <1>3 DEF Protected
  <2> QED
    BY <1>1, <2>1, ReachesKeeps
<1>4. CASE nav.to \in Protected \cup {"dashboard"} /\ cookie = "none"
  BY <1>1, <1>2, <1>4, ToLoginKeeps DEF Reasons
<1>5. CASE nav.to \in Protected \cup {"dashboard"} /\ cookie # "none" /\ cookie # tree
  BY <1>1, <1>2, <1>5, ToLoginKeeps DEF Reasons
<1>6. CASE nav.to \in Protected \cup {"dashboard"} /\ cookie # "none" /\ cookie = tree
  <2>1. Reaches(Beyond)
    BY <1>1, <1>6
  <2>2. Beyond \in {"layout", "page"} /\ (Beyond = "layout" => nav.to \in Protected)
    BY DEF Beyond
  <2>3. Beyond = "layout" \/ nav.to = "users" => cookie = "platform"
    BY <1>6, <2>2 DEF Protected
  <2> QED
    BY <1>1, <2>1, <2>2, <2>3, ReachesKeeps
<1> QED
  BY <1>1, <1>3, <1>4, <1>5, <1>6

LEMMA LayoutKeeps == ASSUME IndInv, NEW lapsed \in BOOLEAN, Layout(lapsed) PROVE IndInv'
<1>1. nav.at = "layout" /\ known = TRUE
  BY DEF Layout, IndInv, KnownInv
<1>2. CASE lapsed
  BY <1>1, <1>2, ToLoginKeeps DEF Layout, Reasons
<1>3. CASE ~lapsed /\ nav.domain # "platform"
  BY <1>1, <1>3, ToLoginKeeps DEF Layout, Reasons
<1>4. CASE ~lapsed /\ nav.domain = "platform"
  <2>1. /\ nav' = [nav EXCEPT !.at = "page"]
        /\ UNCHANGED <<route, reason, pageVars, callVars, jarVars>>
    BY <1>4 DEF Layout
  <2>2. nav \in NavType /\ nav.to \in Routes
    BY <1>1 DEF IndInv, PageInv
  <2>3. nav' \in NavType /\ nav'.to = nav.to /\ nav'.at = "page"
    BY <2>1, <2>2 DEF NavType
  <2>4. KnownInv' /\ reason' \in Reasons
    BY <1>1, <2>1, <2>3 DEF IndInv, PageInv, KnownInv, jarVars
  <2> QED
    BY <2>1, <2>2, <2>3, <2>4, StayKeeps
<1> QED
  BY <1>2, <1>3, <1>4

LEMMA RenderKeeps == ASSUME IndInv, NEW answer \in {200, 401, 500}, Render(answer) PROVE IndInv'
<1>1. nav.at = "page"
  BY DEF Render
<1>2. CASE nav.to # "users" \/ answer = 200
  BY <1>1, <1>2, ArriveKeeps DEF Render
<1>3. CASE nav.to = "users" /\ answer = 401
  <2>1. known = TRUE
    BY <1>1, <1>3 DEF IndInv, KnownInv
  <2>2. ToLogin("login", "session-expired")
    BY <1>3 DEF Render
  <2> QED
    BY <2>1, <2>2, ToLoginKeeps DEF Reasons
<1>4. CASE nav.to = "users" /\ answer = 500
  <2>1. /\ nav' = NoNav /\ route' = "failed" /\ calls' = Orphaned
        /\ UNCHANGED <<reason, errorCode, isSubmitting, mfaTempToken, pendingMfaCode,
                       isMfaSubmitting, values, state, revoking, sent, refreshing, cookie, session, known>>
    BY <1>4 DEF Render, pageVars, loginVars, jarVars
  <2>2. nav' \in NavType /\ nav'.at = "none" /\ route' \in Routes
    BY <2>1 DEF NoNav, NavType, Domains, Routes
  <2>3. PageInv' /\ CodeInv'
    BY <2>1, <2>2 DEF IndInv, PageInv, CodeInv, Complete
  <2>4. KnownInv'
    BY <2>1, <2>2 DEF IndInv, KnownInv
  <2>5. CallInv' /\ MeInv'
    BY <2>1, OrphanedFacts DEF IndInv, CallInv, MeInv
  <2> QED
    BY <2>3, <2>4, <2>5 DEF IndInv
<1> QED
  BY <1>2, <1>3, <1>4

-----------------------------------------------------------------------------
(* The forms.  Nothing in them touches a navigation or the jar.            *)
LEMMA FormKeeps ==
  ASSUME IndInv, UNCHANGED <<route, reason, nav, refreshing, cookie, session, known>>,
         errorCode' \in BOOLEAN, isSubmitting' \in BOOLEAN, mfaTempToken' \in BOOLEAN,
         isMfaSubmitting' \in BOOLEAN, revoking' \in BOOLEAN,
         state' \in {"loading", "error", "ready"},
         calls' \subseteq CallType, sent' \in Nat, sent' <= MaxCalls,
         MeInv', CodeInv'
  PROVE  IndInv'
<1>1. PageInv'
  BY DEF IndInv, PageInv
<1>2. CallInv' /\ KnownInv'
  BY DEF IndInv, CallInv, KnownInv
<1> QED
  BY <1>1, <1>2 DEF IndInv

(* A call that asks no question of the Sessions page.                      *)
LEMMA SendFacts ==
  ASSUME IndInv, NEW op \in Ops \ {"me"}, Send(op), UNCHANGED <<route, state>>
  PROVE  /\ calls' \subseteq CallType /\ sent' \in Nat /\ sent' <= MaxCalls /\ MeInv'
         /\ UNCHANGED <<refreshing, cookie, session, known>>
<1> DEFINE new == Call(op)
<1>1. sent < MaxCalls /\ sent' = sent + 1 /\ calls' = calls \cup {new}
      /\ UNCHANGED <<refreshing, cookie, session, known>>
  BY DEF Send, jarVars
<1>2. sent \in Nat /\ sent + 1 \in 1..MaxCalls
  BY <1>1, ConsoleAssumption DEF IndInv, CallInv
<1>3. new \in CallType /\ ~MineMe(new)
  BY <1>2 DEF Call, CallType, Ops, MineMe
<1> HIDE DEF new
<1>4. calls' \subseteq CallType /\ sent' \in Nat /\ sent' <= MaxCalls
  BY <1>1, <1>2, <1>3, ConsoleAssumption DEF IndInv, CallInv
<1>5. MeInv'
  BY <1>1, <1>3 DEF IndInv, MeInv
<1> QED
  BY <1>1, <1>4, <1>5

LEMMA SubmitsKeep ==
  ASSUME IndInv, OnLogin \/ OnMfaSubmit \/ HandleRevokeAll \/ HandleSignOut
  PROVE  IndInv'
<1>0. /\ errorCode \in BOOLEAN /\ isSubmitting \in BOOLEAN /\ mfaTempToken \in BOOLEAN
      /\ isMfaSubmitting \in BOOLEAN /\ revoking \in BOOLEAN
      /\ state \in {"loading", "error", "ready"}
  BY DEF IndInv, PageInv
<1>1. CodeInv' /\ \E op \in Ops \ {"me"} : Send(op)
  <2>1. UNCHANGED <<values, pendingMfaCode, mfaTempToken>>
    BY DEF OnLogin, OnMfaSubmit, HandleRevokeAll, HandleSignOut, loginVars, pageVars
  <2> QED
    BY <2>1 DEF OnLogin, OnMfaSubmit, HandleRevokeAll, HandleSignOut, Ops, IndInv, CodeInv, Complete
<1>2. UNCHANGED <<route, reason, nav, state>>
  BY DEF OnLogin, OnMfaSubmit, HandleRevokeAll, HandleSignOut, pageVars
<1>3. /\ errorCode' \in {errorCode, FALSE} /\ isSubmitting' \in {isSubmitting, TRUE}
      /\ mfaTempToken' = mfaTempToken
      /\ isMfaSubmitting' \in {isMfaSubmitting, TRUE} /\ revoking' \in {revoking, TRUE}
  BY DEF OnLogin, OnMfaSubmit, HandleRevokeAll, HandleSignOut, loginVars, pageVars
<1>4. /\ errorCode' \in BOOLEAN /\ isSubmitting' \in BOOLEAN /\ mfaTempToken' \in BOOLEAN
      /\ isMfaSubmitting' \in BOOLEAN /\ revoking' \in BOOLEAN
  BY <1>0, <1>3, Zenon
<1>5. PICK op \in Ops \ {"me"} : Send(op)
  BY <1>1
<1> QED
  BY <1>0, <1>1, <1>2, <1>4, <1>5, SendFacts, FormKeeps

(* Steps of the code input, and Back.                                      *)
LEMMA CellsKeep ==
  ASSUME IndInv, UNCHANGED FormAround, CodeInv'
  PROVE  IndInv'
<1>1. UNCHANGED <<route, reason, nav, errorCode, isSubmitting, mfaTempToken, isMfaSubmitting, state,
                  revoking, calls, sent, refreshing, cookie, session, known>>
  BY DEF FormAround, callVars, jarVars
<1>2. MeInv'
  BY <1>1 DEF IndInv, MeInv
<1> QED
  BY <1>1, <1>2, FormKeeps DEF IndInv, PageInv, CallInv

(* Full cells hold digits.                                                 *)
LEMMA CompleteCells ==
  ASSUME NEW cells \in [1..Length -> Digits \cup {0}], Complete(cells)
  PROVE  cells \in [1..Length -> Digits]
BY DEF Complete

LEMMA TypingKeeps == ASSUME IndInv, Typing PROVE IndInv'
<1>1. /\ pendingMfaCode \in {<<>>} \cup [1..Length -> Digits]
      /\ values \in [1..Length -> Digits \cup {0}]
      /\ Complete(values) => pendingMfaCode = values
  BY DEF IndInv, CodeInv
<1>2. ASSUME NEW next \in [1..Length -> Digits \cup {0}], "cells" \in LoginOffers,
             values' = next, NotifyIfComplete(next), UNCHANGED FormAround
      PROVE  IndInv'
  <2>1. mfaTempToken' # FALSE
    BY <1>2, Zenon DEF LoginOffers, FormAround
  <2>2. CASE Complete(next)
    <3>1. next \in [1..Length -> Digits] /\ pendingMfaCode' = next
      BY <1>2, <2>2, CompleteCells DEF NotifyIfComplete
    <3>2. CodeInv'
      BY <1>2, <2>1, <3>1 DEF CodeInv
    <3> QED
      BY <1>2, <3>2, CellsKeep
  <2>3. CASE ~Complete(next)
    <3>1. pendingMfaCode' = pendingMfaCode
      BY <1>2, <2>3 DEF NotifyIfComplete
    <3>2. CodeInv'
      BY <1>1, <1>2, <2>1, <2>3, <3>1 DEF CodeInv, Complete
    <3> QED
      BY <1>2, <3>2, CellsKeep
  <2> QED
    BY <2>2, <2>3
<1>3. ASSUME NEW i \in 1..Length, NEW d \in Digits \cup {0}, HandleChange(i, d) PROVE IndInv'
  <2>1. [values EXCEPT ![i] = d] \in [1..Length -> Digits \cup {0}]
    BY <1>1
  <2> QED
    BY <1>2, <1>3, <2>1 DEF HandleChange, NotifyIfComplete
<1>4. ASSUME NEW i \in 1..Length, HandleBackspace(i) PROVE IndInv'
  <2> DEFINE j == IF values[i] = 0 /\ i > 1 THEN i - 1 ELSE i
  <2>1. j \in 1..Length
    BY ConsoleAssumption
  <2>2. /\ "cells" \in LoginOffers /\ values' = [values EXCEPT ![j] = 0]
        /\ UNCHANGED <<pendingMfaCode, FormAround>>
    BY <1>4 DEF HandleBackspace
  <2> HIDE DEF j
  <2>3. values' \in [1..Length -> Digits \cup {0}] /\ values'[j] = 0
    BY <1>1, <2>1, <2>2
  <2>4. ~Complete(values')
    BY <2>1, <2>3 DEF Complete
  <2>5. mfaTempToken' # FALSE
    BY <2>2 DEF LoginOffers, FormAround
  <2>6. CodeInv'
    BY <1>1, <2>2, <2>3, <2>4, <2>5 DEF CodeInv
  <2> QED
    BY <2>2, <2>6, CellsKeep
<1>5. ASSUME NEW n \in 0..Length, NEW chars \in [1..n -> Digits], HandlePaste(chars) PROVE IndInv'
  <2> DEFINE next == [i \in 1..Length |-> IF i \in DOMAIN chars THEN chars[i] ELSE 0]
  <2>1. next \in [1..Length -> Digits \cup {0}]
    OBVIOUS
  <2>2. "cells" \in LoginOffers /\ values' = next /\ NotifyIfComplete(values') /\ UNCHANGED FormAround
    BY <1>5 DEF HandlePaste
  <2> HIDE DEF next
  <2> QED
    BY <1>2, <2>1, <2>2
<1> QED
  BY <1>3, <1>4, <1>5 DEF Typing

LEMMA BackKeeps == ASSUME IndInv, Back PROVE IndInv'
<1>1. /\ mfaTempToken' = FALSE /\ pendingMfaCode' = <<>> /\ errorCode' = FALSE /\ values' = Blank
      /\ UNCHANGED <<route, reason, nav, isSubmitting, isMfaSubmitting, state, revoking, calls, sent,
                     refreshing, cookie, session, known>>
  BY DEF Back, callVars, jarVars
<1>2. CodeInv'
  BY <1>1, BlankIncomplete DEF CodeInv, Complete
<1>3. MeInv'
  BY <1>1 DEF IndInv, MeInv
<1> QED
  BY <1>1, <1>2, <1>3, FormKeeps DEF IndInv, PageInv, CallInv

-----------------------------------------------------------------------------
(* Answers.  A call that is answered leaves the others as they were.       *)
LEMMA AnsweredFacts ==
  ASSUME IndInv, NEW c \in calls, NEW op \in Ops \ {"me"}, NEW at, Answered(c, op, at),
         state' = state
  PROVE  /\ calls' \subseteq CallType /\ MeInv'
         /\ UNCHANGED <<route, reason, sent, refreshing, cookie, session, known>>
<1>1. calls' = calls \ {c} /\ c.op = op
      /\ UNCHANGED <<route, reason, sent, refreshing, cookie, session, known>>
  BY DEF Answered, jarVars
<1>2. ~MineMe(c)
  BY <1>1 DEF MineMe
<1>3. calls' \subseteq CallType
  BY <1>1 DEF IndInv, CallInv
<1>4. MeInv'
  BY <1>1, <1>2 DEF IndInv, MeInv
<1> QED
  BY <1>1, <1>3, <1>4

(* What an answer may do to the page: push it on, or set its form.         *)
LEMMA AnswerKeeps ==
  ASSUME IndInv, UNCHANGED <<route, reason, sent, refreshing, cookie, session, known>>,
         calls' \subseteq CallType, MeInv', CodeInv',
         nav' = nav \/ \E to \in Routes : Push(to),
         errorCode' \in BOOLEAN, isSubmitting' \in BOOLEAN, mfaTempToken' \in BOOLEAN,
         isMfaSubmitting' \in BOOLEAN, revoking' \in BOOLEAN,
         state' \in {"loading", "error", "ready"}
  PROVE  IndInv'
<1>1. CASE nav' = nav
  BY <1>1, FormKeeps DEF IndInv, CallInv
<1>2. ASSUME NEW to \in Routes, Push(to) PROVE IndInv'
  <2>1. nav' \in NavType /\ nav'.to = to /\ nav'.at = "edge"
    BY <1>2 DEF Push, Towards, NavType, Domains
  <2>2. PageInv' /\ KnownInv'
    BY <2>1 DEF IndInv, PageInv, KnownInv
  <2>3. CallInv'
    BY DEF IndInv, CallInv
  <2> QED
    BY <2>2, <2>3 DEF IndInv
<1> QED
  BY <1>1, <1>2

LEMMA HandlersKeep ==
  ASSUME IndInv, NEW c \in calls,
         LoginAnswered(c) \/ ChallengeAnswered(c) \/ RevokeAllAnswered(c) \/ LogoutAnswered(c)
  PROVE  IndInv'
<1>0. /\ errorCode \in BOOLEAN /\ isSubmitting \in BOOLEAN /\ mfaTempToken \in BOOLEAN
      /\ isMfaSubmitting \in BOOLEAN /\ revoking \in BOOLEAN
      /\ state \in {"loading", "error", "ready"}
      /\ c.mine \in BOOLEAN
      /\ {"security", "login"} \subseteq Routes
  BY DEF IndInv, PageInv, CallInv, CallType, Routes, Protected
<1>1. \E op \in Ops \ {"me"}, at \in Ats : Answered(c, op, at)
  BY DEF LoginAnswered, ChallengeAnswered, RevokeAllAnswered, LogoutAnswered, Ops, Ats
<1>2. state' = state /\ UNCHANGED <<values, pendingMfaCode>>
  BY DEF LoginAnswered, ChallengeAnswered, RevokeAllAnswered, LogoutAnswered, pageVars, loginVars
<1>3. nav' = nav \/ \E to \in Routes : Push(to)
  BY <1>0 DEF LoginAnswered, ChallengeAnswered, RevokeAllAnswered, LogoutAnswered
<1>4. errorCode' = errorCode \/ errorCode' = (errorCode \/ c.mine)
  BY Zenon DEF LoginAnswered, ChallengeAnswered, RevokeAllAnswered, LogoutAnswered, pageVars
<1>5. mfaTempToken' = mfaTempToken \/ mfaTempToken' = (mfaTempToken \/ c.mine)
  BY Zenon DEF LoginAnswered, ChallengeAnswered, RevokeAllAnswered, LogoutAnswered, pageVars, loginVars
<1>6. isSubmitting' = isSubmitting \/ isSubmitting' = (isSubmitting /\ ~c.mine)
  BY Zenon DEF LoginAnswered, ChallengeAnswered, RevokeAllAnswered, LogoutAnswered, pageVars, loginVars
<1>7. isMfaSubmitting' = isMfaSubmitting \/ isMfaSubmitting' = (isMfaSubmitting /\ ~c.mine)
  BY Zenon DEF LoginAnswered, ChallengeAnswered, RevokeAllAnswered, LogoutAnswered, pageVars, loginVars
<1>8. revoking' = revoking \/ revoking' = (revoking /\ ~c.mine)
  BY Zenon DEF LoginAnswered, ChallengeAnswered, RevokeAllAnswered, LogoutAnswered, pageVars
<1>9. /\ errorCode' \in BOOLEAN /\ isSubmitting' \in BOOLEAN /\ mfaTempToken' \in BOOLEAN
      /\ isMfaSubmitting' \in BOOLEAN /\ revoking' \in BOOLEAN
  BY <1>0, <1>4, <1>5, <1>6, <1>7, <1>8, Zenon
<1>10. mfaTempToken' = FALSE => mfaTempToken = FALSE
  BY <1>0, <1>5, Zenon
<1>11. CodeInv'
  BY <1>2, <1>10 DEF IndInv, CodeInv, Complete
<1> QED
  BY <1>0, <1>1, <1>2, <1>3, <1>9, <1>11, AnsweredFacts, AnswerKeeps

(* The Sessions page hears who is signed in.                               *)
LEMMA MeAnsweredKeeps == ASSUME IndInv, NEW c \in calls, MeAnswered(c) PROVE IndInv'
<1>1. /\ c.op = "me" /\ calls' = calls \ {c}
      /\ UNCHANGED <<route, reason, nav, sent, refreshing, cookie, session, known, errorCode,
                     isSubmitting, mfaTempToken, pendingMfaCode, isMfaSubmitting, values, revoking>>
  BY DEF MeAnswered, Answered, jarVars, loginVars
<1>2. c.mine \in BOOLEAN /\ calls' \subseteq CallType
  BY <1>1 DEF IndInv, CallInv, CallType
<1>3. CodeInv'
  BY <1>1 DEF IndInv, CodeInv, Complete
<1>4. CASE c.mine = TRUE /\ route = "sessions"
  <2>1. state' \in {"error", "ready"}
    BY <1>4, Zenon DEF MeAnswered
  <2>2. MineMe(c)
    BY <1>1, <1>4 DEF MineMe
  <2>3. MeInv'
    BY <1>1, <2>1, <2>2 DEF IndInv, MeInv
  <2> QED
    BY <1>1, <1>2, <1>3, <2>1, <2>3, FormKeeps DEF IndInv, PageInv, CallInv
<1>5. CASE c.mine = FALSE \/ route # "sessions"
  <2>1. state' = state
    BY <1>5, Zenon DEF MeAnswered
  <2>2. ~MineMe(c)
    BY <1>5 DEF MineMe, IndInv, MeInv
  <2>3. MeInv'
    BY <1>1, <2>1, <2>2 DEF IndInv, MeInv
  <2> QED
    BY <1>1, <1>2, <1>3, <2>1, <2>3, FormKeeps DEF IndInv, PageInv, CallInv
<1> QED
  BY <1>2, <1>4, <1>5

-----------------------------------------------------------------------------
LEMMA InvNext == IndInv /\ [Next]_vars => IndInv'
<1> SUFFICES ASSUME IndInv, [Next]_vars PROVE IndInv'
  OBVIOUS
<1>0. cookie \in Domains /\ session \in BOOLEAN /\ Protected \subseteq Routes
  BY DEF IndInv, CallInv, Routes
<1>1. CASE Admin
  <2>1. ASSUME NEW to \in Protected, Visit(to) PROVE IndInv'
    BY <1>0, <2>1, VisitKeeps DEF Visit
  <2> QED
    BY <1>1, <2>1, SubmitsKeep, BackKeeps, TypingKeeps DEF Admin
<1>2. CASE Navigate
  BY <1>2, EdgeGateKeeps, LayoutKeeps, RenderKeeps DEF Navigate
<1>3. CASE Server
  <2>1. ASSUME NEW c \in calls, NEW mfa \in BOOLEAN, ServeLogin(c, mfa) PROVE IndInv'
    <3>1. CASE mfa
      BY <1>0, <2>1, <3>1, ServeKeeps DEF ServeLogin, Ats
    <3>2. CASE ~mfa
      BY <1>0, <2>1, <3>2, ServeKeeps DEF ServeLogin, Ats, Domains
    <3> QED
      BY <3>1, <3>2
  <2>2. ASSUME NEW c \in calls,
               ServeChallenge(c) \/ ServeMe(c) \/ ServeLogout(c) \/ ServeRevokeAll(c)
               \/ Unauthorized(c) \/ Refused(c)
        PROVE  IndInv'
    <3>1. PICK at \in Ats, jar \in Domains, alive \in BOOLEAN : Serve(c, at, jar, alive)
      <4>1. {"ok", "unauthorized", "refused"} \subseteq Ats /\ {"platform", "none"} \subseteq Domains
        BY DEF Ats, Domains
      <4> QED
        BY <1>0, <2>2, <4>1
           DEF ServeChallenge, ServeMe, ServeLogout, ServeRevokeAll, Unauthorized, Refused
    <3> QED
      BY <3>1, ServeKeeps
  <2> QED
    BY <1>3, <2>1, <2>2, RefreshedKeeps DEF Server
<1>4. CASE Client
  BY <1>4, Meet401Keeps, MeAnsweredKeeps, HandlersKeep DEF Client
<1>5. CASE Elsewhere
  <2>1. /\ cookie' \in Domains /\ cookie' # "platform"
        /\ UNCHANGED <<route, reason, nav, errorCode, isSubmitting, mfaTempToken, pendingMfaCode,
                       isMfaSubmitting, values, state, revoking, calls, sent, refreshing, session, known>>
    BY <1>5 DEF Elsewhere, Domains, pageVars, loginVars, callVars
  <2>2. PageInv' /\ CodeInv'
    BY <2>1 DEF IndInv, PageInv, CodeInv, Complete
  <2>3. CallInv' /\ MeInv' /\ KnownInv'
    BY <2>1 DEF IndInv, CallInv, MeInv, KnownInv
  <2> QED
    BY <2>2, <2>3 DEF IndInv
<1>6. CASE UNCHANGED vars
  <2>1. UNCHANGED <<route, reason, nav, pageVars, callVars, jarVars>>
    BY <1>6 DEF vars
  <2>2. KnownInv'
    BY <2>1 DEF IndInv, KnownInv, jarVars
  <2> QED
    BY <2>1, <2>2, StayKeeps DEF IndInv, PageInv
<1> QED
  BY <1>1, <1>2, <1>3, <1>4, <1>5, <1>6 DEF Next

(* The invariant holds in every reachable state.                           *)
LEMMA Inductive == Spec => []IndInv
BY InvInit, InvNext, PTL DEF Spec

(* Type correctness of the console: whatever is out when the admin moves   *)
(* on, the Sessions page says it is loading just while its own question    *)
(* is out.                                                                 *)
THEOREM ConsoleTypeCorrect == Spec => []TypeOK
BY Inductive, InvImplies, PTL

(* A code that fills the cells is the one the Verify button submits, for   *)
(* any order of changes, pastes and deletions.                             *)
THEOREM SubmitsShownCode == Spec => []ShownCodeIsPending
BY Inductive, InvImplies, PTL

(* Nobody is told of an expired session whose browser never held a         *)
(* platform token, for any order of navigations and answers.               *)
THEOREM ExpiryIsReal == Spec => []ExpiredOnlyAfterSession
BY Inductive, InvImplies, PTL

-----------------------------------------------------------------------------
(* The buttons.  A page's calls of one kind, of which there is one at most *)
(* and only while its page is on screen.                                   *)
Forms == {"login", "challenge", "revokeAll"}
HomeOf(op) == IF op = "revokeAll" THEN "sessions" ELSE "login"
Is(c, op) == c.mine = TRUE /\ c.op = op
Asked(op) == \E c \in calls : Is(c, op)

Single(op) ==
  /\ \A c \in calls : Is(c, op) => route = HomeOf(op)
  /\ \A c, d \in calls : Is(c, op) /\ Is(d, op) => c = d

FlagInv ==
  /\ route = "login" => (isSubmitting <=> Asked("login")) /\ (isMfaSubmitting <=> Asked("challenge"))
  /\ route = "sessions" => (revoking <=> Asked("revokeAll"))

BusyInv == FlagInv /\ \A op \in Forms : Single(op)

LEMMA BusyImplies == IndInv /\ BusyInv => BusyIsExact
<1> SUFFICES ASSUME IndInv, BusyInv PROVE BusyIsExact
  OBVIOUS
<1>1. \A c \in calls : c.mine \in BOOLEAN /\ c.op \in Ops
  BY DEF IndInv, CallInv, CallType, Ops
<1>2. \A op \in Forms : Out(op) <=> Asked(op)
  BY <1>1, Zenon DEF Out, Asked, Is
<1>3. /\ route = "login" => (isSubmitting <=> Out("login")) /\ (isMfaSubmitting <=> Out("challenge"))
      /\ route = "sessions" => (revoking <=> Out("revokeAll"))
  BY <1>2, Zenon DEF BusyInv, FlagInv, Forms
<1>4. ASSUME NEW c \in calls, NEW d \in calls, c.mine, d.mine, c.op = d.op, c.op # "logout"
      PROVE  c = d
  <2>1. c.mine = TRUE /\ d.mine = TRUE
    BY <1>1, <1>4, Zenon
  <2>2. CASE c.op = "me"
    BY <1>4, <2>1, <2>2 DEF IndInv, MeInv, MineMe
  <2>3. CASE c.op \in Forms
    BY <1>4, <2>1, <2>3 DEF BusyInv, Single, Is
  <2> QED
    BY <1>1, <1>4, <2>2, <2>3 DEF Ops, Forms
<1> QED
  BY <1>3, <1>4, Zenon DEF BusyIsExact

LEMMA BusyInit == Init => BusyInv
BY DEF Init, BusyInv, FlagInv, Single, Asked, Forms

(* A step that leaves the forms and whose calls are the ones there were.   *)
LEMMA BusyStays ==
  ASSUME BusyInv, UNCHANGED <<route, isSubmitting, isMfaSubmitting, revoking>>,
         \A op \in Forms : (Asked(op)' <=> Asked(op)) /\ Single(op)'
  PROVE  BusyInv'
BY Zenon DEF BusyInv, FlagInv, Forms

LEMMA BusyIdle ==
  ASSUME BusyInv, UNCHANGED <<route, isSubmitting, isMfaSubmitting, revoking, calls>>
         \/ UNCHANGED <<route, pageVars, callVars>>
  PROVE  BusyInv'
<1>1. UNCHANGED <<route, isSubmitting, isMfaSubmitting, revoking, calls>>
  BY DEF pageVars, loginVars, callVars
<1> QED
  BY <1>1, BusyStays DEF BusyInv, Asked, Single

(* A call keeps its page and its kind while it is under way, ...           *)
LEMMA BusyBecomes ==
  ASSUME IndInv, BusyInv, NEW c \in calls, NEW at, Becomes(c, at),
         UNCHANGED <<route, isSubmitting, isMfaSubmitting, revoking>>
  PROVE  BusyInv'
<1> DEFINE next == [c EXCEPT !.at = at]
<1>1. next.mine = c.mine /\ next.op = c.op
  BY DEF IndInv, CallInv, CallType
<1>2. calls' = (calls \ {c}) \cup {next}
  BY DEF Becomes
<1> HIDE DEF next
<1>3. ASSUME NEW op \in Forms PROVE (Asked(op)' <=> Asked(op)) /\ Single(op)'
  BY <1>1, <1>2 DEF Asked, Single, Is, BusyInv
<1> QED
  BY <1>3, BusyStays

(* ... and so do the ones the refresh resumes.                             *)
LEMMA BusyResumes ==
  ASSUME IndInv, BusyInv, NEW ok \in BOOLEAN, Refreshed(ok) PROVE BusyInv'
<1> DEFINE Next1(c) == [c EXCEPT !.at = IF ok THEN "sent" ELSE "refused", !.replay = TRUE]
<1>1. /\ calls' = (calls \ Waiting) \cup {Next1(c) : c \in Waiting} /\ Waiting \subseteq calls
      /\ UNCHANGED <<route, isSubmitting, isMfaSubmitting, revoking>>
  BY DEF Refreshed, Waiting, pageVars, loginVars
<1>2. ASSUME NEW c \in calls PROVE Next1(c).mine = c.mine /\ Next1(c).op = c.op
  BY DEF IndInv, CallInv, CallType
<1> HIDE DEF Next1
<1>3. ASSUME NEW op \in Forms PROVE (Asked(op)' <=> Asked(op)) /\ Single(op)'
  <2>1. \A c \in Waiting : Is(Next1(c), op) <=> Is(c, op)
    BY <1>1, <1>2 DEF Is
  <2>2. \A d \in calls' : Is(d, op) => \E c \in calls : Is(c, op) /\ (d = c \/ d = Next1(c))
    BY <1>1, <2>1
  <2>3. Asked(op)' <=> Asked(op)
    BY <1>1, <2>1 DEF Asked
  <2>4. \A d \in calls' : Is(d, op) => route' = HomeOf(op)
    BY <1>1, <2>2 DEF Single, BusyInv
  <2>5. \A d, e \in calls' : Is(d, op) /\ Is(e, op) => d = e
    BY <1>1, <2>1 DEF Single, BusyInv
  <2> QED
    BY <2>3, <2>4, <2>5 DEF Single
<1> QED
  BY <1>1, <1>3, BusyStays

(* Calls of a page that was left are nobody's.                             *)
LEMMA BusyLeaves ==
  ASSUME IndInv, calls' = Orphaned \/ \E c : calls' = Orphaned \cup {c} /\ c.op = "me",
         \/ isSubmitting' = FALSE /\ isMfaSubmitting' = FALSE /\ revoking' = FALSE
         \/ route' = "failed"
  PROVE  BusyInv'
<1>1. \A c \in Orphaned : c.mine = FALSE
  <2>1. ASSUME NEW c \in calls PROVE [c EXCEPT !.mine = FALSE].mine = FALSE
    BY DEF IndInv, CallInv, CallType
  <2> QED
    BY <2>1 DEF Orphaned
<1>2. ASSUME NEW op \in Forms, NEW c \in calls' PROVE ~Is(c, op)
  BY <1>1, <1>2 DEF Is, Forms
<1>3. \A op \in Forms : ~Asked(op)' /\ Single(op)'
  BY <1>2 DEF Asked, Single
<1>4. FlagInv'
  BY <1>3 DEF FlagInv, Forms
<1> QED
  BY <1>3, <1>4 DEF BusyInv

LEMMA BusyToLogin ==
  ASSUME IndInv, BusyInv, NEW page, NEW why, ToLogin(page, why) PROVE BusyInv'
<1>1. CASE route = page
  BY <1>1, BusyIdle DEF ToLogin
<1>2. CASE route # page
  BY <1>2, BusyLeaves DEF ToLogin, Mount
<1> QED
  BY <1>1, <1>2

LEMMA BusyNavigates == ASSUME IndInv, BusyInv, Navigate PROVE BusyInv'
<1>1. CASE EdgeGate
  BY <1>1, BusyToLogin, BusyIdle DEF EdgeGate, Reaches
<1>2. ASSUME NEW lapsed \in BOOLEAN, Layout(lapsed) PROVE BusyInv'
  BY <1>2, BusyToLogin, BusyIdle DEF Layout
<1>3. CASE Arrive
  <2>1. CASE nav.to = route
    BY <1>3, <2>1, BusyIdle DEF Arrive
  <2>2. CASE nav.to # route
    <3>1. isSubmitting' = FALSE /\ isMfaSubmitting' = FALSE /\ revoking' = FALSE
      BY <1>3, <2>2 DEF Arrive, Mount
    <3>2. calls' = Orphaned \/ calls' = Orphaned \cup {Call("me")}
      BY <1>3, <2>2 DEF Arrive
    <3>3. Call("me").op = "me"
      BY DEF Call
    <3> QED
      BY <3>1, <3>2, <3>3, BusyLeaves
  <2> QED
    BY <2>1, <2>2
<1>4. ASSUME NEW answer \in {200, 401, 500}, Render(answer) PROVE BusyInv'
  BY <1>3, <1>4, BusyToLogin, BusyLeaves DEF Render
<1> QED
  BY <1>1, <1>2, <1>4 DEF Navigate

(* A button that is not busy sends, and is busy from then on.              *)
LEMMA SendAsks ==
  ASSUME IndInv, BusyInv, NEW op \in Ops, Send(op), route' = route,
         op \in Forms => ~Asked(op) /\ route = HomeOf(op)
  PROVE  /\ \A f \in Forms : Single(f)'
         /\ \A f \in Forms : Asked(f)' <=> Asked(f) \/ f = op
<1> DEFINE new == Call(op)
<1>1. calls' = calls \cup {new}
  BY DEF Send
<1>2. new.mine = TRUE /\ new.op = op
  BY DEF Call
<1> HIDE DEF new
<1>3. ASSUME NEW f \in Forms PROVE Single(f)' /\ (Asked(f)' <=> Asked(f) \/ f = op)
  BY <1>1, <1>2 DEF Single, Asked, Is, BusyInv
<1> QED
  BY <1>3

LEMMA BusySends ==
  ASSUME IndInv, BusyInv, OnLogin \/ OnMfaSubmit \/ HandleRevokeAll \/ HandleSignOut
  PROVE  BusyInv'
<1>0. {"login", "challenge", "revokeAll", "logout"} \subseteq Ops /\ "logout" \notin Forms
      /\ Forms = {"login", "challenge", "revokeAll"}
  BY DEF Ops, Forms
<1>1. CASE OnLogin
  <2>1. /\ route = "login" /\ ~isSubmitting /\ Send("login") /\ isSubmitting' = TRUE
        /\ UNCHANGED <<route, isMfaSubmitting, revoking>>
    BY <1>1, Zenon DEF OnLogin, LoginOffers
  <2>2. ~Asked("login")
    BY <2>1, Zenon DEF BusyInv, FlagInv
  <2>3. HomeOf("login") = "login"
    BY DEF HomeOf
  <2>4. \A f \in Forms : Single(f)' /\ (Asked(f)' <=> Asked(f) \/ f = "login")
    BY <1>0, <2>1, <2>2, <2>3, SendAsks
  <2>5. Asked("login")' /\ (Asked("challenge")' <=> Asked("challenge"))
    BY <1>0, <2>4
  <2>6. FlagInv'
    BY <2>1, <2>5, Zenon DEF BusyInv, FlagInv
  <2> QED
    BY <2>4, <2>6 DEF BusyInv
<1>2. CASE OnMfaSubmit
  <2>1. /\ route = "login" /\ ~isMfaSubmitting /\ Send("challenge") /\ isMfaSubmitting' = TRUE
        /\ UNCHANGED <<route, isSubmitting, revoking>>
    BY <1>2, Zenon DEF OnMfaSubmit, LoginOffers
  <2>2. ~Asked("challenge")
    BY <2>1, Zenon DEF BusyInv, FlagInv
  <2>3. HomeOf("challenge") = "login"
    BY DEF HomeOf
  <2>4. \A f \in Forms : Single(f)' /\ (Asked(f)' <=> Asked(f) \/ f = "challenge")
    BY <1>0, <2>1, <2>2, <2>3, SendAsks
  <2>5. Asked("challenge")' /\ (Asked("login")' <=> Asked("login"))
    BY <1>0, <2>4
  <2>6. FlagInv'
    BY <2>1, <2>5, Zenon DEF BusyInv, FlagInv
  <2> QED
    BY <2>4, <2>6 DEF BusyInv
<1>3. CASE HandleRevokeAll
  <2>1. /\ route = "sessions" /\ ~revoking /\ Send("revokeAll") /\ revoking' = TRUE
        /\ UNCHANGED route
    BY <1>3, Zenon DEF HandleRevokeAll, SessionsOffers
  <2>2. ~Asked("revokeAll")
    BY <2>1, Zenon DEF BusyInv, FlagInv
  <2>3. HomeOf("revokeAll") = "sessions"
    BY DEF HomeOf
  <2>4. \A f \in Forms : Single(f)' /\ (Asked(f)' <=> Asked(f) \/ f = "revokeAll")
    BY <1>0, <2>1, <2>2, <2>3, SendAsks
  <2>5. Asked("revokeAll")'
    BY <1>0, <2>4
  <2>6. FlagInv'
    BY <2>1, <2>5, Zenon DEF FlagInv
  <2> QED
    BY <2>4, <2>6 DEF BusyInv
<1>4. CASE HandleSignOut
  <2>1. Send("logout") /\ UNCHANGED <<route, isSubmitting, isMfaSubmitting, revoking>>
    BY <1>4 DEF HandleSignOut, pageVars, loginVars
  <2>2. \A f \in Forms : Single(f)' /\ (Asked(f)' <=> Asked(f) \/ f = "logout")
    BY <1>0, <2>1, SendAsks
  <2>3. \A f \in Forms : Asked(f)' <=> Asked(f)
    BY <1>0, <2>2
  <2> QED
    BY <2>1, <2>2, <2>3, BusyStays
<1> QED
  BY <1>1, <1>2, <1>3, <1>4

(* An answer frees its own button, if its page is still there.             *)
LEMMA AnswerLeaves ==
  ASSUME IndInv, BusyInv, NEW c \in calls, NEW op \in Ops, c.op = op, calls' = calls \ {c},
         route' = route
  PROVE  /\ \A f \in Forms : Single(f)'
         /\ \A f \in Forms : f # op => (Asked(f)' <=> Asked(f))
         /\ op \in Forms /\ c.mine = TRUE => ~Asked(op)' /\ Asked(op)
         /\ op \in Forms /\ c.mine = FALSE => (Asked(op)' <=> Asked(op))
<1>1. \A f \in Forms : Single(f)'
  BY DEF BusyInv, Single
<1>2. ASSUME NEW f \in Forms, f # op PROVE Asked(f)' <=> Asked(f)
  BY <1>2 DEF Asked, Is
<1>3. ASSUME op \in Forms, c.mine = TRUE PROVE ~Asked(op)' /\ Asked(op)
  BY <1>3 DEF BusyInv, Single, Asked, Is
<1>4. ASSUME op \in Forms, c.mine = FALSE PROVE Asked(op)' <=> Asked(op)
  BY <1>4 DEF Asked, Is
<1> QED
  BY <1>1, <1>2, <1>3, <1>4

LEMMA BusyAnswers ==
  ASSUME IndInv, BusyInv, NEW c \in calls,
         \/ LoginAnswered(c) \/ ChallengeAnswered(c) \/ RevokeAllAnswered(c)
         \/ LogoutAnswered(c) \/ MeAnswered(c)
  PROVE  BusyInv'
<1>0. /\ {"login", "challenge", "revokeAll", "logout", "me"} \subseteq Ops
      /\ Forms = {"login", "challenge", "revokeAll"}
      /\ c.mine \in BOOLEAN
  BY DEF Ops, Forms, IndInv, CallInv, CallType
<1>1. CASE LoginAnswered(c)
  <2>1. /\ c.op = "login" /\ calls' = calls \ {c} /\ route' = route
        /\ isSubmitting' = (isSubmitting /\ ~c.mine) /\ UNCHANGED <<isMfaSubmitting, revoking>>
    BY <1>1, Zenon DEF LoginAnswered, Answered
  <2>2. /\ \A f \in Forms : Single(f)'
        /\ \A f \in Forms : f # "login" => (Asked(f)' <=> Asked(f))
        /\ c.mine = TRUE => ~Asked("login")' /\ Asked("login")
        /\ c.mine = FALSE => (Asked("login")' <=> Asked("login"))
    BY <1>0, <2>1, AnswerLeaves
  <2>3. (Asked("challenge")' <=> Asked("challenge")) /\ (Asked("revokeAll")' <=> Asked("revokeAll"))
    BY <1>0, <2>2
  <2>4. FlagInv'
    BY <1>0, <2>1, <2>2, <2>3, Zenon DEF BusyInv, FlagInv
  <2> QED
    BY <2>2, <2>4 DEF BusyInv
<1>2. CASE ChallengeAnswered(c)
  <2>1. /\ c.op = "challenge" /\ calls' = calls \ {c} /\ route' = route
        /\ isMfaSubmitting' = (isMfaSubmitting /\ ~c.mine) /\ UNCHANGED <<isSubmitting, revoking>>
    BY <1>2, Zenon DEF ChallengeAnswered, Answered
  <2>2. /\ \A f \in Forms : Single(f)'
        /\ \A f \in Forms : f # "challenge" => (Asked(f)' <=> Asked(f))
        /\ c.mine = TRUE => ~Asked("challenge")' /\ Asked("challenge")
        /\ c.mine = FALSE => (Asked("challenge")' <=> Asked("challenge"))
    BY <1>0, <2>1, AnswerLeaves
  <2>3. (Asked("login")' <=> Asked("login")) /\ (Asked("revokeAll")' <=> Asked("revokeAll"))
    BY <1>0, <2>2
  <2>4. FlagInv'
    BY <1>0, <2>1, <2>2, <2>3, Zenon DEF BusyInv, FlagInv
  <2> QED
    BY <2>2, <2>4 DEF BusyInv
<1>3. CASE RevokeAllAnswered(c)
  <2>1. /\ c.op = "revokeAll" /\ calls' = calls \ {c} /\ route' = route
        /\ revoking' = (revoking /\ ~c.mine) /\ UNCHANGED <<isSubmitting, isMfaSubmitting>>
    BY <1>3, Zenon DEF RevokeAllAnswered, Answered, loginVars
  <2>2. /\ \A f \in Forms : Single(f)'
        /\ \A f \in Forms : f # "revokeAll" => (Asked(f)' <=> Asked(f))
        /\ c.mine = TRUE => ~Asked("revokeAll")' /\ Asked("revokeAll")
        /\ c.mine = FALSE => (Asked("revokeAll")' <=> Asked("revokeAll"))
    BY <1>0, <2>1, AnswerLeaves
  <2>3. (Asked("login")' <=> Asked("login")) /\ (Asked("challenge")' <=> Asked("challenge"))
    BY <1>0, <2>2
  <2>4. FlagInv'
    BY <1>0, <2>1, <2>2, <2>3, Zenon DEF BusyInv, FlagInv
  <2> QED
    BY <2>2, <2>4 DEF BusyInv
<1>4. CASE LogoutAnswered(c) \/ MeAnswered(c)
  <2>1. /\ c.op \in {"logout", "me"} /\ calls' = calls \ {c}
        /\ UNCHANGED <<route, isSubmitting, isMfaSubmitting, revoking>>
    BY <1>4 DEF LogoutAnswered, MeAnswered, Answered, pageVars, loginVars
  <2>2. \A f \in Forms : Single(f)' /\ (Asked(f)' <=> Asked(f))
    BY <1>0, <2>1, AnswerLeaves
  <2> QED
    BY <2>1, <2>2, BusyStays
<1> QED
  BY <1>1, <1>2, <1>3, <1>4

LEMMA BusyNext == IndInv /\ BusyInv /\ [Next]_vars => BusyInv'
<1> SUFFICES ASSUME IndInv, BusyInv, [Next]_vars PROVE BusyInv'
  OBVIOUS
<1>1. CASE Admin
  <2>1. CASE \E to \in Protected : Visit(to)
    BY <2>1, BusyIdle DEF Visit
  <2>2. CASE Typing
    BY <2>2, BusyIdle DEF Typing, HandleBackspace, HandleChange, HandlePaste, FormAround, callVars
  <2>3. CASE Back
    BY <2>3, BusyIdle DEF Back, callVars
  <2> QED
    BY <1>1, <2>1, <2>2, <2>3, BusySends DEF Admin
<1>2. CASE Server
  <2>1. ASSUME NEW c \in calls, NEW at, NEW jar, NEW alive, Serve(c, at, jar, alive) PROVE BusyInv'
    BY <2>1, BusyBecomes DEF Serve, pageVars, loginVars
  <2>2. ASSUME NEW ok \in BOOLEAN, Refreshed(ok) PROVE BusyInv'
    BY <2>2, BusyResumes
  <2> QED
    BY <1>2, <2>1, <2>2
       DEF Server, ServeLogin, ServeChallenge, ServeMe, ServeLogout, ServeRevokeAll, Unauthorized, Refused
<1>3. CASE Client
  <2>1. ASSUME NEW c \in calls, Meet401(c) PROVE BusyInv'
    BY <2>1, BusyBecomes DEF Meet401, pageVars, loginVars
  <2> QED
    BY <1>3, <2>1, BusyAnswers DEF Client
<1>4. CASE Elsewhere
  BY <1>4, BusyIdle DEF Elsewhere
<1>5. CASE UNCHANGED vars
  BY <1>5, BusyIdle DEF vars
<1> QED
  BY <1>1, <1>2, <1>3, <1>4, <1>5, BusyNavigates DEF Next

(* A button is busy exactly while a request of the page on screen is out,  *)
(* one of a kind at most, for any number of calls: neither an early return *)
(* nor Back nor a late answer leaves it dead or frees it too soon.         *)
THEOREM ButtonsAreExact == Spec => []BusyIsExact
<1>1. Init => IndInv /\ BusyInv
  BY InvInit, BusyInit
<1>2. (IndInv /\ BusyInv) /\ [Next]_vars => (IndInv /\ BusyInv)'
  BY InvNext, BusyNext
<1>3. IndInv /\ BusyInv => BusyIsExact
  BY BusyImplies
<1> QED
  BY <1>1, <1>2, <1>3, PTL DEF Spec

=============================================================================
