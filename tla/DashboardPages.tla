---------------------------- MODULE DashboardPages ----------------------------
(***************************************************************************)
(* The tenant console's shell (apps/web/components/shell and controls) and *)
(* the pages of it that load a report and show it: the Overview            *)
(* (app/(dashboard)/page.tsx), the Invitations page with its form and list *)
(* (components/invitations) and the OAuth panel, which shows what its URL  *)
(* says.  Failed calls go through lib/api.ts and lib/error-messages.ts.    *)
(*                                                                         *)
(* A load is started by an effect and is never cancelled: the session may  *)
(* change, another invitation may be sent and the page may be left before  *)
(* it answers, and two loads answer in any order.  The session provider    *)
(* and the API are external.                                               *)
(***************************************************************************)
EXTENDS Naturals, FiniteSets

CONSTANTS
  Addresses,   \* what may be typed into the invite form: valid e-mail addresses
  MaxCalls     \* bounds the calls made

ASSUME MaxCallsAssumption == MaxCalls \in Nat

Statuses == {"loading", "unauthenticated", "authenticated"}
Roles == {"user", "admin"}
Drafts == Addresses \cup {"", "malformed"}

VARIABLES
  status,      \* the session provider's status
  role,        \* its user's role, "none" without a user
  path,        \* the page at hand
  tenant,      \* the tenant in the URL
  menuOpen,    \* the sidebar overlay
  overview,    \* the Overview's load state, and which load it shows
  list,        \* the accepted invitations' load state, and which load it shows
  refreshKey,  \* the newest load the list was asked for, 0 before
  form,        \* the invite form: e-mail, busy, and the notice under it
  url,         \* the OAuth panel's error and trace parameters
  calls,       \* the calls of the page at hand that were not answered yet
  made,        \* calls so far
  due,         \* history: the first call that may answer what the page is due
  overlapped   \* history: two loads of the page at hand were in flight together

pageVars == <<overview, list, refreshKey, form>>
vars == <<status, role, path, tenant, menuOpen, pageVars, url, calls, made, due, overlapped>>

-----------------------------------------------------------------------------
(* The shell.                                                              *)
DashboardNav == {"overview", "trigger", "security", "sessions", "oauth", "account"}
AdminNav == {"invitations", "audit"}
PlatformNav == {"tenants", "users"}
Pages == {"overview", "invitations", "oauth"}     \* the ones modelled here

(* The sidebar's links: invitations and audit are an administrator's.      *)
Sidebar == DashboardNav \cup PlatformNav \cup IF role = "admin" THEN AdminNav ELSE {}

(* The topbar's session badge.                                             *)
SessionBadge ==
  CASE status = "loading"       -> "skeleton"
    [] status = "authenticated" -> "menu"
    [] OTHER                    -> "sign in"

-----------------------------------------------------------------------------
(* lib/api.ts: what a response's body makes of a failed call.  The body    *)
(* is read as an envelope when it parses, is not null and its error has a  *)
(* code and a message; an error that is null cannot be read at all.        *)
Bodies == {"unparsable", "null", "no error", "null error", "no code", "envelope"}

ReadErrorBody(body) ==
  CASE body = "envelope"   -> "code"
    [] body = "null error" -> "TypeError"
    [] OTHER               -> "undefined"

(* What a form shows for the failure: the wire's code, or auth.internal.   *)
CodeOf(body, code) == IF ReadErrorBody(body) = "code" THEN code ELSE "auth.internal"

(* lib/error-messages.ts: codes of the table, codes that are not in it,    *)
(* and names the table's object inherits.                                  *)
Localized == {"auth.internal", "auth.conflict"}
Inherited == {"toString"}
Codes == Localized \cup Inherited \cup {"other"}

MessageForCode(code) ==
  CASE code \in Localized -> code
    [] code \in Inherited -> "undefined"
    [] OTHER              -> "generic"

AuthError(code) == IF code = "null" THEN "nothing" ELSE MessageForCode(code)

-----------------------------------------------------------------------------
(* Calls.                                                                  *)
InFlight(kind) == {c \in calls : c.kind = kind}

Load(kind) ==
  /\ made < MaxCalls
  /\ made' = made + 1
  /\ calls' = calls \cup {[id |-> made + 1, kind |-> kind, email |-> ""]}
  /\ overlapped' = (overlapped \/ InFlight(kind) # {})

NoLoad == UNCHANGED <<calls, made, overlapped>>

Loading == [kind |-> "loading", of |-> 0]
FreshForm == [email |-> "", busy |-> FALSE, notice |-> "none"]

(* The Overview's effect runs when the status becomes authenticated; load  *)
(* shows the skeleton and asks for the aggregate.                          *)
OverviewLoads ==
  /\ Load("aggregate")
  /\ overview' = Loading

(* What the Overview shows: its own sign-in card, the skeleton, the error  *)
(* with its Retry, or the figures.                                         *)
OverviewShows ==
  IF status = "unauthenticated" THEN "sign in"
  ELSE IF status = "loading" \/ overview.kind = "loading" THEN "skeleton"
  ELSE overview.kind

(* The session provider validates, signs in or out.                        *)
Status(s, r) ==
  /\ s # status
  /\ status' = s
  /\ role' = r
  /\ IF path = "overview" /\ s = "authenticated"
     THEN OverviewLoads /\ due' = made + 1
     ELSE NoLoad /\ UNCHANGED <<overview, due>>
  /\ UNCHANGED <<path, tenant, menuOpen, list, refreshKey, form, url>>

Retry ==
  /\ path = "overview" /\ OverviewShows = "error"
  /\ OverviewLoads
  /\ UNCHANGED <<status, role, path, tenant, menuOpen, list, refreshKey, form, url, due>>

-----------------------------------------------------------------------------
(* A page is mounted: what it held before is gone, what it awaited finds   *)
(* nothing to update, and its first effect runs.                           *)
Mount(p) ==
  /\ path' = p
  /\ overview' = Loading /\ list' = Loading /\ form' = FreshForm
  /\ overlapped' = FALSE
  /\ IF p = "invitations" \/ (p = "overview" /\ status = "authenticated")
     THEN /\ made < MaxCalls
          /\ made' = made + 1
          /\ calls' = {[id |-> made + 1, kind |-> IF p = "overview" THEN "aggregate" ELSE "list",
                        email |-> ""]}
          /\ due' = made + 1
          /\ refreshKey' = IF p = "invitations" THEN made + 1 ELSE 0
     ELSE calls' = {} /\ refreshKey' = 0 /\ due' = 0 /\ UNCHANGED made

(* A link of the sidebar, which dismisses the overlay, or any other way.   *)
Follow(p) ==
  /\ p \in Sidebar \cap Pages /\ p # path
  /\ Mount(p)
  /\ menuOpen' = FALSE
  /\ UNCHANGED <<status, role, tenant, url>>

Browse(p) ==
  /\ p # path
  /\ Mount(p)
  /\ UNCHANGED <<status, role, tenant, menuOpen, url>>

ToggleMenu ==
  /\ menuOpen' = ~menuOpen
  /\ UNCHANGED <<status, role, path, tenant, pageVars, url, calls, made, due, overlapped>>

SetTenant(t) ==
  /\ t # tenant
  /\ tenant' = t
  /\ UNCHANGED <<status, role, path, menuOpen, pageVars, url, calls, made, due, overlapped>>

(* The OAuth panel reads an error and a trace out of its URL.              *)
Decisions == {"created", "linked"}
Branches == {"authenticated", "redirect", "mfa_challenge"}
ParseCallbackTrace(decision, branch) ==
  IF decision \in Decisions /\ branch \in Branches THEN <<decision, branch>> ELSE <<>>

Panel == [banner |-> AuthError(url.error), trace |-> ParseCallbackTrace(url.decision, url.branch)]

Callback(error, decision, branch) ==
  /\ path = "oauth"
  /\ url' = [error |-> error, decision |-> decision, branch |-> branch]
  /\ UNCHANGED <<status, role, path, tenant, menuOpen, pageVars, calls, made, due, overlapped>>

-----------------------------------------------------------------------------
(* The invite form and the list beside it.                                 *)
Unchanged == UNCHANGED <<status, role, path, tenant, menuOpen, url>>

TypeAddress(e) ==
  /\ path = "invitations" /\ e # form.email
  /\ form' = [form EXCEPT !.email = e]
  /\ NoLoad /\ Unchanged /\ UNCHANGED <<overview, list, refreshKey, due>>

Submit ==
  /\ path = "invitations" /\ ~form.busy
  /\ IF form.email \in Addresses
     THEN /\ made < MaxCalls
          /\ made' = made + 1
          /\ calls' = calls \cup {[id |-> made + 1, kind |-> "invite", email |-> form.email]}
          /\ form' = [form EXCEPT !.busy = TRUE, !.notice = "none"]
     ELSE /\ form' = [form EXCEPT !.notice = "invalid"]
          /\ UNCHANGED <<calls, made>>
  /\ Unchanged /\ UNCHANGED <<overview, list, refreshKey, due, overlapped>>

(* VARIANT: the list's effect is not keyed on refreshKey.                  *)
InvitedOnly(c) ==
  /\ c.kind = "invite" /\ made < MaxCalls
  /\ form' = [email |-> "", busy |-> FALSE, notice |-> c.email]
  /\ due' = made + 1
  /\ calls' = calls \ {c}
  /\ Unchanged /\ UNCHANGED <<made, overlapped, overview, list, refreshKey>>

(* The invitation is sent: onInvited bumps the key, whose effect loads the *)
(* list again; whatever the form holds by now is cleared.                  *)
Invited(c) ==
  /\ c.kind = "invite" /\ made < MaxCalls
  /\ form' = [email |-> "", busy |-> FALSE, notice |-> c.email]
  /\ refreshKey' = made + 1
  /\ due' = made + 1
  /\ made' = made + 1
  /\ calls' = (calls \ {c}) \cup {[id |-> made + 1, kind |-> "list", email |-> ""]}
  /\ overlapped' = (overlapped \/ InFlight("list") # {})
  /\ list' = Loading
  /\ Unchanged /\ UNCHANGED overview

(* VARIANT: only a success clears busy.                                    *)
InviteFailsStillBusy(c) ==
  /\ c.kind = "invite"
  /\ \E body \in Bodies, code \in Codes : form' = [form EXCEPT !.notice = CodeOf(body, code)]
  /\ calls' = calls \ {c}
  /\ Unchanged /\ UNCHANGED <<overview, list, refreshKey, due, made, overlapped>>

InviteFails(c) ==
  /\ c.kind = "invite"
  /\ \E body \in Bodies, code \in Codes :
       form' = [form EXCEPT !.busy = FALSE, !.notice = CodeOf(body, code)]
  /\ calls' = calls \ {c}
  /\ Unchanged /\ UNCHANGED <<overview, list, refreshKey, due, made, overlapped>>

(* A load resolves, or fails in any way.                                   *)
Shows(c, state) ==
  /\ calls' = calls \ {c}
  /\ IF c.kind = "list" THEN list' = [kind |-> state, of |-> c.id] /\ UNCHANGED overview
     ELSE overview' = [kind |-> state, of |-> c.id] /\ UNCHANGED list
  /\ Unchanged /\ UNCHANGED <<refreshKey, form, due, made, overlapped>>

(* VARIANT: the failure of a load is not caught.                           *)
LoadAnsweredUncaught(c) ==
  /\ c.kind \in {"list", "aggregate"}
  /\ \/ Shows(c, "ready")
     \/ /\ calls' = calls \ {c}
        /\ Unchanged /\ UNCHANGED <<pageVars, due, made, overlapped>>

LoadAnswered(c) == c.kind \in {"list", "aggregate"} /\ \E state \in {"ready", "error"} : Shows(c, state)

-----------------------------------------------------------------------------
Init ==
  /\ status = "loading" /\ role = "none"
  /\ path \in {"overview", "oauth"}
  /\ tenant = "acme" /\ menuOpen = FALSE
  /\ overview = Loading /\ list = Loading /\ refreshKey = 0 /\ form = FreshForm
  /\ url = [error |-> "null", decision |-> "null", branch |-> "null"]
  /\ calls = {} /\ made = 0 /\ due = 0 /\ overlapped = FALSE

Next ==
  \/ \E s \in Statuses, r \in Roles \cup {"none"} : (s = "authenticated" <=> r # "none") /\ Status(s, r)
  \/ Retry \/ ToggleMenu
  \/ \E p \in Pages : Follow(p) \/ Browse(p)
  \/ \E t \in {"acme", "globex"} : SetTenant(t)
  \/ \E e \in Codes \cup {"null"}, d \in {"null", "linked"}, b \in {"other", "redirect"} : Callback(e, d, b)
  \/ \E e \in Drafts : TypeAddress(e)
  \/ Submit
  \/ \E c \in calls : Invited(c) \/ InviteFails(c) \/ LoadAnswered(c)

Spec == Init /\ [][Next]_vars

-----------------------------------------------------------------------------
(* Properties                                                              *)

(* Type invariant: the form is busy exactly while an invitation is in      *)
(* flight, and calls are those of the page at hand.                        *)
TypeOK ==
  /\ status \in Statuses /\ path \in Pages /\ menuOpen \in BOOLEAN
  /\ role # "none" <=> status = "authenticated"
  /\ {overview.kind, list.kind} \subseteq {"loading", "ready", "error"}
  /\ form.email \in Drafts
  /\ form.notice \in {"none", "invalid"} \cup Addresses \cup Codes
  /\ form.busy <=> InFlight("invite") # {}
  /\ Cardinality(InFlight("invite")) <= 1
  /\ \A c \in calls : c.kind = "aggregate" <=> path = "overview"
  /\ made \in 0..MaxCalls /\ refreshKey <= made /\ due <= made

(* No report is awaited that nobody asked for: a skeleton shown to a       *)
(* signed-in user has its load in flight (page.tsx load,                   *)
(* AcceptedInvitations.tsx effect).                                        *)
SkeletonHasLoad ==
  /\ path = "overview" /\ status = "authenticated" /\ overview.kind = "loading"
       => InFlight("aggregate") # {}
  /\ path = "invitations" /\ list.kind = "loading" => InFlight("list") # {}

(* While no two loads overlap, a page never goes on showing a report from  *)
(* before the event that made a new one due: signing in for the Overview,  *)
(* an invitation being sent for the list beside the form                   *)
(* (page.tsx effect, invitations/page.tsx onInvited).                      *)
ReportIsDue ==
  ~overlapped =>
    /\ path = "overview" /\ OverviewShows \in {"ready", "error"} => overview.of >= due
    /\ path = "invitations" /\ list.kind # "loading" => list.of >= due

=============================================================================
