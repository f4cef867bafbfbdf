------------------------ MODULE DashboardPages_proofs ------------------------
(***************************************************************************)
(* Proofs about DashboardPages for any addresses and any number of calls:  *)
(* its types, that no skeleton is left without a load that will end it,    *)
(* and that a page whose loads do not overlap shows what is due.           *)
(***************************************************************************)
EXTENDS DashboardPages, FiniteSetTheorems, TLAPS

Kinds == {"aggregate", "list", "invite"}
CallType == [id : Nat, kind : Kinds, email : Addresses \cup {""}]
LoadState == [kind : {"loading", "ready", "error"}, of : Nat]
FormType == [email : Drafts, busy : BOOLEAN,
             notice : {"none", "invalid"} \cup Addresses \cup Codes]

(* The parts of the invariant: what the variables hold, ...                *)
DataInv ==
  /\ status \in Statuses /\ path \in Pages /\ menuOpen \in BOOLEAN
  /\ role # "none" <=> status = "authenticated"
  /\ overview \in LoadState /\ list \in LoadState
  /\ form \in FormType
  /\ overlapped \in BOOLEAN
  /\ made \in Nat /\ made <= MaxCalls
  /\ refreshKey \in Nat /\ refreshKey <= made
  /\ due \in Nat /\ due <= made

(* ... that a call is of the page at hand, ...                             *)
CallInv ==
  /\ calls \subseteq CallType
  /\ \A c \in calls :
       /\ c.id <= made
       /\ c.kind = "aggregate" <=> path = "overview"
       /\ c.kind # "aggregate" => path = "invitations"
       /\ c.kind = "invite" => c.email \in Addresses

(* ... that the guard of the form lets one invitation out at a time, ...   *)
FormInv ==
  /\ form.busy <=> \E c \in calls : c.kind = "invite"
  /\ \A c, d \in calls : c.kind = "invite" /\ d.kind = "invite" => c = d

(* ... and that, unless loads overlap, what is in flight or shown answers  *)
(* the event that made it due.                                             *)
DueInv ==
  ~overlapped =>
    /\ \A c \in calls : c.kind # "invite" => c.id >= due
    /\ path = "overview" /\ overview.kind # "loading" => overview.of >= due
    /\ path = "invitations" /\ list.kind # "loading" => list.of >= due

IndInv == DataInv /\ CallInv /\ FormInv /\ SkeletonHasLoad /\ DueInv

-----------------------------------------------------------------------------
(* At most one invitation: a set whose members are equal.                  *)
LEMMA AtMostOne ==
  ASSUME NEW S, \A a, b \in S : a = b
  PROVE  Cardinality(S) <= 1
<1>1. CASE S = {}
  BY <1>1, FS_EmptySet
<1>2. CASE S # {}
  <2>1. PICK a : a \in S
    BY <1>2
  <2>2. S = {a}
    BY <2>1
  <2> QED
    BY <2>2, FS_Singleton
<1> QED
  BY <1>1, <1>2

(* The code a failure shows is one of the codes.                           *)
LEMMA CodeOfType ==
  ASSUME NEW body, NEW code \in Codes
  PROVE  CodeOf(body, code) \in Codes
<1>1. "auth.internal" \in Codes
  BY DEF Codes, Localized
<1> QED
  BY <1>1, Zenon DEF CodeOf

(* The invariant implies the properties.                                   *)
LEMMA InvImplies == IndInv => TypeOK /\ SkeletonHasLoad /\ ReportIsDue
<1> SUFFICES ASSUME IndInv PROVE TypeOK /\ ReportIsDue
  BY DEF IndInv
<1>1. Cardinality(InFlight("invite")) <= 1
  <2>1. \A a, b \in InFlight("invite") : a = b
    BY DEF IndInv, FormInv, InFlight
  <2> QED
    BY <2>1, AtMostOne
<1>2. form.busy <=> InFlight("invite") # {}
  BY DEF IndInv, FormInv, InFlight
<1>3. /\ form.email \in Drafts
      /\ form.notice \in {"none", "invalid"} \cup Addresses \cup Codes
      /\ {overview.kind, list.kind} \subseteq {"loading", "ready", "error"}
  BY DEF IndInv, DataInv, FormType, LoadState
<1>4. refreshKey <= made /\ due <= made
  BY DEF IndInv, DataInv
<1>5. TypeOK
  <2>1. made \in 0..MaxCalls
    BY MaxCallsAssumption DEF IndInv, DataInv
  <2> QED
    BY <1>1, <1>2, <1>3, <1>4, <2>1 DEF IndInv, DataInv, CallInv, TypeOK
<1>6. ReportIsDue
  <2>1. path = "overview" /\ OverviewShows \in {"ready", "error"} => overview.kind # "loading"
    BY DEF OverviewShows
  <2> QED
    BY <2>1 DEF IndInv, DueInv, ReportIsDue
<1> QED
  BY <1>5, <1>6

(* A call that is made now joins the others.                               *)
LEMMA CallJoins ==
  ASSUME DataInv, CallInv, NEW S \in SUBSET calls, NEW new \in CallType,
         new.id = made + 1, made' = made + 1, path' = path, calls' = S \cup {new},
         new.kind = "aggregate" <=> path = "overview",
         new.kind # "aggregate" => path = "invitations",
         new.kind = "invite" => new.email \in Addresses
  PROVE  CallInv'
<1>1. calls' \subseteq CallType
  BY DEF CallInv
<1>2. ASSUME NEW c \in calls'
      PROVE  /\ c.id <= made'
             /\ c.kind = "aggregate" <=> path' = "overview"
             /\ c.kind # "aggregate" => path' = "invitations"
             /\ c.kind = "invite" => c.email \in Addresses
  <2>1. CASE c = new
    BY <2>1 DEF DataInv
  <2>2. CASE c \in calls
    <3>1. c.id \in Nat /\ c.id <= made
      BY <2>2 DEF CallInv, CallType
    <3>2. c.id <= made'
      BY <3>1 DEF DataInv
    <3> QED
      BY <2>2, <3>2 DEF CallInv
  <2> QED
    BY <2>1, <2>2
<1> QED
  BY <1>1, <1>2 DEF CallInv

LEMMA InvInit == Init => IndInv
<1> SUFFICES ASSUME Init PROVE IndInv
  OBVIOUS
<1>1. overview \in LoadState /\ list \in LoadState
  BY DEF Init, Loading, LoadState
<1>2. form \in FormType /\ ~form.busy
  BY DEF Init, FreshForm, FormType, Drafts
<1>3. status = "loading" /\ role = "none" /\ path \in Pages /\ menuOpen \in BOOLEAN /\ overlapped \in BOOLEAN
  BY DEF Init, Pages
<1>4. made = 0 /\ refreshKey = 0 /\ due = 0 /\ calls = {} /\ path # "invitations"
      /\ overview.kind = "loading"
  BY DEF Init, Loading
<1>5. DataInv
  BY <1>1, <1>2, <1>3, <1>4, MaxCallsAssumption DEF DataInv, Statuses
<1>6. CallInv /\ FormInv /\ DueInv
  BY <1>2, <1>4 DEF CallInv, FormInv, DueInv
<1>7. SkeletonHasLoad
  BY <1>3, <1>4 DEF SkeletonHasLoad
<1> QED
  BY <1>5, <1>6, <1>7 DEF IndInv

-----------------------------------------------------------------------------
(* A load joins the calls of the page it was made for.                     *)
LEMMA OverviewLoadKeeps ==
  ASSUME IndInv, OverviewLoads, path = "overview",
         status' \in Statuses, role' # "none" <=> status' = "authenticated",
         due' \in {due, made + 1},
         UNCHANGED <<path, menuOpen, list, refreshKey, form>>
  PROVE  IndInv'
<1> DEFINE new == [id |-> made + 1, kind |-> "aggregate", email |-> ""]
<1>a. /\ made < MaxCalls /\ made' = made + 1 /\ calls' = calls \cup {new}
      /\ overlapped' = (overlapped \/ InFlight("aggregate") # {})
      /\ overview' = [kind |-> "loading", of |-> 0]
  BY Zenon DEF OverviewLoads, Load, Loading
<1>b. new \in CallType /\ new.id = made + 1 /\ new.kind = "aggregate"
  BY DEF CallType, Kinds, IndInv, DataInv
<1>c. overlapped \in BOOLEAN /\ overlapped' \in BOOLEAN
  BY <1>a, Zenon DEF IndInv, DataInv
<1>d. ~overlapped' => ~overlapped /\ InFlight("aggregate") = {}
  BY <1>a, <1>c, Zenon
<1> HIDE DEF new
<1>0. /\ made < MaxCalls /\ made' = made + 1 /\ calls' = calls \cup {new}
      /\ overview' = [kind |-> "loading", of |-> 0]
      /\ new \in CallType /\ new.id = made + 1 /\ new.kind = "aggregate"
  BY <1>a, <1>b
<1>1. DataInv'
  <2>1. overview' \in LoadState
    BY <1>0 DEF LoadState
  <2> QED
    BY <1>0, <1>c, <2>1, MaxCallsAssumption DEF IndInv, DataInv
<1>2. CallInv'
  BY <1>0, CallJoins DEF IndInv
<1>3. FormInv'
  BY <1>0 DEF IndInv, FormInv
<1>4. SkeletonHasLoad'
  BY <1>0 DEF IndInv, SkeletonHasLoad, InFlight
<1>5. DueInv'
  <2>1. ASSUME ~overlapped' PROVE \A c \in calls' : c = new
    BY <1>0, <1>d, <2>1 DEF IndInv, CallInv, InFlight
  <2> QED
    BY <1>0, <2>1 DEF IndInv, DataInv, DueInv
<1> QED
  BY <1>1, <1>2, <1>3, <1>4, <1>5 DEF IndInv

(* A page that is mounted starts over.                                     *)
LEMMA MountKeeps ==
  ASSUME IndInv, NEW p \in Pages, Mount(p), menuOpen' \in BOOLEAN, UNCHANGED <<status, role>>
  PROVE  IndInv'
<1>1. /\ path' = p /\ overlapped' = FALSE
      /\ overview' = [kind |-> "loading", of |-> 0] /\ list' = [kind |-> "loading", of |-> 0]
      /\ form' = [email |-> "", busy |-> FALSE, notice |-> "none"]
  BY DEF Mount, Loading, FreshForm
<1>2. overview' \in LoadState /\ list' \in LoadState /\ form' \in FormType
  BY <1>1 DEF LoadState, FormType, Drafts
<1>5. /\ status' \in Statuses /\ path' \in Pages /\ menuOpen' \in BOOLEAN
      /\ role' # "none" <=> status' = "authenticated"
  BY <1>1 DEF IndInv, DataInv
<1>6. overlapped' \in BOOLEAN
  BY <1>1
<1>7. path' = p /\ overview'.kind = "loading" /\ list'.kind = "loading" /\ ~form'.busy
  BY <1>1
<1>8. made \in Nat /\ made <= MaxCalls
  BY DEF IndInv, DataInv
<1>3. CASE p = "invitations" \/ (p = "overview" /\ status = "authenticated")
  <2> DEFINE new == [id |-> made + 1, kind |-> IF p = "overview" THEN "aggregate" ELSE "list", email |-> ""]
  <2>1. /\ made < MaxCalls /\ made' = made + 1 /\ calls' = {new} /\ due' = made + 1
        /\ refreshKey' \in {0, made + 1}
    BY <1>3 DEF Mount
  <2>2. /\ new \in CallType /\ new.id = made + 1 /\ new.kind # "invite"
        /\ new.kind = "aggregate" <=> p = "overview"
        /\ new.kind = "list" <=> p = "invitations"
    <3>1. CASE p = "overview"
      BY <3>1 DEF CallType, Kinds, IndInv, DataInv
    <3>2. CASE p = "invitations"
      BY <3>2 DEF CallType, Kinds, IndInv, DataInv
    <3> QED
      BY <1>3, <3>1, <3>2
  <2> HIDE DEF new
  <2>3. DataInv'
    BY <1>2, <1>5, <1>6, <1>8, <2>1, MaxCallsAssumption DEF DataInv
  <2>4. CallInv'
    <3>1. new.id <= made'
      BY <1>8, <2>1, <2>2
    <3>2. new.kind # "aggregate" => new.kind = "list"
      BY <2>2 DEF CallType, Kinds
    <3>3. calls' \subseteq CallType /\ \A c \in calls' : c = new
      BY <2>1, <2>2
    <3> QED
      BY <1>7, <2>2, <3>1, <3>2, <3>3 DEF CallInv
  <2>5. FormInv'
    BY <1>7, <2>1, <2>2 DEF FormInv
  <2>6. SkeletonHasLoad'
    BY <1>7, <2>1, <2>2 DEF SkeletonHasLoad, InFlight
  <2>7. DueInv'
    <3>1. \A c \in calls' : c.id >= due'
      BY <1>8, <2>1, <2>2
    <3> QED
      BY <1>7, <3>1 DEF DueInv
  <2> QED
    BY <2>3, <2>4, <2>5, <2>6, <2>7 DEF IndInv
<1>4. CASE ~(p = "invitations" \/ (p = "overview" /\ status = "authenticated"))
  <2>1. calls' = {} /\ refreshKey' = 0 /\ due' = 0 /\ made' = made
    BY <1>4 DEF Mount
  <2>2. DataInv'
    BY <1>2, <1>5, <1>6, <1>8, <2>1 DEF DataInv
  <2> QED
    BY <1>4, <1>7, <2>1, <2>2 DEF IndInv, CallInv, FormInv, SkeletonHasLoad, DueInv
<1> QED
  BY <1>3, <1>4

(* A step that moves no call and no report.                                *)
LEMMA ShellKeeps ==
  ASSUME IndInv, status' \in Statuses, role' # "none" <=> status' = "authenticated",
         path = "overview" => status' # "authenticated" \/ status' = status,
         menuOpen' \in BOOLEAN, form' \in FormType, form'.busy = form.busy,
         UNCHANGED <<path, overview, list, refreshKey, calls, made, due, overlapped>>
  PROVE  IndInv'
<1>1. DataInv'
  BY DEF IndInv, DataInv
<1>2. CallInv' /\ FormInv'
  BY DEF IndInv, CallInv, FormInv
<1>3. SkeletonHasLoad'
  BY DEF IndInv, SkeletonHasLoad, InFlight
<1>4. DueInv'
  BY DEF IndInv, DueInv
<1> QED
  BY <1>1, <1>2, <1>3, <1>4 DEF IndInv

-----------------------------------------------------------------------------
(* The invite form sends, ...                                              *)
LEMMA SubmitKeeps == ASSUME IndInv, Submit PROVE IndInv'
<1>1. UNCHANGED <<status, role, path, menuOpen, overview, list, refreshKey, due, overlapped>>
      /\ path = "invitations" /\ ~form.busy
  BY DEF Submit, Unchanged
<1>2. CASE form.email \in Addresses
  <2> DEFINE new == [id |-> made + 1, kind |-> "invite", email |-> form.email]
  <2>1. /\ made < MaxCalls /\ made' = made + 1 /\ calls' = calls \cup {new}
        /\ form' = [form EXCEPT !.busy = TRUE, !.notice = "none"]
    BY <1>2 DEF Submit
  <2>2. /\ new \in CallType /\ new.id = made + 1 /\ new.kind = "invite" /\ new.email \in Addresses
    <3>1. made + 1 \in Nat
      BY DEF IndInv, DataInv
    <3> QED
      BY <1>2, <3>1 DEF CallType, Kinds
  <2> HIDE DEF new
  <2>3. form' \in FormType /\ form'.busy = TRUE
    BY <2>1 DEF FormType, IndInv, DataInv
  <2>4. DataInv'
    BY <1>1, <2>1, <2>3, MaxCallsAssumption DEF IndInv, DataInv
  <2>5. CallInv'
    BY <1>1, <2>1, <2>2, CallJoins DEF IndInv
  <2>6. FormInv'
    BY <1>1, <2>1, <2>2, <2>3 DEF IndInv, FormInv
  <2>7. SkeletonHasLoad' /\ DueInv'
    BY <1>1, <2>1, <2>2 DEF IndInv, SkeletonHasLoad, InFlight, DueInv
  <2> QED
    BY <2>4, <2>5, <2>6, <2>7 DEF IndInv
<1>3. CASE form.email \notin Addresses
  <2>1. form' = [form EXCEPT !.notice = "invalid"] /\ UNCHANGED <<calls, made>>
    BY <1>3 DEF Submit
  <2>2. form' \in FormType /\ form'.busy = form.busy
    BY <2>1 DEF FormType, IndInv, DataInv
  <2>3. status' \in Statuses /\ menuOpen' \in BOOLEAN
        /\ (role' # "none" <=> status' = "authenticated")
    BY <1>1 DEF IndInv, DataInv
  <2> QED
    BY <1>1, <2>1, <2>2, <2>3, ShellKeeps
<1> QED
  BY <1>2, <1>3

(* ... its invitation is sent, and the list loads again, ...               *)
LEMMA InvitedKeeps == ASSUME IndInv, NEW c \in calls, Invited(c) PROVE IndInv'
<1> DEFINE new == [id |-> made + 1, kind |-> "list", email |-> ""]
<1>a. /\ UNCHANGED <<status, role, path, menuOpen, overview>>
      /\ c.kind = "invite" /\ made < MaxCalls /\ made' = made + 1
      /\ form' = [email |-> "", busy |-> FALSE, notice |-> c.email]
      /\ refreshKey' = made + 1 /\ due' = made + 1
      /\ calls' = (calls \ {c}) \cup {new}
      /\ overlapped' = (overlapped \/ InFlight("list") # {})
      /\ list' = [kind |-> "loading", of |-> 0]
  BY Zenon DEF Invited, Unchanged, Loading
<1>d. made + 1 \in Nat
  BY DEF IndInv, DataInv
<1>e. new \in CallType /\ new.id = made + 1 /\ new.kind = "list"
  BY <1>d DEF CallType, Kinds
<1>f. c.kind = "invite"
  BY <1>a
<1>g. path = "invitations" /\ c.email \in Addresses
  BY <1>f DEF IndInv, CallInv
<1>2. /\ new \in CallType /\ new.id = made + 1 /\ new.kind = "list"
      /\ path = "invitations" /\ c.email \in Addresses
  BY <1>e, <1>g
<1>b. overlapped \in BOOLEAN /\ overlapped' \in BOOLEAN
  BY <1>a, Zenon DEF IndInv, DataInv
<1>c. ~overlapped' => ~overlapped /\ InFlight("list") = {}
  BY <1>a, <1>b, Zenon
<1> HIDE DEF new
<1>1. /\ UNCHANGED <<status, role, path, menuOpen, overview>>
      /\ c.kind = "invite" /\ made < MaxCalls /\ made' = made + 1
      /\ form' = [email |-> "", busy |-> FALSE, notice |-> c.email]
      /\ refreshKey' = made + 1 /\ due' = made + 1
      /\ calls' = (calls \ {c}) \cup {new}
      /\ list' = [kind |-> "loading", of |-> 0]
  BY <1>a
<1>3. /\ form' \in FormType /\ ~form'.busy /\ list' \in LoadState
  BY <1>1, <1>2 DEF FormType, Drafts, LoadState
<1>4. DataInv'
  <2>1. /\ status' \in Statuses /\ path' \in Pages /\ menuOpen' \in BOOLEAN
        /\ role' # "none" <=> status' = "authenticated"
        /\ overview' \in LoadState
    BY <1>1 DEF IndInv, DataInv
  <2>2. made' \in Nat /\ made' <= MaxCalls /\ refreshKey' = made' /\ due' = made'
    <3>1. made < MaxCalls /\ made' = made + 1 /\ refreshKey' = made + 1 /\ due' = made + 1
      BY <1>a
    <3> QED
      BY <1>d, <3>1, MaxCallsAssumption DEF IndInv, DataInv
  <2> QED
    BY <1>3, <1>b, <2>1, <2>2 DEF DataInv
<1>5. CallInv'
  BY <1>1, <1>2, CallJoins DEF IndInv
<1>6. FormInv'
  BY <1>1, <1>2, <1>3 DEF IndInv, FormInv
<1>7. SkeletonHasLoad'
  BY <1>1, <1>2 DEF SkeletonHasLoad, InFlight
<1>8. DueInv'
  <2>1. ASSUME ~overlapped' PROVE \A d \in calls' : d.kind # "invite" => d.id >= due'
    <3>1. ASSUME NEW d \in calls, d.kind # "invite" PROVE d.kind = "list"
      BY <1>g, <3>1 DEF IndInv, CallInv, CallType, Kinds
    <3>2. \A d \in calls : d.kind = "invite"
      BY <1>c, <2>1, <3>1 DEF InFlight
    <3>3. calls' = (calls \ {c}) \cup {new} /\ due' = made + 1
      BY <1>1
    <3> QED
      BY <1>2, <1>d, <3>2, <3>3
  <2>2. list'.kind = "loading" /\ path' = "invitations"
    BY <1>1, <1>2
  <2> QED
    BY <2>1, <2>2 DEF DueInv
<1> QED
  BY <1>4, <1>5, <1>6, <1>7, <1>8 DEF IndInv

(* ... or fails and frees the form.                                        *)
LEMMA InviteFailsKeeps == ASSUME IndInv, NEW c \in calls, InviteFails(c) PROVE IndInv'
<1>1. PICK body \in Bodies, code \in Codes :
        form' = [form EXCEPT !.busy = FALSE, !.notice = CodeOf(body, code)]
  BY DEF InviteFails
<1>2. /\ UNCHANGED <<status, role, path, menuOpen, overview, list, refreshKey, due, made, overlapped>>
      /\ c.kind = "invite" /\ calls' = calls \ {c}
  BY DEF InviteFails, Unchanged
<1>3. form' \in FormType /\ ~form'.busy
  BY <1>1, CodeOfType DEF FormType, IndInv, DataInv
<1>4. DataInv' /\ CallInv'
  BY <1>2, <1>3 DEF IndInv, DataInv, CallInv
<1>5. FormInv'
  BY <1>2, <1>3 DEF IndInv, FormInv
<1>6. SkeletonHasLoad' /\ DueInv'
  BY <1>2 DEF IndInv, SkeletonHasLoad, InFlight, DueInv
<1> QED
  BY <1>4, <1>5, <1>6 DEF IndInv

(* A load answers: its report is shown, whatever else is out.              *)
LEMMA LoadAnsweredKeeps == ASSUME IndInv, NEW c \in calls, LoadAnswered(c) PROVE IndInv'
<1>1. PICK state \in {"ready", "error"} : Shows(c, state)
  BY DEF LoadAnswered
<1> DEFINE shown == [kind |-> state, of |-> c.id]
<1>2. /\ UNCHANGED <<status, role, path, menuOpen, refreshKey, form, due, made, overlapped>>
      /\ calls' = calls \ {c} /\ c.kind # "invite"
      /\ c.kind = "list" => list' = shown /\ overview' = overview
      /\ c.kind # "list" => overview' = shown /\ list' = list
  BY <1>1 DEF Shows, Unchanged, LoadAnswered
<1>3. shown \in LoadState /\ shown.kind = state /\ shown.of = c.id
  BY DEF LoadState, IndInv, CallInv, CallType
<1>4. DataInv'
  BY <1>2, <1>3 DEF IndInv, DataInv
<1>5. CallInv' /\ FormInv'
  BY <1>2 DEF IndInv, CallInv, FormInv
<1>6. c.kind = "aggregate" <=> path = "overview"
  BY DEF IndInv, CallInv
<1>7. c.kind # "list" => c.kind = "aggregate"
  BY <1>2 DEF IndInv, CallInv, CallType, Kinds
<1>8. SkeletonHasLoad'
  BY <1>2, <1>3, <1>6, <1>7 DEF IndInv, SkeletonHasLoad, InFlight
<1>9. DueInv'
  BY <1>2, <1>3, <1>6, <1>7 DEF IndInv, DueInv
<1> QED
  BY <1>4, <1>5, <1>8, <1>9 DEF IndInv

-----------------------------------------------------------------------------
LEMMA InvNext == IndInv /\ [Next]_vars => IndInv'
<1> SUFFICES ASSUME IndInv, [Next]_vars PROVE IndInv'
  OBVIOUS
<1>0. /\ status \in Statuses /\ menuOpen \in BOOLEAN /\ form \in FormType
      /\ role # "none" <=> status = "authenticated"
  BY DEF IndInv, DataInv
<1>1. ASSUME NEW s \in Statuses, NEW r \in Roles \cup {"none"},
             s = "authenticated" <=> r # "none", Status(s, r)
      PROVE IndInv'
  <2>1. /\ status' = s /\ role' = r
        /\ UNCHANGED <<path, menuOpen, list, refreshKey, form>>
    BY <1>1 DEF Status
  <2>2. CASE path = "overview" /\ s = "authenticated"
    <3>1. OverviewLoads /\ due' = made + 1
      BY <1>1, <2>2 DEF Status
    <3> QED
      BY <1>1, <2>1, <2>2, <3>1, OverviewLoadKeeps
  <2>3. CASE ~(path = "overview" /\ s = "authenticated")
    <3>1. UNCHANGED <<calls, made, overlapped, overview, due>>
      BY <1>1, <2>3 DEF Status, NoLoad
    <3> QED
      BY <1>0, <1>1, <2>1, <2>3, <3>1, ShellKeeps
  <2> QED
    BY <2>2, <2>3
<1>2. CASE Retry
  BY <1>0, <1>2, OverviewLoadKeeps DEF Retry
<1>3. CASE ToggleMenu
  <2>1. menuOpen' \in BOOLEAN /\ UNCHANGED <<status, role, form>>
        /\ UNCHANGED <<path, overview, list, refreshKey, calls, made, due, overlapped>>
    BY <1>3, <1>0 DEF ToggleMenu, pageVars
  <2> QED
    BY <1>0, <2>1, ShellKeeps
<1>4. ASSUME NEW p \in Pages, Follow(p) \/ Browse(p) PROVE IndInv'
  <2>1. Mount(p) /\ menuOpen' \in BOOLEAN /\ UNCHANGED <<status, role>>
    BY <1>0, <1>4 DEF Follow, Browse
  <2> QED
    BY <2>1, MountKeeps
<1>5. ASSUME NEW t, SetTenant(t) PROVE IndInv'
  BY <1>0, <1>5, ShellKeeps DEF SetTenant, pageVars
<1>6. ASSUME NEW e, NEW d, NEW b, Callback(e, d, b) PROVE IndInv'
  BY <1>0, <1>6, ShellKeeps DEF Callback, pageVars
<1>7. ASSUME NEW e \in Drafts, TypeAddress(e) PROVE IndInv'
  <2>1. form' \in FormType /\ form'.busy = form.busy
    BY <1>0, <1>7 DEF TypeAddress, FormType
  <2>2. UNCHANGED <<status, role, menuOpen, path, overview, list, refreshKey, calls, made, due, overlapped>>
    BY <1>7 DEF TypeAddress, NoLoad, Unchanged
  <2> QED
    BY <1>0, <2>1, <2>2, ShellKeeps
<1>8. CASE Submit
  BY <1>8, SubmitKeeps
<1>9. ASSUME NEW c \in calls, Invited(c) \/ InviteFails(c) \/ LoadAnswered(c) PROVE IndInv'
  BY <1>9, InvitedKeeps, InviteFailsKeeps, LoadAnsweredKeeps
<1>10. CASE UNCHANGED vars
  BY <1>0, <1>10, ShellKeeps DEF vars, pageVars
<1> QED
  BY <1>1, <1>2, <1>3, <1>4, <1>5, <1>6, <1>7, <1>8, <1>9, <1>10 DEF Next

-----------------------------------------------------------------------------
(* The invariant holds in every reachable state.                           *)
LEMMA Inductive == Spec => []IndInv
BY InvInit, InvNext, PTL DEF Spec

(* Type correctness of the pages: the form is busy exactly while its one   *)
(* invitation is in flight, and calls are those of the page at hand.       *)
THEOREM PagesTypeCorrect == Spec => []TypeOK
BY Inductive, InvImplies, PTL

(* A skeleton shown to a signed-in user has its load in flight.            *)
THEOREM SkeletonsLoad == Spec => []SkeletonHasLoad
BY Inductive, InvImplies, PTL

(* A page whose loads do not overlap shows no report from before the event *)
(* that made a new one due.                                                *)
THEOREM ReportsAreDue == Spec => []ReportIsDue
BY Inductive, InvImplies, PTL

=============================================================================
