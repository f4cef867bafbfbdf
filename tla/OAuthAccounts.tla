--------------------------- MODULE OAuthAccounts ----------------------------
(***************************************************************************)
(* Accounts made by registration and by provider sign-in: the users table  *)
(* behind SqlxUserRepository (apps/api/src/repository/user.rs), the        *)
(* on_oauth_login hook with its policy (hooks/audit.rs, oauth_policy.rs),  *)
(* and the engine's callback that calls them one after the other, each     *)
(* call a statement of its own, while other callbacks do the same.         *)
(*                                                                         *)
(* The engine is external.  It finds the account of an identity, asks      *)
(* on_oauth_login, then creates or links, then signs in.  Whether a miss   *)
(* ends there, or falls back to a local account of the verified address,   *)
(* is the engine's to choose (the docs have it both ways), so both happen. *)
(***************************************************************************)
EXTENDS Naturals, FiniteSets

CONSTANTS
  Tenants,
  Emails,
  Identities,  \* provider and provider_id
  NoIdentity,  \* the NULL columns of a local account
  Calls,       \* the requests (bounds them); an account has the id of its own
  None

ASSUME NoIdentityAssumption == NoIdentity \notin Identities
ASSUME NoneAssumption == None \notin Calls

Statuses == {"active", "suspended"}

VARIABLES
  users,       \* the ids of the stored rows
  row,         \* their columns
  asked,       \* what a request is for: tenant, email and identity
  phase,       \* where its handler is
  found,       \* the row find_by_oauth_id gave it, with the status of then
  decision,    \* what on_oauth_login decided
  account,     \* whom the request signed in
  changed,     \* history: accounts whose status changed since a callback's lookup
  bound        \* history: accounts whose identity changed since a callback's lookup

requestVars == <<asked, phase, found, decision, account>>
vars        == <<users, row, requestVars, changed, bound>>

Requests == [tenant : Tenants, email : Emails, oauth : Identities \cup {NoIdentity}]

Rows == [tenant : Tenants, email : Emails, oauth : Identities \cup {NoIdentity}, status : Statuses]

-----------------------------------------------------------------------------
(* The unique indexes of 0001_init.sql.                                    *)

(* users_tenant_email_uidx *)
SameEmail(r, u) == row[u].tenant = r.tenant /\ row[u].email = r.email

(* users_oauth_uidx, partial: local accounts never collide on it.          *)
SameIdentity(r, u) ==
  /\ r.oauth # NoIdentity
  /\ row[u].tenant = r.tenant
  /\ row[u].oauth = r.oauth

(* A variant: the provider columns have no index.                          *)
ClashesByEmail(r) == \E u \in users : SameEmail(r, u)

Clashes(r) == \E u \in users : SameEmail(r, u) \/ SameIdentity(r, u)

(* INSERT ... RETURNING.  A violated index is a Conflict (map_sqlx_error). *)
Insert(c, r) ==
  \/ /\ ~Clashes(r)
     /\ users' = users \cup {c}
     /\ row' = [row EXCEPT ![c] = [tenant |-> r.tenant, email |-> r.email, oauth |-> r.oauth,
                                   status |-> "active"]]
     /\ account' = [account EXCEPT ![c] = c]
     /\ phase' = [phase EXCEPT ![c] = "done"]
  \/ /\ Clashes(r)
     /\ phase' = [phase EXCEPT ![c] = "conflict"]
     /\ UNCHANGED <<users, row, account>>

-----------------------------------------------------------------------------
(* Registration, and an invitation that is accepted.                       *)
Register(c, t, e) ==
  /\ phase[c] = "idle"
  /\ asked' = [asked EXCEPT ![c] = [tenant |-> t, email |-> e, oauth |-> NoIdentity]]
  /\ phase' = [phase EXCEPT ![c] = "creating"]
  /\ UNCHANGED <<users, row, found, decision, account, changed, bound>>

Create(c) ==
  /\ phase[c] = "creating"
  /\ Insert(c, asked[c])
  /\ UNCHANGED <<asked, found, decision, changed, bound>>

-----------------------------------------------------------------------------
(* Provider sign-in.                                                       *)

(* The engine has exchanged the code: the provider vouches for a profile.  *)
Callback(c, t, e, i) ==
  /\ phase[c] = "idle"
  /\ asked' = [asked EXCEPT ![c] = [tenant |-> t, email |-> e, oauth |-> i]]
  /\ phase' = [phase EXCEPT ![c] = "looking"]
  /\ UNCHANGED <<users, row, found, decision, account, changed, bound>>

Snapshot(u) == [id |-> u, status |-> row[u].status]

(* A variant: the account is looked up by its e-mail.                      *)
MatchesByEmail(r) == {u \in users : SameEmail(r, u)}

Matches(r) == {u \in users : SameIdentity(r, u)}

(* The local account of the address that the provider has verified.        *)
LocalMatches(r) == {u \in users : SameEmail(r, u) /\ row[u].oauth = NoIdentity}

FindByOauthId(c) ==
  /\ phase[c] = "looking"
  /\ \E local \in SUBSET LocalMatches(asked[c]) :
       found' = [found EXCEPT ![c] =
                   {Snapshot(u) : u \in IF Matches(asked[c]) = {} THEN local ELSE Matches(asked[c])}]
  /\ phase' = [phase EXCEPT ![c] = "deciding"]
  /\ changed' = [changed EXCEPT ![c] = {}]
  /\ bound' = [bound EXCEPT ![c] = {}]
  /\ UNCHANGED <<users, row, asked, decision, account>>

(* A variant: any match is linked.                                         *)
DecideOnMatch(match) == IF match = {} THEN "create" ELSE "link"

(* decide_oauth_login: the profile is not consulted.                       *)
Decide(match) ==
  IF match = {} THEN "create"
  ELSE IF \E m \in match : m.status # "active" THEN "reject" ELSE "link"

OnOauthLogin(c) ==
  /\ phase[c] = "deciding"
  /\ decision' = [decision EXCEPT ![c] = Decide(found[c])]
  /\ phase' = [phase EXCEPT ![c] = "recording"]
  /\ UNCHANGED <<users, row, asked, found, account, changed, bound>>

(* record_oauth_decision: the row is written, or a warning, and on.        *)
RecordDecision(c) ==
  /\ phase[c] = "recording"
  /\ phase' = [phase EXCEPT ![c] = "acting"]
  /\ UNCHANGED <<users, row, asked, found, decision, account, changed, bound>>

CreateWithOauth(c) ==
  /\ phase[c] = "acting"
  /\ decision[c] = "create"
  /\ Insert(c, asked[c])
  /\ UNCHANGED <<asked, found, decision, changed, bound>>

Undecided(c) == phase[c] \in {"deciding", "recording", "acting"}

(* A variant: the answer has no account.                                   *)
LinkOauthSilently(c) ==
  /\ phase[c] = "acting"
  /\ decision[c] = "link"
  /\ phase' = [phase EXCEPT ![c] = "done"]
  /\ UNCHANGED <<users, row, asked, found, decision, account, changed, bound>>

(* UPDATE ... WHERE id: that the account is still what the look-up saw,    *)
(* its status or an identity of its own, is not looked at.                 *)
Link(c, u) ==
  \/ /\ \A v \in users \ {u} : ~SameIdentity(asked[c], v)
     /\ row' = [row EXCEPT ![u].oauth = asked[c].oauth]
     /\ bound' = [d \in Calls |->
                    IF Undecided(d) /\ row[u].oauth # asked[c].oauth
                      THEN bound[d] \cup {u} ELSE bound[d]]
     /\ account' = [account EXCEPT ![c] = u]
     /\ phase' = [phase EXCEPT ![c] = "done"]
  \/ /\ \E v \in users \ {u} : SameIdentity(asked[c], v)
     /\ phase' = [phase EXCEPT ![c] = "conflict"]
     /\ UNCHANGED <<row, bound, account>>

LinkOauth(c) ==
  /\ phase[c] = "acting"
  /\ decision[c] = "link"
  /\ \E m \in found[c] : Link(c, m.id)
  /\ UNCHANGED <<users, asked, found, decision, changed>>

Reject(c) ==
  /\ phase[c] = "acting"
  /\ decision[c] = "reject"
  /\ phase' = [phase EXCEPT ![c] = "rejected"]
  /\ UNCHANGED <<users, row, asked, found, decision, account, changed, bound>>

(* Any statement: RepositoryError::Backend.                                *)
StoreFails(c) ==
  /\ phase[c] \in {"creating", "looking", "acting"}
  /\ phase[c] = "acting" => decision[c] # "reject"
  /\ phase' = [phase EXCEPT ![c] = "failed"]
  /\ UNCHANGED <<users, row, asked, found, decision, account, changed, bound>>

(* update_status, by whoever administers the accounts.                     *)
UpdateStatus(u, s) ==
  /\ u \in users
  /\ row[u].status # s
  /\ row' = [row EXCEPT ![u].status = s]
  /\ changed' = [c \in Calls |-> IF Undecided(c) THEN changed[c] \cup {u} ELSE changed[c]]
  /\ UNCHANGED <<users, requestVars, bound>>

-----------------------------------------------------------------------------
Init ==
  /\ users = {}
  /\ row = [u \in Calls |-> None]
  /\ asked = [c \in Calls |-> None]
  /\ phase = [c \in Calls |-> "idle"]
  /\ found = [c \in Calls |-> {}]
  /\ decision = [c \in Calls |-> "none"]
  /\ account = [c \in Calls |-> None]
  /\ changed = [c \in Calls |-> {}]
  /\ bound = [c \in Calls |-> {}]

Hook(c) == OnOauthLogin(c) \/ RecordDecision(c)

Statement(c) ==
  \/ Create(c) \/ FindByOauthId(c) \/ CreateWithOauth(c) \/ LinkOauth(c) \/ Reject(c)
  \/ StoreFails(c)

Next ==
  \/ \E c \in Calls, t \in Tenants, e \in Emails :
       Register(c, t, e) \/ \E i \in Identities : Callback(c, t, e, i)
  \/ \E c \in Calls : Hook(c) \/ Statement(c)
  \/ \E u \in Calls, s \in Statuses : UpdateStatus(u, s)

Spec == Init /\ [][Next]_vars

-----------------------------------------------------------------------------
Phases == {"idle", "creating", "looking", "deciding", "recording", "acting",
           "done", "conflict", "rejected", "failed"}

(* Every variable keeps its type; a request signs in when it is done.      *)
TypeOK ==
  /\ users \subseteq Calls
  /\ row \in [Calls -> Rows \cup {None}]
  /\ asked \in [Calls -> Requests \cup {None}]
  /\ phase \in [Calls -> Phases]
  /\ found \in [Calls -> SUBSET [id : Calls, status : Statuses]]
  /\ decision \in [Calls -> {"none", "create", "link", "reject"}]
  /\ account \in [Calls -> Calls \cup {None}]
  /\ changed \in [Calls -> SUBSET Calls]
  /\ bound \in [Calls -> SUBSET Calls]
  /\ \A u \in users : row[u] \in Rows
  /\ \A c \in Calls : phase[c] # "idle" => asked[c] \in Requests
  /\ \A c \in Calls : account[c] # None <=> phase[c] = "done"

(* One account for an e-mail and one for an identity in a tenant, whatever *)
(* callbacks and registrations were between their lookup and their insert. *)
OneAccountEach ==
  \A u, v \in users :
    (u # v /\ row[u].tenant = row[v].tenant) =>
      /\ row[u].email # row[v].email
      /\ row[u].oauth # NoIdentity => row[u].oauth # row[v].oauth

(* The callback that wrote to account u in this step.                      *)
LinkedBy(c, u) == phase[c] = "acting" /\ phase'[c] = "done" /\ account'[c] = u

(* An account is bound, or bound to another identity, only by a callback   *)
(* that signs in to it.  A local account is bound only for its own, by the *)
(* provider verified, address; an identity is taken from an account only   *)
(* by a callback that had looked the account up before it was bound.       *)
(* link_oauth writes by id alone: all of this is up to the look-up.        *)
IdentityStays ==
  [][\A u \in users : row'[u].oauth # row[u].oauth =>
       \E c \in Calls :
         /\ LinkedBy(c, u)
         /\ row[u].oauth = NoIdentity => SameEmail(asked[c], u)
         /\ row[u].oauth # NoIdentity => u \in bound[c]]_vars

(* A callback signs in to an account that is not active only if that       *)
(* changed after it was looked up.                                         *)
InactiveOnlyByRace ==
  [][\A c \in Calls :
       (phase[c] = "acting" /\ phase'[c] = "done" /\ account'[c] \in users) =>
         row[account'[c]].status = "active" \/ account'[c] \in changed[c]]_vars

(* Only the policy turns a callback away; a failed audit write does not.   *)
DeniedOnlyByPolicy == \A c \in Calls : phase[c] = "rejected" => decision[c] = "reject"

(* The directory that the table is: who holds an identity, and what the    *)
(* callbacks were answered.                                                *)
Holds(u, k) == row[u].tenant = k[1] /\ row[u].oauth = k[2]

AccountOf ==
  [k \in Tenants \X Identities |->
     IF \E u \in users : Holds(u, k) THEN CHOOSE u \in users : Holds(u, k) ELSE None]

AnswerOf ==
  [c \in Calls |-> IF phase[c] = "done" /\ asked[c].oauth # NoIdentity THEN account[c] ELSE None]

(* Provider sign-in is a get-or-create of one account per identity.        *)
Directory ==
  INSTANCE AccountDirectory WITH Accounts <- Calls, account <- AccountOf, answer <- AnswerOf

ImplementsDirectory == Directory!Spec

-----------------------------------------------------------------------------
(* The inductive invariant.                                                *)

(* What a callback found is an account of its identity or a local one of   *)
(* its address, up to what changed since, and what it decided follows from *)
(* that.                                                                   *)
FoundInv ==
  \A c \in Calls :
    /\ phase[c] \in {"idle", "creating", "looking"} => found[c] = {}
    /\ \A m \in found[c] :
         /\ m.id \in users
         /\ row[m.id].tenant = asked[c].tenant
         /\ row[m.id].oauth = NoIdentity => SameEmail(asked[c], m.id)
         /\ Undecided(c) => row[m.id].oauth \in {NoIdentity, asked[c].oauth} \/ m.id \in bound[c]
         /\ Undecided(c) => row[m.id].status = m.status \/ m.id \in changed[c]
    /\ phase[c] \in {"recording", "acting"} => decision[c] = Decide(found[c])
    /\ phase[c] \in {"looking", "deciding", "recording", "acting"} => asked[c].oauth \in Identities

(* An id is stored by the request that it is named after.                  *)
IdInv == \A c \in Calls : c \in users => phase[c] = "done" /\ account[c] = c

IndInv ==
  /\ TypeOK
  /\ OneAccountEach
  /\ DeniedOnlyByPolicy
  /\ FoundInv
  /\ IdInv
=============================================================================
