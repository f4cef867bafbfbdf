--------------------------- MODULE Accounts_proofs ---------------------------
(***************************************************************************)
(* Proofs about accounts.  OAuthAccounts, for any tenants, addresses,      *)
(* identities and requests: one account for each address and identity,     *)
(* when and to whom an account's identity can change, that only the policy *)
(* denies, and that all of it is a get-or-create.  MfaPanel, for any       *)
(* number of calls: the card shows the secret the server waits for, and    *)
(* the codes to save are those in force.                                   *)
(***************************************************************************)
EXTENDS OAuthAccounts, MfaPanel, TLAPS

-----------------------------------------------------------------------------
(* The steps, sorted by what they do to the table.                         *)

Asked(c) == \E t \in Tenants, e \in Emails : Register(c, t, e) \/ \E i \in Identities : Callback(c, t, e, i)

Inserted(c) ==
  /\ phase[c] \in {"creating", "acting"}
  /\ ~Clashes(asked[c])
  /\ users' = users \cup {c}
  /\ row' = [row EXCEPT ![c] = [tenant |-> asked[c].tenant, email |-> asked[c].email,
                                oauth |-> asked[c].oauth, status |-> "active"]]
  /\ account' = [account EXCEPT ![c] = c]
  /\ phase' = [phase EXCEPT ![c] = "done"]
  /\ UNCHANGED <<asked, found, decision, changed, bound>>

Linked(c, u) ==
  /\ phase[c] = "acting" /\ decision[c] = "link"
  /\ \E m \in found[c] : m.id = u
  /\ \A v \in users \ {u} : ~SameIdentity(asked[c], v)
  /\ row' = [row EXCEPT ![u].oauth = asked[c].oauth]
  /\ bound' = [d \in Calls |->
                 IF Undecided(d) /\ row[u].oauth # asked[c].oauth THEN bound[d] \cup {u} ELSE bound[d]]
  /\ account' = [account EXCEPT ![c] = u]
  /\ phase' = [phase EXCEPT ![c] = "done"]
  /\ UNCHANGED <<users, asked, found, decision, changed>>

Clashed(c) ==
  /\ phase[c] \in {"creating", "acting"}
  /\ phase' = [phase EXCEPT ![c] = "conflict"]
  /\ UNCHANGED <<users, row, account, asked, found, decision, changed, bound>>

Moves(c) ==
  Asked(c) \/ FindByOauthId(c) \/ OnOauthLogin(c) \/ RecordDecision(c) \/ Clashed(c) \/ Reject(c)
  \/ StoreFails(c)

(* An INSERT stores its row or is a conflict, and so is the link's UPDATE. *)
LEMMA InsertSorts ==
  ASSUME NEW c \in Calls, Create(c) \/ CreateWithOauth(c)
  PROVE  Inserted(c) \/ Clashed(c)
BY DEF Create, CreateWithOauth, Insert, Inserted, Clashed

LEMMA LinkSorts ==
  ASSUME TypeOK, FoundInv, NEW c \in Calls, LinkOauth(c)
  PROVE  (\E u \in users : Linked(c, u)) \/ Clashed(c)
<1>1. PICK m \in found[c] : Link(c, m.id)
  BY DEF LinkOauth
<1>2. m.id \in users
  BY <1>1 DEF FoundInv
<1>3. Linked(c, m.id) \/ Clashed(c)
  BY <1>1 DEF LinkOauth, Link, Linked, Clashed
<1> QED
  BY <1>2, <1>3

(* Every step is of one of these sorts.                                    *)
LEMMA StepSorts ==
  ASSUME TypeOK, FoundInv, [Next]_vars
  PROVE  \/ \E c \in Calls : Moves(c) \/ Inserted(c) \/ \E u \in users : Linked(c, u)
         \/ \E u \in Calls, s \in Statuses : UpdateStatus(u, s)
         \/ UNCHANGED vars
BY InsertSorts, LinkSorts DEF Next, Hook, Statement, Asked, Moves

-----------------------------------------------------------------------------
(* Types after each sort of step.                                          *)
LEMMA TypePreserved ==
  ASSUME TypeOK, FoundInv, [Next]_vars
  PROVE  TypeOK'
<1> USE NoneAssumption DEF Phases
<1>1. ASSUME NEW d \in Calls, Asked(d)
      PROVE  TypeOK'
  <2>1. PICK r \in Requests : asked' = [asked EXCEPT ![d] = r]
    BY <1>1 DEF Asked, Register, Callback, Requests
  <2>2. PICK p \in {"creating", "looking"} : phase' = [phase EXCEPT ![d] = p]
    BY <1>1 DEF Asked, Register, Callback
  <2>3. phase[d] = "idle" /\ UNCHANGED <<users, row, found, decision, account, changed, bound>>
    BY <1>1 DEF Asked, Register, Callback
  <2> QED
    BY <2>1, <2>2, <2>3 DEF TypeOK
<1>2. ASSUME NEW d \in Calls, FindByOauthId(d)
      PROVE  TypeOK'
  <2>1. PICK them \in SUBSET users : found' = [found EXCEPT ![d] = {Snapshot(u) : u \in them}]
    BY <1>2 DEF FindByOauthId, Matches, LocalMatches
  <2>2. {Snapshot(u) : u \in them} \in SUBSET [id : Calls, status : Statuses]
    BY DEF Snapshot, TypeOK, Rows
  <2> QED
    BY <1>2, <2>1, <2>2 DEF FindByOauthId, TypeOK
<1>3. ASSUME NEW d \in Calls, OnOauthLogin(d)
      PROVE  TypeOK'
  BY <1>3 DEF OnOauthLogin, TypeOK, Decide
<1>4. ASSUME NEW d \in Calls, RecordDecision(d) \/ Reject(d) \/ StoreFails(d) \/ Clashed(d)
      PROVE  TypeOK'
  BY <1>4 DEF RecordDecision, Reject, StoreFails, Clashed, TypeOK
<1>5. ASSUME NEW d \in Calls, Inserted(d)
      PROVE  TypeOK'
  <2>1. asked[d] \in Requests
    BY <1>5 DEF Inserted, TypeOK
  <2>2. [tenant |-> asked[d].tenant, email |-> asked[d].email,
         oauth |-> asked[d].oauth, status |-> "active"] \in Rows
    BY <2>1 DEF Requests, Rows, Statuses
  <2> QED
    BY <1>5, <2>2 DEF Inserted, TypeOK
<1>6. ASSUME NEW d \in Calls, NEW u \in users, Linked(d, u)
      PROVE  TypeOK'
  <2>1. u \in Calls /\ row[u] \in Rows /\ asked[d] \in Requests
    BY <1>6 DEF Linked, TypeOK
  <2>2. [row[u] EXCEPT !.oauth = asked[d].oauth] \in Rows
    BY <2>1 DEF Rows, Requests
  <2>3. row' \in [Calls -> Rows \cup {None}] /\ \A v \in users : row'[v] \in Rows
    BY <1>6, <2>1, <2>2 DEF Linked, TypeOK
  <2>4. bound' \in [Calls -> SUBSET Calls]
    BY <1>6, <2>1 DEF Linked, TypeOK
  <2> QED
    BY <1>6, <2>1, <2>3, <2>4 DEF Linked, TypeOK
<1>7. ASSUME NEW u \in Calls, NEW s \in Statuses, UpdateStatus(u, s)
      PROVE  TypeOK'
  <2>1. row[u] \in Rows /\ u \in users
    BY <1>7 DEF UpdateStatus, TypeOK
  <2>2. [row[u] EXCEPT !.status = s] \in Rows
    BY <2>1 DEF Rows
  <2>3. row' \in [Calls -> Rows \cup {None}] /\ \A v \in users : row'[v] \in Rows
    BY <1>7, <2>1, <2>2 DEF UpdateStatus, TypeOK
  <2>4. changed' \in [Calls -> SUBSET Calls]
    BY <1>7 DEF UpdateStatus, TypeOK
  <2> QED
    BY <1>7, <2>3, <2>4 DEF UpdateStatus, requestVars, TypeOK
<1>8. ASSUME UNCHANGED vars
      PROVE  TypeOK'
  BY <1>8 DEF vars, requestVars, TypeOK
<1> QED
  BY <1>1, <1>2, <1>3, <1>4, <1>5, <1>6, <1>7, <1>8, StepSorts DEF Moves

-----------------------------------------------------------------------------
(* Columns.                                                                *)

(* A step other than a link leaves the tenant, the address and the         *)
(* identity of a row as they are; a link changes the identity of one.      *)
Kept(u) ==
  /\ u \in users'
  /\ row'[u].tenant = row[u].tenant
  /\ row'[u].email = row[u].email
  /\ row'[u].oauth = row[u].oauth \/ \E d \in Calls : Linked(d, u)

LEMMA LinkWrites ==
  ASSUME TypeOK, NEW d \in Calls, NEW u \in users, Linked(d, u)
  PROVE  /\ row'[u].tenant = row[u].tenant /\ row'[u].email = row[u].email
         /\ row'[u].oauth = asked[d].oauth /\ row'[u].status = row[u].status
         /\ \A v \in users \ {u} : row'[v] = row[v]
         /\ users' = users
<1>1. u \in Calls /\ row[u] \in Rows
  BY DEF TypeOK
<1>2. row'[u] = [row[u] EXCEPT !.oauth = asked[d].oauth]
  BY <1>1 DEF Linked, TypeOK
<1>3. \A v \in users \ {u} : row'[v] = row[v]
  BY DEF Linked, TypeOK
<1> QED
  BY <1>1, <1>2, <1>3 DEF Rows, Linked

LEMMA ColumnsStay ==
  ASSUME TypeOK, FoundInv, IdInv, [Next]_vars
  PROVE  \A u \in users : Kept(u)
<1>1. ASSUME NEW d \in Calls, Inserted(d)
      PROVE  \A u \in users : Kept(u)
  <2>1. d \notin users
    BY <1>1 DEF Inserted, IdInv
  <2> QED
    BY <1>1, <2>1 DEF Inserted, Kept, TypeOK
<1>2. ASSUME NEW d \in Calls, NEW u \in users, Linked(d, u)
      PROVE  \A v \in users : Kept(v)
  BY <1>2, LinkWrites DEF Kept
<1>3. ASSUME NEW v \in Calls, NEW s \in Statuses, UpdateStatus(v, s)
      PROVE  \A u \in users : Kept(u)
  <2>1. row[v] \in Rows /\ row'[v] = [row[v] EXCEPT !.status = s]
    BY <1>3 DEF UpdateStatus, TypeOK
  <2>2. Kept(v)
    BY <1>3, <2>1 DEF UpdateStatus, Kept, Rows
  <2>3. \A u \in users \ {v} : Kept(u)
    BY <1>3 DEF UpdateStatus, Kept, TypeOK
  <2> QED
    BY <2>2, <2>3
<1>4. UNCHANGED <<users, row>> => \A u \in users : Kept(u)
  BY DEF Kept
<1>5. ASSUME NEW d \in Calls, Moves(d)
      PROVE  UNCHANGED <<users, row>>
  BY <1>5 DEF Moves, Asked, Register, Callback, FindByOauthId, OnOauthLogin, RecordDecision, Clashed,
              Reject, StoreFails
<1> QED
  BY <1>1, <1>2, <1>3, <1>4, <1>5, StepSorts DEF vars

(* The table grows by inserts only.                                        *)
LEMMA UsersGrow ==
  ASSUME TypeOK, FoundInv, [Next]_vars
  PROVE  users' = users \/ \E d \in Calls : Inserted(d)
BY StepSorts DEF Moves, Asked, Register, Callback, FindByOauthId, OnOauthLogin, RecordDecision, Clashed,
                 Linked, Reject, StoreFails, UpdateStatus, vars

(* An insert that does not clash, and a link that does not, leave one      *)
(* account for each address and identity.                                  *)
LEMMA OneAccountPreserved ==
  ASSUME TypeOK, FoundInv, IdInv, OneAccountEach, [Next]_vars
  PROVE  OneAccountEach'
<1>1. \A u \in users : Kept(u)
  BY ColumnsStay
<1>2. ASSUME users' = users, \A u \in users : row'[u].oauth = row[u].oauth
      PROVE  OneAccountEach'
  BY <1>1, <1>2 DEF OneAccountEach, Kept
<1>3. ASSUME NEW d \in Calls, Inserted(d)
      PROVE  OneAccountEach'
  <2>1. d \notin users /\ users' = users \cup {d}
    BY <1>3 DEF Inserted, IdInv
  <2>2. /\ row'[d].tenant = asked[d].tenant
        /\ row'[d].email = asked[d].email
        /\ row'[d].oauth = asked[d].oauth
        /\ \A u \in users : row'[u] = row[u]
    BY <1>3, <2>1 DEF Inserted, TypeOK
  <2>3. \A u \in users : ~SameEmail(asked[d], u) /\ ~SameIdentity(asked[d], u)
    BY <1>3 DEF Inserted, Clashes
  <2>4. ASSUME NEW u \in users, NEW v \in users, u # v, row'[u].tenant = row'[v].tenant
        PROVE  /\ row'[u].email # row'[v].email
               /\ row'[u].oauth # NoIdentity => row'[u].oauth # row'[v].oauth
    BY <2>2, <2>4 DEF OneAccountEach
  <2>5. ASSUME NEW u \in users, row'[u].tenant = row'[d].tenant
        PROVE  /\ row'[u].email # row'[d].email
               /\ row'[u].oauth # NoIdentity \/ row'[d].oauth # NoIdentity => row'[u].oauth # row'[d].oauth
    BY <2>2, <2>3, <2>5 DEF SameEmail, SameIdentity
  <2> QED
    BY <2>1, <2>4, <2>5 DEF OneAccountEach
<1>4. ASSUME NEW d \in Calls, NEW u \in users, Linked(d, u)
      PROVE  OneAccountEach'
  <2>1. /\ users' = users /\ \A v \in users \ {u} : row'[v] = row[v]
        /\ row'[u].tenant = row[u].tenant /\ row'[u].email = row[u].email
        /\ row'[u].oauth = asked[d].oauth
    BY <1>4, LinkWrites
  <2>2. asked[d].oauth # NoIdentity /\ asked[d].tenant = row[u].tenant
    BY <1>4, NoIdentityAssumption DEF Linked, FoundInv
  <2>3. \A v \in users \ {u} : row[v].tenant = row[u].tenant => row[v].oauth # asked[d].oauth
    BY <1>4, <2>2 DEF Linked, SameIdentity
  <2> QED
    BY <2>1, <2>3 DEF OneAccountEach
<1>5. ASSUME NEW v \in Calls, NEW s \in Statuses, UpdateStatus(v, s)
      PROVE  \A u \in users : row'[u].oauth = row[u].oauth
  <2>1. row[v] \in Rows /\ row'[v] = [row[v] EXCEPT !.status = s]
    BY <1>5 DEF UpdateStatus, TypeOK
  <2>2. row'[v].oauth = row[v].oauth
    BY <2>1 DEF Rows
  <2> QED
    BY <1>5, <2>2 DEF UpdateStatus, TypeOK
<1>6. ASSUME (\E d \in Calls : Moves(d)) \/ UNCHANGED vars
      PROVE  UNCHANGED <<users, row>>
  BY <1>6 DEF Moves, Asked, Register, Callback, FindByOauthId, OnOauthLogin, RecordDecision, Clashed,
              Reject, StoreFails, vars
<1>7. \A u \in Calls, s \in Statuses : UpdateStatus(u, s) => users' = users
  BY DEF UpdateStatus
<1> QED
  BY <1>2, <1>3, <1>4, <1>5, <1>6, <1>7, StepSorts

(* What was asked is fixed once a request has begun, and who is signed in  *)
(* stays so.                                                               *)
LEMMA RequestsStay ==
  ASSUME TypeOK, FoundInv, [Next]_vars
  PROVE  \A c \in Calls : phase[c] # "idle" =>
           /\ asked'[c] = asked[c]
           /\ account[c] # None => account'[c] = account[c]
<1> SUFFICES ASSUME NEW c \in Calls, phase[c] # "idle"
             PROVE  asked'[c] = asked[c] /\ (account[c] # None => account'[c] = account[c])
  OBVIOUS
<1>1. ASSUME NEW d \in Calls, Moves(d)
      PROVE  asked'[c] = asked[c] /\ account' = account
  BY <1>1 DEF Moves, Asked, Register, Callback, FindByOauthId, OnOauthLogin, RecordDecision, Clashed,
              Reject, StoreFails, TypeOK
<1>2. ASSUME NEW d \in Calls, Inserted(d) \/ \E u \in users : Linked(d, u)
      PROVE  asked' = asked /\ (account[c] # None => account'[c] = account[c])
  BY <1>2 DEF Inserted, Linked, TypeOK
<1>3. (\E u \in Calls, s \in Statuses : UpdateStatus(u, s)) \/ UNCHANGED vars => UNCHANGED <<asked, account>>
  BY DEF UpdateStatus, requestVars, vars
<1> QED
  BY <1>1, <1>2, <1>3, StepSorts

(* A request that signs in has just inserted or linked.                    *)
LEMMA SignsIn ==
  ASSUME TypeOK, FoundInv, [Next]_vars, NEW c \in Calls, phase[c] # "done", phase'[c] = "done"
  PROVE  Inserted(c) \/ \E u \in users : Linked(c, u)
<1>1. phase \in [Calls -> Phases]
  BY DEF TypeOK
<1>2. ASSUME NEW d \in Calls, Inserted(d) \/ \E u \in users : Linked(d, u)
      PROVE  d = c
  BY <1>1, <1>2 DEF Inserted, Linked
<1>3. ASSUME NEW d \in Calls, Moves(d)
      PROVE  \E p \in Phases \ {"done"} : phase' = [phase EXCEPT ![d] = p]
  BY <1>3 DEF Moves, Phases, Asked, Register, Callback, FindByOauthId, OnOauthLogin, RecordDecision,
              Clashed, Reject, StoreFails
<1>4. (\E u \in Calls, s \in Statuses : UpdateStatus(u, s)) \/ UNCHANGED vars => phase' = phase
  BY DEF UpdateStatus, requestVars, vars
<1> QED
  BY <1>1, <1>2, <1>3, <1>4, StepSorts

(* A callback is rejected only where its decision says so.                 *)
LEMMA DeniedPreserved ==
  ASSUME TypeOK, FoundInv, DeniedOnlyByPolicy, [Next]_vars
  PROVE  DeniedOnlyByPolicy'
<1>1. ASSUME NEW d \in Calls, Asked(d) \/ OnOauthLogin(d)
      PROVE  DeniedOnlyByPolicy'
  BY <1>1 DEF Asked, Register, Callback, OnOauthLogin, TypeOK, DeniedOnlyByPolicy
<1>2. ASSUME NEW d \in Calls,
             FindByOauthId(d) \/ RecordDecision(d) \/ Clashed(d) \/ Inserted(d) \/ Reject(d)
             \/ StoreFails(d) \/ \E u \in users : Linked(d, u)
      PROVE  DeniedOnlyByPolicy'
  BY <1>2 DEF FindByOauthId, RecordDecision, Clashed, Inserted, Linked, Reject, StoreFails,
              TypeOK, DeniedOnlyByPolicy
<1>3. ASSUME (\E u \in Calls, s \in Statuses : UpdateStatus(u, s)) \/ UNCHANGED vars
      PROVE  DeniedOnlyByPolicy'
  BY <1>3 DEF UpdateStatus, requestVars, vars, DeniedOnlyByPolicy
<1> QED
  BY <1>1, <1>2, <1>3, StepSorts DEF Moves

(* An id is stored by its own request, which is then done for good.        *)
LEMMA IdPreserved ==
  ASSUME TypeOK, FoundInv, IdInv, [Next]_vars
  PROVE  IdInv'
<1> USE NoneAssumption
<1>1. ASSUME NEW d \in Calls, Inserted(d)
      PROVE  IdInv'
  BY <1>1 DEF Inserted, TypeOK, IdInv
<1>2. ASSUME NEW d \in Calls, Moves(d) \/ \E u \in users : Linked(d, u)
      PROVE  IdInv'
  <2>1. users' = users /\ phase[d] # "done"
    BY <1>2 DEF Moves, Asked, Register, Callback, FindByOauthId, RecordDecision, Clashed, Reject,
                StoreFails, OnOauthLogin, Linked
  <2>2. \A c \in Calls \ {d} : phase'[c] = phase[c] /\ account'[c] = account[c]
    BY <1>2 DEF Moves, Asked, Register, Callback, FindByOauthId, RecordDecision, Clashed, Reject,
                StoreFails, OnOauthLogin, Linked, TypeOK
  <2> QED
    BY <2>1, <2>2 DEF IdInv
<1>3. ASSUME (\E u \in Calls, s \in Statuses : UpdateStatus(u, s)) \/ UNCHANGED vars
      PROVE  IdInv'
  BY <1>3 DEF UpdateStatus, requestVars, vars, IdInv
<1> QED
  BY <1>1, <1>2, <1>3, StepSorts

-----------------------------------------------------------------------------
(* What a callback found.                                                  *)

FoundOf(c) ==
  /\ phase[c] \in {"idle", "creating", "looking"} => found[c] = {}
  /\ \A m \in found[c] :
       /\ m.id \in users
       /\ row[m.id].tenant = asked[c].tenant
       /\ row[m.id].oauth = NoIdentity => SameEmail(asked[c], m.id)
       /\ Undecided(c) => row[m.id].oauth \in {NoIdentity, asked[c].oauth} \/ m.id \in bound[c]
       /\ Undecided(c) => row[m.id].status = m.status \/ m.id \in changed[c]
  /\ phase[c] \in {"recording", "acting"} => decision[c] = Decide(found[c])
  /\ phase[c] \in {"looking", "deciding", "recording", "acting"} => asked[c].oauth \in Identities

(* The step leaves the request's own records alone, and every status and   *)
(* identity it changes is noted.                                           *)
Bystander(c) ==
  /\ asked'[c] = asked[c] /\ found'[c] = found[c] /\ decision'[c] = decision[c]
  /\ \A u \in users : row'[u].status = row[u].status \/ (Undecided(c) => u \in changed'[c])
  /\ \A u \in users : row'[u].oauth # row[u].oauth =>
       row'[u].oauth # NoIdentity /\ (Undecided(c) => u \in bound'[c])
  /\ changed[c] \subseteq changed'[c] /\ bound[c] \subseteq bound'[c]

(* A request that another one's step passes by.                            *)
LEMMA BystanderKept ==
  ASSUME TypeOK, FoundInv, IdInv, [Next]_vars, NEW c \in Calls, Bystander(c),
         phase'[c] = phase[c] \/ phase'[c] \in {"done", "conflict", "rejected", "failed"}
  PROVE  FoundOf(c)'
<1>1. FoundOf(c)
  BY DEF FoundInv, FoundOf
<1>2. \A u \in users : u \in users' /\ row'[u].tenant = row[u].tenant /\ row'[u].email = row[u].email
  BY ColumnsStay DEF Kept
<1>3. ASSUME NEW m \in found'[c]
      PROVE  /\ m.id \in users'
             /\ row'[m.id].tenant = asked'[c].tenant
             /\ row'[m.id].oauth = NoIdentity => SameEmail(asked[c], m.id)'
  BY <1>1, <1>2 DEF Bystander, FoundOf, SameEmail
<1>4. ASSUME NEW m \in found'[c], Undecided(c)'
      PROVE  /\ row'[m.id].oauth \in {NoIdentity, asked'[c].oauth} \/ m.id \in bound'[c]
             /\ row'[m.id].status = m.status \/ m.id \in changed'[c]
  <2>1. m \in found[c] /\ m.id \in users /\ Undecided(c)
    BY <1>1, <1>4 DEF Bystander, FoundOf, Undecided
  <2>2. /\ row[m.id].oauth \in {NoIdentity, asked[c].oauth} \/ m.id \in bound[c]
        /\ row[m.id].status = m.status \/ m.id \in changed[c]
    BY <1>1, <2>1 DEF FoundOf
  <2> QED
    BY <2>1, <2>2 DEF Bystander
<1>5. Decide(found[c])' = Decide(found[c])
  BY DEF Bystander, Decide
<1> QED
  BY <1>1, <1>3, <1>4, <1>5 DEF FoundOf, Bystander

(* What a callback found stays an account of its identity or a local one   *)
(* of its address, up to what is noted, and what it decided stays what the *)
(* policy said of that.                                                    *)
LEMMA FoundPreserved ==
  ASSUME TypeOK, FoundInv, IdInv, [Next]_vars
  PROVE  FoundInv'
<1> SUFFICES \A c \in Calls : FoundOf(c)'
  BY DEF FoundInv, FoundOf
<1>1. ASSUME NEW d \in Calls, Asked(d)
      PROVE  \A c \in Calls : FoundOf(c)'
  <2>1. UNCHANGED <<users, row, found, decision, changed, bound>> /\ phase[d] = "idle"
    BY <1>1 DEF Asked, Register, Callback
  <2>2. \A c \in Calls \ {d} : Bystander(c) /\ phase'[c] = phase[c]
    BY <1>1 DEF Asked, Register, Callback, Bystander, TypeOK
  <2>3. found'[d] = {}
    BY <2>1 DEF FoundInv
  <2>4. \/ phase'[d] = "creating"
        \/ phase'[d] = "looking" /\ asked'[d].oauth \in Identities
    BY <1>1 DEF Asked, Register, Callback, TypeOK
  <2>5. FoundOf(d)'
    BY <2>3, <2>4 DEF FoundOf
  <2> QED
    BY <2>2, <2>5, BystanderKept
<1>2. ASSUME NEW d \in Calls, FindByOauthId(d)
      PROVE  \A c \in Calls : FoundOf(c)'
  <2>1. \A c \in Calls \ {d} : Bystander(c) /\ phase'[c] = phase[c]
    BY <1>2 DEF FindByOauthId, Bystander, TypeOK
  <2>2. PICK them \in SUBSET users :
          /\ them \subseteq Matches(asked[d]) \/ them \subseteq LocalMatches(asked[d])
          /\ found' = [found EXCEPT ![d] = {Snapshot(u) : u \in them}]
    BY <1>2 DEF FindByOauthId, Matches, LocalMatches
  <2>3. phase'[d] = "deciding" /\ UNCHANGED <<users, row, asked>>
    BY <1>2 DEF FindByOauthId, TypeOK
  <2>4. ASSUME NEW m \in found'[d]
        PROVE  /\ m.id \in users /\ row[m.id].status = m.status
               /\ row[m.id].tenant = asked[d].tenant
               /\ row[m.id].oauth = NoIdentity => SameEmail(asked[d], m.id)
               /\ row[m.id].oauth \in {NoIdentity, asked[d].oauth}
    <3>1. PICK u \in them : m = Snapshot(u)
      BY <2>2, <2>4 DEF TypeOK
    <3>2. u \in users /\ m.id = u /\ m.status = row[u].status
      BY <3>1 DEF Snapshot
    <3>3. SameIdentity(asked[d], u) \/ (SameEmail(asked[d], u) /\ row[u].oauth = NoIdentity)
      BY <2>2, <3>1 DEF Matches, LocalMatches
    <3> QED
      BY <3>2, <3>3 DEF SameIdentity, SameEmail
  <2>5. asked[d].oauth \in Identities
    BY <1>2 DEF FindByOauthId, FoundInv
  <2>6. FoundOf(d)'
    BY <2>3, <2>4, <2>5 DEF FoundOf, SameEmail
  <2> QED
    BY <2>1, <2>6, BystanderKept
<1>3. ASSUME NEW d \in Calls, OnOauthLogin(d) \/ RecordDecision(d)
      PROVE  \A c \in Calls : FoundOf(c)'
  <2>1. \A c \in Calls \ {d} : Bystander(c) /\ phase'[c] = phase[c]
    BY <1>3 DEF OnOauthLogin, RecordDecision, Bystander, TypeOK
  <2>2. /\ UNCHANGED <<users, row, asked, found, changed, bound>>
        /\ phase[d] \in {"deciding", "recording"} /\ phase'[d] \in {"recording", "acting"}
        /\ decision'[d] = Decide(found[d])
    BY <1>3 DEF OnOauthLogin, RecordDecision, TypeOK, FoundInv
  <2>3. FoundOf(d)
    BY DEF FoundInv, FoundOf
  <2>4. FoundOf(d)'
    BY <2>2, <2>3 DEF FoundOf, Undecided, SameEmail, Decide
  <2> QED
    BY <2>1, <2>4, BystanderKept
<1>4. ASSUME NEW d \in Calls, Clashed(d) \/ Reject(d) \/ StoreFails(d)
      PROVE  \A c \in Calls : FoundOf(c)'
  <2>1. \A c \in Calls : Bystander(c)
    BY <1>4 DEF Clashed, Reject, StoreFails, Bystander
  <2>2. \A c \in Calls : phase'[c] = phase[c] \/ phase'[c] \in {"done", "conflict", "rejected", "failed"}
    BY <1>4 DEF Clashed, Reject, StoreFails, TypeOK
  <2> QED
    BY <2>1, <2>2, BystanderKept
<1>5. ASSUME NEW d \in Calls, Inserted(d)
      PROVE  \A c \in Calls : FoundOf(c)'
  <2>1. d \notin users
    BY <1>5 DEF Inserted, IdInv
  <2>2. \A u \in users : row'[u] = row[u]
    BY <1>5, <2>1 DEF Inserted, TypeOK
  <2>3. \A c \in Calls : Bystander(c)
    BY <1>5, <2>2 DEF Inserted, Bystander
  <2>4. \A c \in Calls : phase'[c] = phase[c] \/ phase'[c] = "done"
    BY <1>5 DEF Inserted, TypeOK
  <2> QED
    BY <2>3, <2>4, BystanderKept
<1>6. ASSUME NEW d \in Calls, NEW u \in users, Linked(d, u)
      PROVE  \A c \in Calls : FoundOf(c)'
  <2>1. /\ row'[u].oauth = asked[d].oauth /\ row'[u].status = row[u].status
        /\ \A v \in users \ {u} : row'[v] = row[v]
    BY <1>6, LinkWrites
  <2>2. asked[d].oauth # NoIdentity
    BY <1>6, NoIdentityAssumption DEF Linked, FoundInv
  <2>3. \A c \in Calls : bound[c] \subseteq bound'[c]
    BY <1>6 DEF Linked
  <2>4. \A c \in Calls : (Undecided(c) /\ row[u].oauth # asked[d].oauth) => u \in bound'[c]
    BY <1>6 DEF Linked
  <2>5. \A c \in Calls : Bystander(c)
    BY <1>6, <2>1, <2>2, <2>3, <2>4 DEF Linked, Bystander
  <2>6. \A c \in Calls : phase'[c] = phase[c] \/ phase'[c] = "done"
    BY <1>6 DEF Linked, TypeOK
  <2> QED
    BY <2>5, <2>6, BystanderKept
<1>7. ASSUME NEW v \in Calls, NEW s \in Statuses, UpdateStatus(v, s)
      PROVE  \A c \in Calls : FoundOf(c)'
  <2>1. row[v] \in Rows /\ row'[v] = [row[v] EXCEPT !.status = s]
    BY <1>7 DEF UpdateStatus, TypeOK
  <2>2. row'[v].oauth = row[v].oauth /\ \A u \in users \ {v} : row'[u] = row[u]
    BY <1>7, <2>1 DEF UpdateStatus, TypeOK, Rows
  <2>3. \A c \in Calls : changed[c] \subseteq changed'[c] /\ (Undecided(c) => v \in changed'[c])
    BY <1>7 DEF UpdateStatus
  <2>4. \A c \in Calls : Bystander(c) /\ phase'[c] = phase[c]
    BY <1>7, <2>2, <2>3 DEF UpdateStatus, requestVars, Bystander
  <2> QED
    BY <2>4, BystanderKept
<1>8. ASSUME UNCHANGED vars
      PROVE  \A c \in Calls : FoundOf(c)'
  <2>1. \A c \in Calls : Bystander(c) /\ phase'[c] = phase[c]
    BY <1>8 DEF vars, requestVars, Bystander
  <2> QED
    BY <2>1, BystanderKept
<1> QED
  BY <1>1, <1>2, <1>3, <1>4, <1>5, <1>6, <1>7, <1>8, StepSorts DEF Moves

-----------------------------------------------------------------------------
(* The inductive invariant.                                                *)

LEMMA InitInductive == Init => IndInv
<1> SUFFICES ASSUME Init
             PROVE  IndInv
  OBVIOUS
<1>1. TypeOK
  BY NoneAssumption DEF Init, TypeOK, Phases
<1>2. FoundInv
  BY DEF Init, FoundInv
<1> QED
  BY <1>1, <1>2 DEF Init, IndInv, OneAccountEach, DeniedOnlyByPolicy, IdInv

LEMMA StepInductive == IndInv /\ [Next]_vars => IndInv'
BY TypePreserved, OneAccountPreserved, DeniedPreserved, FoundPreserved, IdPreserved DEF IndInv

(* What a callback found is an account of its identity or a local one of   *)
(* its address, its decision is the policy's, and every id was stored by   *)
(* its own request: with these the properties below are inductive.         *)
THEOREM AccountsInductive == Spec => []IndInv
BY InitInductive, StepInductive, PTL DEF Spec

(* Every variable keeps its type.                                          *)
THEOREM AccountsTyped == Spec => []TypeOK
<1>1. IndInv => TypeOK
  BY DEF IndInv
<1> QED
  BY <1>1, AccountsInductive, PTL

(* However callbacks and registrations interleave between their lookup and *)
(* their insert or link, an e-mail and an identity have one account in a   *)
(* tenant.                                                                 *)
THEOREM OneAccountPerIdentity == Spec => []OneAccountEach
<1>1. IndInv => OneAccountEach
  BY DEF IndInv
<1> QED
  BY <1>1, AccountsInductive, PTL

(* Only the policy turns a callback away.                                  *)
THEOREM PolicyAloneDenies == Spec => []DeniedOnlyByPolicy
<1>1. IndInv => DeniedOnlyByPolicy
  BY DEF IndInv
<1> QED
  BY <1>1, AccountsInductive, PTL

(* An account's identity changes only by a callback that signs in to it: a *)
(* local account is bound only for its own address, and an identity is     *)
(* taken from an account only by a callback that had looked it up before   *)
(* it was bound, whichever of the two look-ups the engine makes.           *)
THEOREM IdentitiesStay == Spec => IdentityStays
<1> DEFINE Bound(u) == \E c \in Calls :
                         /\ LinkedBy(c, u)
                         /\ row[u].oauth = NoIdentity => SameEmail(asked[c], u)
                         /\ row[u].oauth # NoIdentity => u \in bound[c]
<1>1. ASSUME IndInv, [Next]_vars, NEW u \in users, row'[u].oauth # row[u].oauth
      PROVE  Bound(u)
  <2>1. PICK d \in Calls : Linked(d, u)
    BY <1>1, ColumnsStay DEF IndInv, Kept
  <2>2. LinkedBy(d, u) /\ Undecided(d)
    BY <1>1, <2>1 DEF Linked, LinkedBy, Undecided, IndInv, TypeOK
  <2>3. row'[u].oauth = asked[d].oauth
    BY <1>1, <2>1, LinkWrites DEF IndInv
  <2>4. /\ row[u].oauth = NoIdentity => SameEmail(asked[d], u)
        /\ row[u].oauth \in {NoIdentity, asked[d].oauth} \/ u \in bound[d]
    BY <1>1, <2>1, <2>2 DEF Linked, IndInv, FoundInv
  <2> QED
    BY <1>1, <2>2, <2>3, <2>4
<1>2. IndInv /\ [Next]_vars => [\A u \in users : row'[u].oauth # row[u].oauth => Bound(u)]_vars
  BY <1>1
<1> QED
  BY <1>2, AccountsInductive, PTL DEF Spec, IdentityStays

(* A callback that signs in to an account that is not active lost a race   *)
(* with the status change.                                                 *)
THEOREM InactiveLostARace == Spec => InactiveOnlyByRace
<1>1. ASSUME IndInv, [Next]_vars, NEW c \in Calls,
             phase[c] = "acting", phase'[c] = "done", account'[c] \in users
      PROVE  row[account'[c]].status = "active" \/ account'[c] \in changed[c]
  <2>1. ~Inserted(c)
    BY <1>1 DEF Inserted, IndInv, IdInv, TypeOK
  <2>2. PICK u \in users : Linked(c, u)
    BY <1>1, <2>1, SignsIn DEF IndInv
  <2>3. PICK m \in found[c] : m.id = u
    BY <2>2 DEF Linked
  <2>4. account'[c] = u
    BY <1>1, <2>2 DEF Linked, IndInv, TypeOK
  <2>5. row[u].status = m.status \/ u \in changed[c]
    BY <1>1, <2>3 DEF IndInv, FoundInv, Undecided
  <2>6. decision[c] = Decide(found[c]) /\ decision[c] = "link"
    BY <1>1, <2>2 DEF Linked, IndInv, FoundInv
  <2>7. m.status = "active"
    BY <2>3, <2>6 DEF Decide
  <2> QED
    BY <2>4, <2>5, <2>7
<1>2. IndInv /\ [Next]_vars =>
        [\A c \in Calls :
           (phase[c] = "acting" /\ phase'[c] = "done" /\ account'[c] \in users) =>
             row[account'[c]].status = "active" \/ account'[c] \in changed[c]]_vars
  BY <1>1
<1> QED
  BY <1>2, AccountsInductive, PTL DEF Spec, InactiveOnlyByRace

-----------------------------------------------------------------------------
(* The table is a directory.                                               *)

Keys == Tenants \X Identities

(* An identity is held by one account, which is the directory's.           *)
LEMMA HolderIsAccount ==
  ASSUME OneAccountEach, NEW k \in Keys, NEW u \in users, Holds(u, k)
  PROVE  AccountOf[k] = u
<1>1. \A v \in users : Holds(v, k) => v = u
  BY NoIdentityAssumption DEF OneAccountEach, Holds, Keys
<1> QED
  BY <1>1 DEF AccountOf, Keys

LEMMA NobodyHolds ==
  ASSUME NEW k \in Keys, \A u \in users : ~Holds(u, k)
  PROVE  AccountOf[k] = None
BY DEF AccountOf, Keys

(* The directory lists stored accounts, under their own identity.          *)
LEMMA AccountsStored ==
  ASSUME NEW k \in Keys
  PROVE  AccountOf[k] = None \/ (AccountOf[k] \in users /\ Holds(AccountOf[k], k))
<1>1. CASE \E u \in users : Holds(u, k)
  BY <1>1 DEF AccountOf, Keys
<1> QED
  BY <1>1 DEF AccountOf, Keys

(* A step that leaves every holder in place leaves the directory.          *)
LEMMA AccountsStay ==
  ASSUME OneAccountEach, OneAccountEach', NEW k \in Keys,
         \A u : (u \in users' /\ Holds(u, k)') <=> (u \in users /\ Holds(u, k))
  PROVE  AccountOf'[k] = AccountOf[k]
<1>1. ASSUME NEW u \in users, Holds(u, k)
      PROVE  AccountOf'[k] = u
  <2>1. u \in users' /\ Holds(u, k)'
    BY <1>1
  <2>2. \A v \in users' : Holds(v, k)' => v = u
    BY <2>1, NoIdentityAssumption DEF OneAccountEach, Holds, Keys
  <2> QED
    BY <2>1, <2>2 DEF AccountOf, Keys
<1>2. ASSUME \A u \in users : ~Holds(u, k)
      PROVE  AccountOf'[k] = None
  BY <1>2 DEF AccountOf, Keys
<1> QED
  BY <1>1, <1>2, HolderIsAccount, NobodyHolds

(* Of the answers, only that of the request that has just signed in is new. *)
LEMMA AnswersStay ==
  ASSUME IndInv, [Next]_vars
  PROVE  \A c \in Calls : (phase'[c] = "done" => phase[c] = "done") => AnswerOf'[c] = AnswerOf[c]
<1> SUFFICES ASSUME NEW c \in Calls, phase'[c] = "done" => phase[c] = "done"
             PROVE  AnswerOf'[c] = AnswerOf[c]
  OBVIOUS
<1>1. CASE phase[c] = "done"
  <2>1. account[c] # None
    BY <1>1 DEF IndInv, TypeOK
  <2>2. account'[c] = account[c] /\ asked'[c] = asked[c]
    BY <1>1, <2>1, RequestsStay DEF IndInv
  <2>3. TypeOK'
    BY TypePreserved DEF IndInv
  <2>4. phase'[c] = "done"
    BY <2>1, <2>2, <2>3 DEF TypeOK
  <2> QED
    BY <1>1, <2>2, <2>4 DEF AnswerOf
<1>2. CASE phase[c] # "done"
  BY <1>2 DEF AnswerOf
<1> QED
  BY <1>1, <1>2

(* A request of identity k that signs in to account u, which holds k from  *)
(* then on and was of its tenant if it was stored.                         *)
LEMMA SignInBinds ==
  ASSUME IndInv, [Next]_vars, NEW d \in Calls, NEW u \in Calls, NEW k \in Keys,
         phase[d] # "done", AnswerOf' = [AnswerOf EXCEPT ![d] = u],
         users' = users \cup {u}, u \in users => row[u].tenant = k[1],
         \A j \in Keys : Holds(u, j)' <=> j = k,
         \A v \in users \ {u}, j \in Keys : Holds(v, j)' <=> Holds(v, j)
  PROVE  Directory!Next
<1> USE NoneAssumption
<1>1. OneAccountEach /\ OneAccountEach' /\ users \subseteq Calls
  BY OneAccountPreserved DEF IndInv, TypeOK
<1>2. \A v \in users \ {u} : ~Holds(v, k)
  <2>1. \A v \in users' : Holds(v, k)' => v = u
    BY <1>1, NoIdentityAssumption DEF OneAccountEach, Holds, Keys
  <2> QED
    BY <2>1
<1>3. AnswerOf[d] = None
  BY DEF AnswerOf
<1>4. CASE u \in users /\ Holds(u, k)
  <2>1. AccountOf[k] = u
    BY <1>1, <1>4, HolderIsAccount
  <2>2. \A j \in Keys : Holds(u, j) <=> j = k
    BY <1>4 DEF Holds, Keys
  <2>3. \A j \in Keys : AccountOf'[j] = AccountOf[j]
    BY <1>1, <1>4, <2>2, AccountsStay
  <2>4. AccountOf' = AccountOf
    BY <2>3 DEF AccountOf, Keys
  <2>5. Directory!Find(d, k)
    BY <2>1, <2>4 DEF Directory!Find
  <2> QED
    BY <1>3, <2>5 DEF Directory!Next, Keys
<1>5. CASE ~(u \in users /\ Holds(u, k))
  <2>1. AccountOf[k] = None
    BY <1>2, <1>5, NobodyHolds
  <2>2. \A j \in Keys : AccountOf[j] = u => j[1] = k[1]
    BY AccountsStored DEF Holds
  <2>3. AccountOf'[k] = u
    <3>1. u \in users' /\ Holds(u, k)' /\ \A v \in users' : Holds(v, k)' => v = u
      BY <1>2
    <3> QED
      BY <3>1 DEF AccountOf, Keys
  <2>4. ASSUME NEW j \in Keys, j # k
        PROVE  AccountOf'[j] = IF AccountOf[j] = u THEN None ELSE AccountOf[j]
    <3>1. CASE u \in users /\ Holds(u, j)
      <4>1. AccountOf[j] = u
        BY <1>1, <3>1, HolderIsAccount
      <4>2. \A v \in users' : ~Holds(v, j)'
        BY <1>1, <2>4, <3>1, NoIdentityAssumption DEF OneAccountEach, Holds, Keys
      <4> QED
        BY <4>1, <4>2 DEF AccountOf, Keys
    <3>2. CASE ~(u \in users /\ Holds(u, j))
      <4>1. AccountOf[j] # u
        BY <3>2, AccountsStored
      <4>2. AccountOf'[j] = AccountOf[j]
        BY <1>1, <2>4, <3>2, AccountsStay
      <4> QED
        BY <4>1, <4>2
    <3> QED
      BY <3>1, <3>2
  <2>5. AccountOf' = [j \in Keys |->
                        IF j = k THEN u ELSE IF AccountOf[j] = u THEN None ELSE AccountOf[j]]
    BY <2>3, <2>4 DEF AccountOf, Keys
  <2>6. Directory!Bind(d, k, u)
    BY <2>1, <2>2, <2>5 DEF Directory!Bind, Keys
  <2> QED
    BY <1>3, <2>6 DEF Directory!Next, Keys
<1> QED
  BY <1>4, <1>5

(* The answer of a sign-in through a provider.                             *)
LEMMA SignInAnswers ==
  ASSUME IndInv, [Next]_vars, NEW d \in Calls, NEW u \in Calls, asked[d].oauth # NoIdentity, asked' = asked,
         phase' = [phase EXCEPT ![d] = "done"], account' = [account EXCEPT ![d] = u]
  PROVE  AnswerOf' = [AnswerOf EXCEPT ![d] = u]
<1>1. AnswerOf'[d] = u
  BY DEF AnswerOf, IndInv, TypeOK
<1>2. \A c \in Calls \ {d} : AnswerOf'[c] = AnswerOf[c]
  BY AnswersStay DEF IndInv, TypeOK
<1>3. AnswerOf = [c \in Calls |-> AnswerOf[c]] /\ AnswerOf' = [c \in Calls |-> AnswerOf'[c]]
  BY DEF AnswerOf
<1> QED
  BY <1>1, <1>2, <1>3

LEMMA LinkBinds ==
  ASSUME IndInv, [Next]_vars, NEW d \in Calls, NEW u \in users, Linked(d, u)
  PROVE  Directory!Next
<1> DEFINE k == <<asked[d].tenant, asked[d].oauth>>
<1>1. TypeOK /\ FoundInv /\ u \in Calls /\ phase[d] = "acting"
  BY DEF IndInv, TypeOK, Linked
<1>2. k \in Keys /\ asked[d].oauth # NoIdentity /\ row[u].tenant = k[1]
  BY <1>1, NoIdentityAssumption DEF Linked, TypeOK, FoundInv, Requests, Keys
<1>3. AnswerOf' = [AnswerOf EXCEPT ![d] = u]
  BY <1>1, <1>2, SignInAnswers DEF Linked
<1>4. /\ row'[u].tenant = row[u].tenant /\ row'[u].oauth = asked[d].oauth
      /\ \A v \in users \ {u} : row'[v] = row[v]
      /\ users' = users \cup {u}
  BY <1>1, LinkWrites
<1>5. \A j \in Keys : Holds(u, j)' <=> j = k
  BY <1>2, <1>4 DEF Holds, Keys
<1>6. \A v \in users \ {u}, j \in Keys : Holds(v, j)' <=> Holds(v, j)
  BY <1>4 DEF Holds
<1> QED
  BY <1>1, <1>2, <1>3, <1>4, <1>5, <1>6, SignInBinds

LEMMA InsertBinds ==
  ASSUME IndInv, [Next]_vars, NEW d \in Calls, Inserted(d), asked[d].oauth # NoIdentity
  PROVE  Directory!Next
<1> DEFINE k == <<asked[d].tenant, asked[d].oauth>>
<1>1. /\ d \notin users /\ users' = users \cup {d} /\ phase[d] # "done"
      /\ k \in Keys
  BY DEF Inserted, IndInv, IdInv, TypeOK, Requests, Keys
<1>2. AnswerOf' = [AnswerOf EXCEPT ![d] = d]
  BY SignInAnswers DEF Inserted
<1>3. \A j \in Keys : Holds(d, j)' <=> j = k
  BY DEF Inserted, Holds, IndInv, TypeOK, Keys
<1>4. \A v \in users \ {d}, j \in Keys : Holds(v, j)' <=> Holds(v, j)
  BY <1>1 DEF Inserted, Holds, IndInv, TypeOK
<1> QED
  BY <1>1, <1>2, <1>3, <1>4, SignInBinds

(* A registration is nothing to the directory.                             *)
LEMMA InsertLocal ==
  ASSUME IndInv, [Next]_vars, NEW d \in Calls, Inserted(d), asked[d].oauth = NoIdentity
  PROVE  AccountOf' = AccountOf /\ AnswerOf' = AnswerOf
<1>1. d \notin users /\ users' = users \cup {d}
  BY DEF Inserted, IndInv, IdInv
<1>2. \A u \in users, j \in Keys : Holds(u, j)' <=> Holds(u, j)
  BY <1>1 DEF Inserted, Holds, IndInv, TypeOK
<1>3. \A j \in Keys : ~Holds(d, j)'
  BY NoIdentityAssumption DEF Inserted, Holds, IndInv, TypeOK, Keys
<1>4. OneAccountEach /\ OneAccountEach'
  BY OneAccountPreserved DEF IndInv
<1>5. \A j \in Keys : AccountOf'[j] = AccountOf[j]
  BY <1>1, <1>2, <1>3, <1>4, AccountsStay
<1>6. \A c \in Calls : AnswerOf'[c] = AnswerOf[c]
  <2>1. AnswerOf'[d] = AnswerOf[d]
    BY DEF AnswerOf, Inserted
  <2>2. \A c \in Calls \ {d} : AnswerOf'[c] = AnswerOf[c]
    BY AnswersStay DEF Inserted, IndInv, TypeOK
  <2> QED
    BY <2>1, <2>2
<1> QED
  BY <1>5, <1>6 DEF AnswerOf, AccountOf, Keys

(* Every other step.                                                       *)
LEMMA OthersStutter ==
  ASSUME IndInv, [Next]_vars, ~(\E d \in Calls : Inserted(d) \/ \E u \in users : Linked(d, u))
  PROVE  AccountOf' = AccountOf /\ AnswerOf' = AnswerOf
<1>1. users' = users
  BY UsersGrow DEF IndInv
<1>2. \A u \in users, j \in Keys : Holds(u, j)' <=> Holds(u, j)
  BY ColumnsStay DEF IndInv, Kept, Holds
<1>3. OneAccountEach /\ OneAccountEach'
  BY OneAccountPreserved DEF IndInv
<1>4. \A j \in Keys : AccountOf'[j] = AccountOf[j]
  BY <1>1, <1>2, <1>3, AccountsStay
<1>5. \A c \in Calls : phase'[c] = "done" => phase[c] = "done"
  BY SignsIn DEF IndInv
<1>6. \A c \in Calls : AnswerOf'[c] = AnswerOf[c]
  BY <1>5, AnswersStay
<1> QED
  BY <1>4, <1>6 DEF AnswerOf, AccountOf, Keys

(* Provider sign-in implements get-or-create: every callback that is       *)
(* answered is answered with the account of its own identity, which has    *)
(* one at a time, and an account has one identity at a time.               *)
THEOREM SignInIsGetOrCreate == Spec => ImplementsDirectory
<1>1. Init => Directory!Init
  <2>1. ASSUME Init
        PROVE  AccountOf = [k \in Tenants \X Identities |-> None] /\ AnswerOf = [c \in Calls |-> None]
    BY <2>1 DEF Init, AccountOf, AnswerOf
  <2> QED
    BY <2>1 DEF Directory!Init
<1>2. ASSUME IndInv, [Next]_vars
      PROVE  [Directory!Next]_(Directory!avars)
  <2>1. ASSUME NEW d \in Calls, Inserted(d)
        PROVE  Directory!Next \/ UNCHANGED Directory!avars
    BY <1>2, <2>1, InsertBinds, InsertLocal DEF Directory!avars
  <2>2. ASSUME NEW d \in Calls, NEW u \in users, Linked(d, u)
        PROVE  Directory!Next
    BY <1>2, <2>2, LinkBinds
  <2>3. CASE ~(\E d \in Calls : Inserted(d) \/ \E u \in users : Linked(d, u))
    BY <1>2, <2>3, OthersStutter DEF Directory!avars
  <2> QED
    BY <2>1, <2>2, <2>3
<1> QED
  BY <1>1, <1>2, AccountsInductive, PTL DEF Spec, ImplementsDirectory, Directory!Spec

-----------------------------------------------------------------------------
(* The Security pages.  A step adds a call, changes one, or drops one.     *)

Adds(n, kind, code) ==
  /\ n \in CallType /\ n.kind = kind /\ n.code = code /\ n.state = "sent"
  /\ calls' = calls \cup {n}

Replaces(c, n) == n \in CallType /\ calls' = (calls \ {c}) \cup {n}

(* What the server does to a call leaves its kind and its code.            *)
Settles(c, n, state, value) ==
  /\ Replaces(c, n)
  /\ n.kind = c.kind /\ n.code = c.code /\ n.state = state /\ n.value = value

LEMMA SendAdds ==
  ASSUME PanelTypeOK, NEW kind \in {"me", "setup"} \cup CodeKinds, NEW code \in Nat,
         Send(kind, code)
  PROVE  \E n : Adds(n, kind, code)
<1> DEFINE n == [id |-> sent + 1, kind |-> kind, code |-> code, state |-> "sent", value |-> 0]
<1>1. n \in CallType
  BY DEF PanelTypeOK, CallType, CodeKinds
<1>2. n.kind = kind /\ n.code = code /\ n.state = "sent"
  OBVIOUS
<1>3. calls' = calls \cup {n}
  BY DEF Send
<1> HIDE DEF n
<1> QED BY <1>1, <1>2, <1>3 DEF Adds

LEMMA ServeSettles ==
  ASSUME PanelTypeOK, NEW c \in calls, NEW ok \in BOOLEAN, NEW value \in Nat, NEW record,
         Serve(c, ok, value, record)
  PROVE  \E n : Settles(c, n, IF ok THEN "ok" ELSE "refused", value)
<1> DEFINE s == IF ok THEN "ok" ELSE "refused"
           n == [c EXCEPT !.state = s, !.value = value]
<1>1. c \in CallType /\ s \in {"sent", "ok", "refused"}
  BY DEF PanelTypeOK
<1>2. n \in CallType /\ n.kind = c.kind /\ n.code = c.code /\ n.state = s /\ n.value = value
  BY <1>1 DEF CallType, CodeKinds
<1>3. calls' = (calls \ {c}) \cup {n}
  BY DEF Serve
<1> HIDE DEF n
<1> QED BY <1>2, <1>3 DEF Settles, Replaces

LEMMA LoseSettles ==
  ASSUME PanelTypeOK, NEW c \in calls, Lose(c)
  PROVE  \E n : Settles(c, n, "refused", 0)
<1> DEFINE n == [c EXCEPT !.state = "refused", !.value = 0]
<1>1. n \in CallType /\ n.kind = c.kind /\ n.code = c.code /\ n.state = "refused" /\ n.value = 0
  BY DEF PanelTypeOK, CallType, CodeKinds
<1>2. calls' = (calls \ {c}) \cup {n}
  BY DEF Lose
<1> HIDE DEF n
<1> QED BY <1>1, <1>2 DEF Settles, Replaces

(* An answer drops its call, or leaves a refresh of the session behind.    *)
LEMMA AnswerDrops ==
  ASSUME PanelTypeOK, NEW c \in calls, NEW kind, AnsweredThenRefresh(c, kind)
  PROVE  \/ calls' = calls \ {c}
         \/ \E n : Replaces(c, n) /\ n.kind = "refresh" /\ n.code = 0 /\ n.state = "sent"
<1> DEFINE n == [c EXCEPT !.kind = "refresh", !.code = 0, !.state = "sent"]
<1>1. n \in CallType /\ n.kind = "refresh" /\ n.code = 0 /\ n.state = "sent"
  BY DEF PanelTypeOK, CallType
<1>2. calls' = (calls \ {c}) \cup (IF panel = "dashboard" THEN {n} ELSE {})
  BY DEF AnsweredThenRefresh
<1> HIDE DEF n
<1> QED BY <1>1, <1>2 DEF Replaces

LEMMA ShownTyped ==
  ASSUME PanelTypeOK PROVE ShownCodes \in Nat
  BY DEF PanelTypeOK, ShownCodes

LEMMA GridTyped ==
  ASSUME PanelTypeOK, GridFollows
  PROVE  /\ copied' \in {"none", "copied", "failed"} /\ resetTimer' \in BOOLEAN
         /\ clipboard' \in Nat /\ writes' \in Nat
  BY DEF PanelTypeOK, GridFollows

(* What sending a call does to the variables of Send.                      *)
LEMMA SendTyped ==
  ASSUME PanelTypeOK, NEW kind \in {"me", "setup"} \cup CodeKinds, NEW code \in Nat,
         Send(kind, code)
  PROVE  /\ calls' \in SUBSET CallType /\ sent' \in Nat /\ overlapped' \in BOOLEAN
         /\ (\E c \in calls' : c.kind = "setup") <=> (busy \/ kind = "setup")
<1>1. PICK n : Adds(n, kind, code)
  BY SendAdds
<1>2. calls' \in SUBSET CallType
  BY <1>1 DEF Adds, PanelTypeOK
<1>3. sent' \in Nat
  BY DEF Send, PanelTypeOK
<1>4. overlapped' \in BOOLEAN
  BY DEF Send, PanelTypeOK
<1>5. (\E c \in calls' : c.kind = "setup") <=> (busy \/ kind = "setup")
  BY <1>1 DEF Adds, PanelTypeOK
<1> QED BY <1>2, <1>3, <1>4, <1>5

LEMMA UserTyped ==
  ASSUME PanelTypeOK, User
  PROVE  PanelTypeOK'
<1>1. CASE ReadMe
  <2>1. Send("me", 0)
    BY <1>1 DEF ReadMe
  <2>2. /\ calls' \in SUBSET CallType /\ sent' \in Nat /\ overlapped' \in BOOLEAN
        /\ (\E c \in calls' : c.kind = "setup") <=> busy
    BY <2>1, SendTyped
  <2> QED BY <1>1, <2>1, <2>2 DEF ReadMe, Send, PanelTypeOK, pageVars, gridVars, serverVars
<1>2. CASE BeginEnroll
  <2>1. Send("setup", 0) /\ busy' = TRUE
    BY <1>2 DEF BeginEnroll
  <2>2. /\ calls' \in SUBSET CallType /\ sent' \in Nat /\ overlapped' \in BOOLEAN
        /\ \E c \in calls' : c.kind = "setup"
    BY <2>1, SendTyped
  <2> QED BY <1>2, <2>1, <2>2 DEF BeginEnroll, Send, PanelTypeOK, gridVars, serverVars
<1>3. CASE Cancel
  BY <1>3, GridTyped DEF Cancel, PanelTypeOK, serverVars
<1>4. CASE CancelAndForget
  BY <1>4, GridTyped DEF CancelAndForget, PanelTypeOK, serverVars
<1>5. CASE ToggleRegenerate
  BY <1>5, GridTyped DEF ToggleRegenerate, PanelTypeOK, serverVars
<1>6. ASSUME NEW open \in BOOLEAN, OpenDialog(open) PROVE PanelTypeOK'
  BY <1>6 DEF OpenDialog, PanelTypeOK, gridVars, serverVars
<1>7. ASSUME NEW code \in Nat, NEW kind \in CodeKinds, Send(kind, code), errorCode' = FALSE,
             UNCHANGED <<mode, setup, busy, disableOpen, regenerating, newCodes, gridVars>>
      PROVE  PanelTypeOK'
  <2>1. /\ calls' \in SUBSET CallType /\ sent' \in Nat /\ overlapped' \in BOOLEAN
        /\ (\E c \in calls' : c.kind = "setup") <=> busy
    BY <1>7, SendTyped DEF CodeKinds
  <2> QED BY <1>7, <2>1 DEF Send, PanelTypeOK, gridVars, serverVars
<1>8. setup \in Nat /\ factor.secret \in Nat /\ {"verify", "disable", "regenerate"} = CodeKinds
  BY DEF PanelTypeOK, CodeKinds
<1>9. ASSUME NEW code \in {0, setup}, VerifyEnable(code) PROVE PanelTypeOK'
  BY <1>7, <1>8, <1>9 DEF VerifyEnable
<1>10. ASSUME NEW code \in {0, factor.secret}, Disable(code) PROVE PanelTypeOK'
  BY <1>7, <1>8, <1>10 DEF Disable
<1>11. ASSUME NEW code \in {0, factor.secret}, Regenerate(code) PROVE PanelTypeOK'
  BY <1>7, <1>8, <1>11 DEF Regenerate
<1>12. CASE Copy
  BY <1>12, ShownTyped DEF Copy, otherVars, PanelTypeOK, pageVars, serverVars
<1> QED BY <1>1, <1>2, <1>3, <1>4, <1>5, <1>6, <1>9, <1>10, <1>11, <1>12 DEF User

(* What the server makes of its record.                                    *)
LEMMA FactorTyped ==
  ASSUME PanelTypeOK, NEW s \in Nat
  PROVE  /\ [factor EXCEPT !.secret = s] \in [enabled : BOOLEAN, secret : Nat, codes : Nat]
         /\ [factor EXCEPT !.codes = s] \in [enabled : BOOLEAN, secret : Nat, codes : Nat]
  BY DEF PanelTypeOK

LEMMA ServedTyped ==
  ASSUME PanelTypeOK, NEW c \in calls, NEW ok \in BOOLEAN, NEW value \in Nat,
         NEW record \in [enabled : BOOLEAN, secret : Nat, codes : Nat],
         Serve(c, ok, value, record), minted' \in Nat
  PROVE  PanelTypeOK'
<1>1. PICK n : Settles(c, n, IF ok THEN "ok" ELSE "refused", value)
  BY ServeSettles
<1> QED BY <1>1 DEF PanelTypeOK, Serve, Settles, Replaces, pageVars, gridVars

LEMMA ServerTyped ==
  ASSUME PanelTypeOK, Server
  PROVE  PanelTypeOK'
<1>1. PICK c \in calls :
        \/ Refused(c) \/ ServeMe(c) \/ ServeSetup(c) \/ ServeVerify(c) \/ ServeDisable(c)
        \/ ServeRegenerate(c) \/ Lose(c)
  BY DEF Server
<1>2. /\ c \in CallType /\ c.code \in Nat
      /\ factor \in [enabled : BOOLEAN, secret : Nat, codes : Nat]
      /\ factor.secret \in Nat /\ minted \in Nat /\ minted + 1 \in Nat
  BY DEF PanelTypeOK, CallType
<1>3. CASE Refused(c)
  BY <1>2, <1>3, ServedTyped DEF Refused
<1>4. CASE ServeMe(c)
  BY <1>2, <1>4, ServedTyped DEF ServeMe
<1>5. CASE ServeSetup(c)
  BY <1>2, <1>5, ServedTyped, FactorTyped DEF ServeSetup
<1>6. CASE ServeVerify(c)
  <2>1. [enabled |-> TRUE, secret |-> c.code, codes |-> c.code]
          \in [enabled : BOOLEAN, secret : Nat, codes : Nat]
    BY <1>2
  <2> QED BY <1>2, <1>6, <2>1, ServedTyped DEF ServeVerify
<1>7. CASE ServeDisable(c)
  BY <1>2, <1>7, ServedTyped DEF ServeDisable
<1>8. CASE ServeRegenerate(c)
  BY <1>2, <1>8, ServedTyped, FactorTyped DEF ServeRegenerate
<1>9. CASE Lose(c)
  <2>1. PICK n : Settles(c, n, "refused", 0)
    BY <1>9, LoseSettles
  <2> QED BY <1>9, <2>1 DEF PanelTypeOK, Lose, Settles, Replaces, pageVars, gridVars, serverVars
<1> QED BY <1>1, <1>3, <1>4, <1>5, <1>6, <1>7, <1>8, <1>9

(* What an answer does to the variables of Answered.                       *)
LEMMA AnsweredTyped ==
  ASSUME PanelTypeOK, ModeInv, NEW c \in calls, NEW kind, NEW state, Answered(c, kind, state)
  PROVE  /\ calls' \in SUBSET CallType
         /\ (\E d \in calls' : d.kind = "setup") <=> (busy /\ kind # "setup")
<1>1. c.kind = kind /\ calls' = calls \ {c}
  BY DEF Answered
<1>2. CASE kind = "setup"
  BY <1>1, <1>2 DEF PanelTypeOK, ModeInv
<1>3. CASE kind # "setup"
  BY <1>1, <1>3 DEF PanelTypeOK
<1> QED BY <1>2, <1>3

LEMMA RefreshedTyped ==
  ASSUME PanelTypeOK, NEW c \in calls, NEW kind, AnsweredThenRefresh(c, kind), kind # "setup"
  PROVE  /\ calls' \in SUBSET CallType
         /\ (\E d \in calls' : d.kind = "setup") <=> busy
<1>1. c.kind = kind
  BY DEF AnsweredThenRefresh
<1>2. CASE calls' = calls \ {c}
  BY <1>1, <1>2 DEF PanelTypeOK
<1>3. ASSUME NEW n, Replaces(c, n), n.kind = "refresh"
      PROVE  /\ calls' \in SUBSET CallType
             /\ (\E d \in calls' : d.kind = "setup") <=> busy
  BY <1>1, <1>3 DEF PanelTypeOK, Replaces
<1> QED BY <1>2, <1>3, AnswerDrops

LEMMA ValueTyped ==
  ASSUME PanelTypeOK, NEW c \in calls
  PROVE  c.value \in Nat /\ c.code \in Nat
  BY DEF PanelTypeOK, CallType

LEMMA PageTyped ==
  ASSUME PanelTypeOK, ModeInv, Page
  PROVE  PanelTypeOK'
<1>1. ASSUME NEW c \in calls, DeriveFromSession(c) PROVE PanelTypeOK'
  <2>1. PICK state : Answered(c, "me", state)
    BY <1>1 DEF DeriveFromSession
  <2>2. calls' \in SUBSET CallType /\ ((\E d \in calls' : d.kind = "setup") <=> busy)
    BY <2>1, AnsweredTyped
  <2>3. mode' \in {"null", "off", "enrolling", "on"} /\ errorCode' \in BOOLEAN /\ uncertain' \in BOOLEAN
    BY <1>1, Zenon DEF DeriveFromSession, PanelTypeOK
  <2>4. UNCHANGED <<panel, status, setup, busy, disableOpen, regenerating, newCodes, copied, resetTimer,
                   clipboard, writes, sent, factor, minted, overlapped>>
    BY <1>1, <2>1, Zenon DEF DeriveFromSession, Answered, gridVars, serverVars
  <2> QED BY <2>2, <2>3, <2>4 DEF PanelTypeOK
<1>2. ASSUME NEW c \in calls, DeriveFromMe(c) PROVE PanelTypeOK'
  <2>1. PICK state : Answered(c, "me", state)
    BY <1>2 DEF DeriveFromMe
  <2>2. calls' \in SUBSET CallType /\ ((\E d \in calls' : d.kind = "setup") <=> busy)
    BY <2>1, AnsweredTyped
  <2>3. mode' \in {"null", "off", "enrolling", "on"} /\ errorCode' \in BOOLEAN /\ uncertain' \in BOOLEAN
    BY <1>2, Zenon DEF DeriveFromMe, PanelTypeOK
  <2>4. UNCHANGED <<panel, status, setup, busy, disableOpen, regenerating, newCodes, copied, resetTimer,
                   clipboard, writes, sent, factor, minted, overlapped>>
    BY <1>2, <2>1, Zenon DEF DeriveFromMe, Answered, gridVars, serverVars
  <2> QED BY <2>2, <2>3, <2>4 DEF PanelTypeOK
<1>3. ASSUME NEW c \in calls, SetupAnswered(c) PROVE PanelTypeOK'
  <2>1. PICK state : Answered(c, "setup", state)
    BY <1>3 DEF SetupAnswered
  <2>2. calls' \in SUBSET CallType /\ ~\E d \in calls' : d.kind = "setup"
    BY <2>1, AnsweredTyped
  <2> QED BY <1>3, <2>1, <2>2, ValueTyped, GridTyped
          DEF SetupAnswered, Answered, PanelTypeOK, serverVars
<1>4. ASSUME NEW c \in calls, VerifyAnswered(c) PROVE PanelTypeOK'
  <2>1. calls' \in SUBSET CallType /\ ((\E d \in calls' : d.kind = "setup") <=> busy)
    BY <1>4, AnsweredTyped, RefreshedTyped DEF VerifyAnswered
  <2>2. UNCHANGED <<panel, status, busy, disableOpen, regenerating, newCodes, sent, serverVars, uncertain,
                    overlapped>>
    BY <1>4 DEF VerifyAnswered, Answered, AnsweredThenRefresh
  <2>3. /\ setup' \in {0, setup} /\ mode' \in {"on", mode} /\ errorCode' \in {TRUE, errorCode}
    BY <1>4 DEF VerifyAnswered
  <2>4. errorCode' \in BOOLEAN
    BY <2>3 DEF PanelTypeOK
  <2>5. /\ copied' \in {"none", "copied", "failed"} /\ resetTimer' \in BOOLEAN
        /\ clipboard' \in Nat /\ writes' \in Nat
    BY <1>4, GridTyped DEF VerifyAnswered
  <2> QED BY <2>1, <2>2, <2>3, <2>4, <2>5 DEF PanelTypeOK, serverVars
<1>5. ASSUME NEW c \in calls, DisableAnswered(c) PROVE PanelTypeOK'
  <2>1. calls' \in SUBSET CallType /\ ((\E d \in calls' : d.kind = "setup") <=> busy)
    BY <1>5, AnsweredTyped, RefreshedTyped DEF DisableAnswered
  <2>2. UNCHANGED <<panel, status, setup, busy, regenerating, sent, serverVars, uncertain, overlapped>>
    BY <1>5 DEF DisableAnswered, Answered, AnsweredThenRefresh
  <2>3. /\ newCodes' \in {0, newCodes} /\ mode' \in {"off", mode}
        /\ disableOpen' \in {FALSE, disableOpen} /\ errorCode' \in {TRUE, errorCode}
    BY <1>5 DEF DisableAnswered
  <2>4. disableOpen' \in BOOLEAN /\ errorCode' \in BOOLEAN
    BY <2>3 DEF PanelTypeOK
  <2>5. /\ copied' \in {"none", "copied", "failed"} /\ resetTimer' \in BOOLEAN
        /\ clipboard' \in Nat /\ writes' \in Nat
    BY <1>5, GridTyped DEF DisableAnswered
  <2> QED BY <2>1, <2>2, <2>3, <2>4, <2>5 DEF PanelTypeOK, serverVars
<1>6. ASSUME NEW c \in calls, RegenerateAnswered(c) PROVE PanelTypeOK'
  <2>1. calls' \in SUBSET CallType /\ ((\E d \in calls' : d.kind = "setup") <=> busy)
    BY <1>6, AnsweredTyped DEF RegenerateAnswered
  <2> QED BY <1>6, <2>1, ValueTyped, GridTyped
          DEF RegenerateAnswered, Answered, PanelTypeOK, serverVars
<1>7. ASSUME NEW c \in calls, RefreshAnswered(c) PROVE PanelTypeOK'
  <2>1. PICK state : Answered(c, "refresh", state)
    BY <1>7 DEF RefreshAnswered
  <2>2. calls' \in SUBSET CallType /\ ((\E d \in calls' : d.kind = "setup") <=> busy)
    BY <2>1, AnsweredTyped
  <2>3. UNCHANGED <<panel, status, mode, setup, busy, disableOpen, regenerating, newCodes, gridVars, sent,
                    serverVars, uncertain, overlapped>>
    BY <1>7 DEF RefreshAnswered, Answered
  <2>4. errorCode' \in BOOLEAN
    BY <1>7 DEF RefreshAnswered, PanelTypeOK
  <2> QED BY <2>2, <2>3, <2>4 DEF PanelTypeOK, gridVars, serverVars
<1>8. ASSUME NEW ok \in BOOLEAN, CopyAnswered(ok) PROVE PanelTypeOK'
  BY <1>8 DEF CopyAnswered, otherVars, PanelTypeOK, pageVars, serverVars
<1>9. CASE ScheduledReset
  BY <1>9 DEF ScheduledReset, otherVars, PanelTypeOK, pageVars, serverVars
<1>10. CASE SessionStatus
  BY <1>10, GridTyped DEF SessionStatus, PanelTypeOK, pageVars, serverVars
<1> QED BY <1>1, <1>2, <1>3, <1>4, <1>5, <1>6, <1>7, <1>8, <1>9, <1>10 DEF Page

-----------------------------------------------------------------------------
(* The invariant of a Security page, group of steps by group of steps.     *)

CallsInv == ModeInv /\ MintInv /\ EnrolInv /\ RekeyInv

(* A handler sends its call in its mode.                                   *)
LEMMA SendKeeps ==
  ASSUME PanelTypeOK, CallsInv,
         NEW kind \in {"me", "setup"} \cup CodeKinds, NEW code \in 0..minted, Send(kind, code),
         UNCHANGED <<mode, setup, newCodes>>,
         kind = "me" <=> mode = "null",
         kind \in {"me", "setup"} => \A c \in calls : c.kind # kind,
         kind = "setup" => mode = "off",
         kind = "verify" => mode # "off",
         kind \in {"disable", "regenerate"} => mode = "on"
  PROVE  CallsInv'
<1>1. /\ UNCHANGED <<mode, setup, newCodes, factor, minted, uncertain>>
      /\ overlapped' = (overlapped \/ (kind \in CodeKinds /\ \E c \in calls : c.kind \in CodeKinds))
  BY DEF Send, serverVars
<1>2. code \in Nat /\ code <= minted
  BY DEF PanelTypeOK
<1>3. PICK n : Adds(n, kind, code)
  BY <1>2, SendAdds
<1>4. /\ n.kind = kind /\ n.code = code /\ n.state = "sent"
      /\ calls' = calls \cup {n}
  BY <1>3 DEF Adds
<1>5. ModeInv'
  BY <1>1, <1>4 DEF CallsInv, ModeInv
<1>6. MintInv'
  BY <1>1, <1>2, <1>4 DEF CallsInv, MintInv
<1>7. EnrolInv'
  BY <1>1, <1>4 DEF CallsInv, EnrolInv, CallFollowsMode, Fits, CodeKinds
<1>8. RekeyInv'
  BY <1>1, <1>4 DEF CallsInv, RekeyInv, CodeKinds
<1> QED BY <1>5, <1>6, <1>7, <1>8 DEF CallsInv

(* A call that is refused, or whose answer is lost.                        *)
LEMMA RefusalKeeps ==
  ASSUME PanelTypeOK, CallsInv, NEW c \in calls, NEW n, Settles(c, n, "refused", 0),
         UNCHANGED <<mode, setup, newCodes, factor, minted, overlapped>>,
         \/ c.state = "sent" /\ uncertain' = uncertain
         \/ c.kind \notin {"me", "refresh"} /\ uncertain' = TRUE
  PROVE  CallsInv'
<1>1. /\ n.kind = c.kind /\ n.code = c.code /\ n.state = "refused"
      /\ calls' = (calls \ {c}) \cup {n}
  BY DEF Settles, Replaces
<1>2. ModeInv'
  BY <1>1 DEF CallsInv, ModeInv
<1>3. MintInv'
  BY <1>1 DEF CallsInv, MintInv
<1>4. EnrolInv'
  BY <1>1 DEF CallsInv, EnrolInv, CallFollowsMode, Fits
<1>5. RekeyInv'
  BY <1>1 DEF CallsInv, RekeyInv
<1> QED BY <1>2, <1>3, <1>4, <1>5 DEF CallsInv

LEMMA ServeMeKeeps ==
  ASSUME PanelTypeOK, CallsInv, NEW c \in calls, ServeMe(c)
  PROVE  CallsInv'
<1> DEFINE v == IF factor.enabled THEN 1 ELSE 0
<1>1. v \in Nat /\ (v = 1 <=> factor.enabled)
  OBVIOUS
<1>2. Serve(c, TRUE, v, factor)
  BY DEF ServeMe
<1> HIDE DEF v
<1>3. PICK n : Settles(c, n, "ok", v)
  BY <1>1, <1>2, ServeSettles
<1>4. /\ n.kind = c.kind /\ n.code = c.code /\ n.state = "ok" /\ n.value = v
      /\ calls' = (calls \ {c}) \cup {n}
  BY <1>3 DEF Settles, Replaces
<1>5. UNCHANGED <<mode, setup, newCodes, factor, minted, uncertain, overlapped>>
  BY <1>2 DEF ServeMe, Serve, pageVars
<1>6. c.kind \in {"me", "refresh"} /\ c.state = "sent"
  BY DEF ServeMe
<1>7. ModeInv'
  BY <1>1, <1>4, <1>5, <1>6 DEF CallsInv, ModeInv
<1>8. MintInv'
  BY <1>4, <1>5, <1>6 DEF CallsInv, MintInv
<1>9. EnrolInv'
  BY <1>4, <1>5, <1>6 DEF CallsInv, EnrolInv, CallFollowsMode, Fits
<1>10. RekeyInv'
  BY <1>4, <1>5, <1>6 DEF CallsInv, RekeyInv, CodeKinds
<1> QED BY <1>7, <1>8, <1>9, <1>10 DEF CallsInv

(* A fresh secret is one that no code is of.                               *)
LEMMA ServeSetupKeeps ==
  ASSUME PanelTypeOK, CallsInv, NEW c \in calls, ServeSetup(c)
  PROVE  CallsInv'
<1>1. PICK v \in Nat :
        /\ Serve(c, TRUE, v, [factor EXCEPT !.secret = v])
        /\ \/ v = minted + 1 /\ minted' = minted + 1
           \/ v = factor.secret /\ v # 0 /\ UNCHANGED minted
  <2>1. minted + 1 \in Nat /\ factor.secret \in Nat /\ [factor EXCEPT !.secret = factor.secret] = factor
    BY DEF PanelTypeOK
  <2> QED BY <2>1 DEF ServeSetup
<1>2. PICK n : Settles(c, n, "ok", v)
  BY <1>1, ServeSettles
<1>3. /\ n.kind = c.kind /\ n.code = c.code /\ n.state = "ok" /\ n.value = v
      /\ calls' = (calls \ {c}) \cup {n}
  BY <1>2 DEF Settles, Replaces
<1>4. /\ UNCHANGED <<mode, setup, newCodes, uncertain, overlapped>>
      /\ factor'.enabled = factor.enabled /\ factor'.codes = factor.codes /\ factor'.secret = v
  BY <1>1 DEF Serve, pageVars, PanelTypeOK
<1>5. c.kind = "setup" /\ c.state = "sent" /\ ~factor.enabled
  BY DEF ServeSetup
<1>6. /\ minted' \in Nat /\ minted <= minted' /\ minted' # 0 /\ v \in 1..minted'
      /\ factor.secret = v \/ minted < v
  BY <1>1 DEF CallsInv, MintInv, PanelTypeOK
<1>7. \A d \in calls : d.code \in Nat /\ d.code <= minted
  BY ValueTyped DEF CallsInv, MintInv
<1>8. ModeInv'
  BY <1>3, <1>4, <1>5 DEF CallsInv, ModeInv
<1>9. MintInv'
  BY <1>3, <1>4, <1>5, <1>6, <1>7, ValueTyped DEF CallsInv, MintInv, PanelTypeOK
<1>10. EnrolInv'
  <2>1. SUFFICES ASSUME ~uncertain PROVE EnrolInv'
    BY <1>4 DEF EnrolInv
  <2>2. mode = "off" /\ \A d \in calls : d.kind = "setup" => d = c
    BY <1>5, <2>1 DEF CallsInv, EnrolInv, CallFollowsMode, ModeInv
  <2>3. \A d \in calls' : CallFollowsMode(d)'
    BY <1>3, <1>4, <1>5, <1>6, <1>7, <2>1, <2>2 DEF CallsInv, EnrolInv, CallFollowsMode, Fits, PanelTypeOK
  <2> QED BY <1>3, <1>4, <1>5, <2>1, <2>2, <2>3 DEF CallsInv, EnrolInv
<1>11. RekeyInv'
  BY <1>3, <1>4, <1>5 DEF CallsInv, RekeyInv, CodeKinds
<1> QED BY <1>8, <1>9, <1>10, <1>11 DEF CallsInv

(* A code-bearing call that fits is of the one mode that sends it.         *)
LEMMA ServeVerifyKeeps ==
  ASSUME PanelTypeOK, CallsInv, NEW c \in calls, ServeVerify(c)
  PROVE  CallsInv'
<1>1. Serve(c, TRUE, 0, [enabled |-> TRUE, secret |-> c.code, codes |-> c.code])
  BY DEF ServeVerify
<1>2. PICK n : Settles(c, n, "ok", 0)
  BY <1>1, ServeSettles
<1>3. /\ n.kind = c.kind /\ n.code = c.code /\ n.state = "ok" /\ n.value = 0
      /\ calls' = (calls \ {c}) \cup {n}
  BY <1>2 DEF Settles, Replaces
<1>4. /\ UNCHANGED <<mode, setup, newCodes, minted, uncertain, overlapped>>
      /\ factor'.enabled = TRUE /\ factor'.codes = c.code /\ factor'.secret = factor.secret
  BY <1>1 DEF ServeVerify, Serve, pageVars
<1>5. c.kind = "verify" /\ c.state = "sent" /\ ~factor.enabled /\ Fits(c) /\ factor.secret # 0
  BY DEF ServeVerify, Fits
<1>6. mode # "null"
  BY <1>5 DEF CallsInv, ModeInv
<1>7. ModeInv'
  BY <1>3, <1>4, <1>5, <1>6 DEF CallsInv, ModeInv
<1>8. MintInv'
  BY <1>3, <1>4, <1>5 DEF CallsInv, MintInv
<1>9. EnrolInv'
  <2>1. SUFFICES ASSUME ~uncertain PROVE EnrolInv'
    BY <1>4 DEF EnrolInv
  <2>2. mode = "enrolling"
    BY <1>5, <1>6, <2>1 DEF CallsInv, EnrolInv, CallFollowsMode, PanelTypeOK
  <2>3. \A d \in calls' : CallFollowsMode(d)'
    BY <1>3, <1>4, <1>5, <2>1, <2>2 DEF CallsInv, EnrolInv, CallFollowsMode, Fits
  <2>4. \A d \in calls : d.kind = "verify" => d.state # "ok"
    BY <1>5, <2>1 DEF CallsInv, EnrolInv, CallFollowsMode
  <2> QED BY <1>3, <1>4, <1>5, <2>1, <2>2, <2>3, <2>4 DEF CallsInv, EnrolInv
<1>10. RekeyInv'
  <2>1. SUFFICES ASSUME ~overlapped PROVE RekeyInv'
    BY <1>4 DEF RekeyInv
  <2>2. \A d \in calls : d.kind \in CodeKinds => d = c
    BY <1>5, <2>1 DEF CallsInv, RekeyInv, CodeKinds
  <2>3. ~uncertain => mode # "on"
    BY <1>5 DEF CallsInv, EnrolInv
  <2> QED BY <1>3, <1>4, <1>5, <2>1, <2>2, <2>3 DEF CallsInv, RekeyInv, CodeKinds
<1> QED BY <1>7, <1>8, <1>9, <1>10 DEF CallsInv

LEMMA ServeDisableKeeps ==
  ASSUME PanelTypeOK, CallsInv, NEW c \in calls, ServeDisable(c)
  PROVE  CallsInv'
<1>1. Serve(c, TRUE, 0, [enabled |-> FALSE, secret |-> 0, codes |-> 0])
  BY DEF ServeDisable
<1>2. PICK n : Settles(c, n, "ok", 0)
  BY <1>1, ServeSettles
<1>3. /\ n.kind = c.kind /\ n.code = c.code /\ n.state = "ok" /\ n.value = 0
      /\ calls' = (calls \ {c}) \cup {n}
  BY <1>2 DEF Settles, Replaces
<1>4. /\ UNCHANGED <<mode, setup, newCodes, minted, uncertain, overlapped>>
      /\ factor'.enabled = FALSE /\ factor'.codes = 0 /\ factor'.secret = 0
  BY <1>1 DEF ServeDisable, Serve, pageVars
<1>5. c.kind = "disable" /\ c.state = "sent" /\ factor.enabled /\ Fits(c)
  BY DEF ServeDisable, Fits
<1>6. mode # "null"
  BY <1>5 DEF CallsInv, ModeInv
<1>7. ModeInv'
  BY <1>3, <1>4, <1>5, <1>6 DEF CallsInv, ModeInv
<1>8. MintInv'
  BY <1>3, <1>4, <1>5 DEF CallsInv, MintInv, PanelTypeOK
<1>9. EnrolInv'
  <2>1. SUFFICES ASSUME ~uncertain PROVE EnrolInv'
    BY <1>4 DEF EnrolInv
  <2>2. mode = "on"
    BY <1>5, <2>1 DEF CallsInv, EnrolInv, CallFollowsMode
  <2>3. \A d \in calls' : CallFollowsMode(d)'
    BY <1>3, <1>4, <1>5, <2>1, <2>2 DEF CallsInv, EnrolInv, CallFollowsMode, Fits
  <2>4. \A d \in calls : d.kind = "disable" => d.state # "ok"
    BY <1>5, <2>1 DEF CallsInv, EnrolInv, CallFollowsMode
  <2> QED BY <1>3, <1>4, <1>5, <2>1, <2>2, <2>3, <2>4 DEF CallsInv, EnrolInv
<1>10. RekeyInv'
  <2>1. SUFFICES ASSUME ~overlapped PROVE RekeyInv'
    BY <1>4 DEF RekeyInv
  <2>2. \A d \in calls : d.kind \in CodeKinds => d = c
    BY <1>5, <2>1 DEF CallsInv, RekeyInv, CodeKinds
  <2> QED BY <1>3, <1>4, <1>5, <2>1, <2>2 DEF CallsInv, RekeyInv, CodeKinds
<1> QED BY <1>7, <1>8, <1>9, <1>10 DEF CallsInv

LEMMA ServeRegenerateKeeps ==
  ASSUME PanelTypeOK, CallsInv, NEW c \in calls, ServeRegenerate(c)
  PROVE  CallsInv'
<1>1. minted + 1 \in Nat /\ Serve(c, TRUE, minted + 1, [factor EXCEPT !.codes = minted + 1])
  <2>1. minted + 1 \in Nat
    BY DEF PanelTypeOK
  <2> QED BY <2>1 DEF ServeRegenerate
<1>2. PICK n : Settles(c, n, "ok", minted + 1)
  BY <1>1, ServeSettles
<1>3. /\ n.kind = c.kind /\ n.code = c.code /\ n.state = "ok" /\ n.value = minted + 1
      /\ calls' = (calls \ {c}) \cup {n}
  BY <1>2 DEF Settles, Replaces
<1>4. /\ UNCHANGED <<mode, setup, newCodes, uncertain, overlapped>> /\ minted' = minted + 1
      /\ factor'.enabled = factor.enabled /\ factor'.codes = minted + 1
      /\ factor'.secret = factor.secret
  BY <1>1 DEF ServeRegenerate, Serve, pageVars, PanelTypeOK
<1>5. c.kind = "regenerate" /\ c.state = "sent"
  BY DEF ServeRegenerate
<1>6. mode # "null"
  BY <1>5 DEF CallsInv, ModeInv
<1>7. ModeInv'
  BY <1>3, <1>4, <1>5, <1>6 DEF CallsInv, ModeInv
<1>8. MintInv'
  BY <1>3, <1>4, <1>5, ValueTyped DEF CallsInv, MintInv, PanelTypeOK
<1>9. EnrolInv'
  BY <1>3, <1>4, <1>5 DEF CallsInv, EnrolInv, CallFollowsMode, Fits
<1>10. RekeyInv'
  <2>1. SUFFICES ASSUME ~overlapped PROVE RekeyInv'
    BY <1>4 DEF RekeyInv
  <2>2. \A d \in calls : d.kind \in CodeKinds => d = c
    BY <1>5, <2>1 DEF CallsInv, RekeyInv, CodeKinds
  <2> QED BY <1>3, <1>4, <1>5, <2>1, <2>2 DEF CallsInv, RekeyInv, CodeKinds
<1> QED BY <1>7, <1>8, <1>9, <1>10 DEF CallsInv

-----------------------------------------------------------------------------
(* What an answer does to the page.                                        *)

(* An answer that changes nothing but the calls and the error shown.       *)
LEMMA DropKeeps ==
  ASSUME CallsInv, NEW c \in calls, calls' = calls \ {c},
         c.state = "refused" \/ c.kind = "refresh",
         UNCHANGED <<mode, setup, newCodes, factor, minted, uncertain, overlapped>>
  PROVE  CallsInv'
<1>1. ModeInv'
  BY DEF CallsInv, ModeInv
<1>2. MintInv'
  BY DEF CallsInv, MintInv
<1>3. EnrolInv'
  BY DEF CallsInv, EnrolInv, CallFollowsMode, Fits
<1>4. RekeyInv'
  BY DEF CallsInv, RekeyInv
<1> QED BY <1>1, <1>2, <1>3, <1>4 DEF CallsInv

(* The page is told its mode, and it was its only call.                    *)
LEMMA DeriveKeeps ==
  ASSUME PanelTypeOK, CallsInv, NEW c \in calls, c.kind = "me", calls' = calls \ {c},
         UNCHANGED <<setup, newCodes, factor, minted, overlapped>>,
         \/ c.state = "ok" /\ mode' = (IF c.value = 1 THEN "on" ELSE "off") /\ UNCHANGED uncertain
         \/ mode' = "off" /\ uncertain' = TRUE
  PROVE  CallsInv'
<1>1. mode = "null" /\ mode' # "null" /\ mode' # "enrolling"
  BY DEF CallsInv, ModeInv
<1>2. calls' = {}
  BY <1>1 DEF CallsInv, ModeInv
<1>3. ModeInv'
  BY <1>2 DEF ModeInv
<1>4. MintInv'
  BY <1>1, <1>2 DEF CallsInv, MintInv
<1>5. EnrolInv'
  BY <1>1, <1>2 DEF CallsInv, EnrolInv, ModeInv
<1>6. RekeyInv'
  BY <1>1, <1>2 DEF CallsInv, RekeyInv
<1> QED BY <1>3, <1>4, <1>5, <1>6 DEF CallsInv

LEMMA SetupKeeps ==
  ASSUME PanelTypeOK, CallsInv, NEW c \in calls, Answered(c, "setup", "ok"),
         setup' = c.value, mode' = "enrolling", UNCHANGED <<newCodes, uncertain>>
  PROVE  CallsInv'
<1>1. /\ c.kind = "setup" /\ c.state = "ok" /\ calls' = calls \ {c}
      /\ UNCHANGED <<factor, minted, overlapped>>
  BY DEF Answered, serverVars
<1>2. mode # "null" /\ \A d \in calls' : d.kind # "setup"
  BY <1>1 DEF CallsInv, ModeInv
<1>3. ModeInv'
  BY <1>1, <1>2 DEF CallsInv, ModeInv
<1>4. MintInv'
  BY <1>1 DEF CallsInv, MintInv, PanelTypeOK
<1>5. EnrolInv'
  BY <1>1, <1>2 DEF CallsInv, EnrolInv, CallFollowsMode, Fits
<1>6. RekeyInv'
  <2>1. ~uncertain => mode = "off"
    BY <1>1 DEF CallsInv, EnrolInv, CallFollowsMode
  <2> QED BY <1>1, <2>1 DEF CallsInv, RekeyInv
<1> QED BY <1>3, <1>4, <1>5, <1>6 DEF CallsInv

LEMMA CancelKeeps ==
  ASSUME PanelTypeOK, CallsInv, mode = "enrolling", mode' = "off", setup' \in {0, setup},
         uncertain' = (uncertain \/ Verifying),
         UNCHANGED <<newCodes, calls, factor, minted, overlapped>>
  PROVE  CallsInv'
<1>1. ModeInv'
  BY DEF CallsInv, ModeInv
<1>2. MintInv'
  BY DEF CallsInv, MintInv, PanelTypeOK
<1>3. EnrolInv'
  BY DEF CallsInv, EnrolInv, CallFollowsMode, Fits, Verifying
<1>4. RekeyInv'
  BY DEF CallsInv, RekeyInv
<1> QED BY <1>1, <1>2, <1>3, <1>4 DEF CallsInv

(* An answered call leaves the others, and a refresh at most.              *)
LEMMA RefreshLeft ==
  ASSUME PanelTypeOK, NEW c \in calls, NEW kind, AnsweredThenRefresh(c, kind)
  PROVE  /\ c.kind = kind /\ c.state = "ok"
         /\ \A d \in calls' : (d \in calls /\ d # c) \/ (d.kind = "refresh" /\ d.code = 0)
         /\ UNCHANGED <<factor, minted, overlapped>>
<1>1. c.kind = kind /\ c.state = "ok" /\ UNCHANGED <<factor, minted, overlapped>>
  BY DEF AnsweredThenRefresh, serverVars
<1>2. \A d \in calls' : (d \in calls /\ d # c) \/ (d.kind = "refresh" /\ d.code = 0)
  BY AnswerDrops DEF Replaces
<1> QED BY <1>1, <1>2

LEMMA VerifiedKeeps ==
  ASSUME PanelTypeOK, CallsInv, NEW c \in calls, AnsweredThenRefresh(c, "verify"),
         setup' = 0, mode' = "on", UNCHANGED <<newCodes, uncertain>>
  PROVE  CallsInv'
<1>1. /\ c.kind = "verify" /\ c.state = "ok"
      /\ \A d \in calls' : (d \in calls /\ d # c) \/ (d.kind = "refresh" /\ d.code = 0)
      /\ UNCHANGED <<factor, minted, overlapped>>
  BY RefreshLeft
<1>2. mode # "null"
  BY <1>1 DEF CallsInv, ModeInv
<1>3. ModeInv'
  BY <1>1, <1>2 DEF CallsInv, ModeInv
<1>4. MintInv'
  BY <1>1 DEF CallsInv, MintInv, PanelTypeOK
<1>5. EnrolInv'
  <2>1. SUFFICES ASSUME ~uncertain PROVE EnrolInv'
    BY DEF EnrolInv
  <2>2. mode = "enrolling" /\ factor.enabled
    BY <1>1, <2>1 DEF CallsInv, EnrolInv, CallFollowsMode
  <2>3. \A d \in calls : (d.kind = "verify" /\ d.state = "ok") => d = c
    BY <1>1, <2>1 DEF CallsInv, EnrolInv
  <2>4. \A d \in calls' : CallFollowsMode(d)'
    BY <1>1, <2>1, <2>2, <2>3 DEF CallsInv, EnrolInv, CallFollowsMode, Fits
  <2> QED BY <1>1, <2>1, <2>2, <2>4 DEF CallsInv, EnrolInv
<1>6. RekeyInv'
  <2>1. ~uncertain => mode = "enrolling"
    BY <1>1 DEF CallsInv, EnrolInv, CallFollowsMode
  <2> QED BY <1>1, <2>1 DEF CallsInv, RekeyInv, CodeKinds
<1> QED BY <1>3, <1>4, <1>5, <1>6 DEF CallsInv

LEMMA DisabledKeeps ==
  ASSUME PanelTypeOK, CallsInv, NEW c \in calls, AnsweredThenRefresh(c, "disable"),
         newCodes' = 0, mode' = "off", UNCHANGED <<setup, uncertain>>
  PROVE  CallsInv'
<1>1. /\ c.kind = "disable" /\ c.state = "ok"
      /\ \A d \in calls' : (d \in calls /\ d # c) \/ (d.kind = "refresh" /\ d.code = 0)
      /\ UNCHANGED <<factor, minted, overlapped>>
  BY RefreshLeft
<1>2. mode # "null"
  BY <1>1 DEF CallsInv, ModeInv
<1>3. ModeInv'
  BY <1>1, <1>2 DEF CallsInv, ModeInv
<1>4. MintInv'
  BY <1>1 DEF CallsInv, MintInv, PanelTypeOK
<1>5. EnrolInv'
  <2>1. SUFFICES ASSUME ~uncertain PROVE EnrolInv'
    BY DEF EnrolInv
  <2>2. mode = "on" /\ factor.secret = 0
    BY <1>1, <2>1 DEF CallsInv, EnrolInv, CallFollowsMode
  <2>3. \A d \in calls : (d.kind = "disable" /\ d.state = "ok") => d = c
    BY <1>1, <2>1 DEF CallsInv, EnrolInv
  <2>4. \A d \in calls' : CallFollowsMode(d)'
    BY <1>1, <2>1, <2>2, <2>3 DEF CallsInv, EnrolInv, CallFollowsMode, Fits
  <2> QED BY <1>1, <2>1, <2>4 DEF CallsInv, EnrolInv
<1>6. RekeyInv'
  BY <1>1 DEF CallsInv, RekeyInv, CodeKinds
<1> QED BY <1>3, <1>4, <1>5, <1>6 DEF CallsInv

LEMMA RegeneratedKeeps ==
  ASSUME PanelTypeOK, CallsInv, NEW c \in calls, Answered(c, "regenerate", "ok"),
         newCodes' = c.value, UNCHANGED <<mode, setup, uncertain>>
  PROVE  CallsInv'
<1>1. /\ c.kind = "regenerate" /\ c.state = "ok" /\ calls' = calls \ {c}
      /\ UNCHANGED <<factor, minted, overlapped>>
  BY DEF Answered, serverVars
<1>2. ModeInv'
  BY <1>1 DEF CallsInv, ModeInv
<1>3. MintInv'
  BY <1>1 DEF CallsInv, MintInv
<1>4. EnrolInv'
  BY <1>1 DEF CallsInv, EnrolInv, CallFollowsMode, Fits
<1>5. RekeyInv'
  BY <1>1 DEF CallsInv, RekeyInv
<1> QED BY <1>2, <1>3, <1>4, <1>5 DEF CallsInv

(* The rest touch at most the codes on screen, which they take off.        *)
LEMMA ScreenKeeps ==
  ASSUME CallsInv, newCodes' \in {0, newCodes},
         UNCHANGED <<mode, setup, calls, factor, minted, uncertain, overlapped>>
  PROVE  CallsInv'
<1>1. ModeInv'
  BY DEF CallsInv, ModeInv
<1>2. MintInv'
  BY DEF CallsInv, MintInv
<1>3. EnrolInv'
  BY DEF CallsInv, EnrolInv, CallFollowsMode, Fits
<1>4. RekeyInv'
  BY DEF CallsInv, RekeyInv
<1> QED BY <1>1, <1>2, <1>3, <1>4 DEF CallsInv

-----------------------------------------------------------------------------
(* What a mode offers.                                                     *)
LEMMA OfferedIn ==
  ASSUME PanelTypeOK
  PROVE  /\ "enable" \in Offers => mode = "off" /\ ~busy
         /\ "cancel" \in Offers => mode = "enrolling"
         /\ "code" \in Offers => mode = "enrolling"
         /\ "disableCode" \in Offers => mode = "on"
         /\ "regenerateCode" \in Offers => mode = "on"
  BY DEF PanelTypeOK, Offers

LEMMA UserKeeps ==
  ASSUME PanelTypeOK, CallsInv, User
  PROVE  CallsInv'
<1>1. 0 \in 0..minted /\ setup \in 0..minted /\ factor.secret \in 0..minted
  BY DEF CallsInv, MintInv, PanelTypeOK
<1>2. CASE ReadMe
  BY <1>1, <1>2, SendKeeps DEF ReadMe, pageVars
<1>3. CASE BeginEnroll
  <2>1. mode = "off" /\ \A c \in calls : c.kind # "setup"
    BY <1>3, OfferedIn DEF BeginEnroll, PanelTypeOK
  <2> QED BY <1>1, <1>3, <2>1, SendKeeps DEF BeginEnroll
<1>4. CASE Cancel
  BY <1>4, OfferedIn, CancelKeeps DEF Cancel, serverVars
<1>5. CASE CancelAndForget
  BY <1>5, OfferedIn, CancelKeeps DEF CancelAndForget, serverVars
<1>6. CASE ToggleRegenerate
  BY <1>6, ScreenKeeps DEF ToggleRegenerate, serverVars
<1>7. ASSUME NEW open \in BOOLEAN, OpenDialog(open) PROVE CallsInv'
  BY <1>7, ScreenKeeps DEF OpenDialog, serverVars
<1>8. ASSUME NEW code \in {0, setup}, VerifyEnable(code) PROVE CallsInv'
  BY <1>1, <1>8, OfferedIn, SendKeeps DEF VerifyEnable, CodeKinds
<1>9. ASSUME NEW code \in {0, factor.secret}, Disable(code) PROVE CallsInv'
  BY <1>1, <1>9, OfferedIn, SendKeeps DEF Disable, CodeKinds
<1>10. ASSUME NEW code \in {0, factor.secret}, Regenerate(code) PROVE CallsInv'
  BY <1>1, <1>10, OfferedIn, SendKeeps DEF Regenerate, CodeKinds
<1>11. CASE Copy
  BY <1>11, ScreenKeeps DEF Copy, otherVars, pageVars, serverVars
<1> QED BY <1>2, <1>3, <1>4, <1>5, <1>6, <1>7, <1>8, <1>9, <1>10, <1>11 DEF User

LEMMA ServerKeeps ==
  ASSUME PanelTypeOK, CallsInv, Server
  PROVE  CallsInv'
<1>1. PICK c \in calls :
        \/ Refused(c) \/ ServeMe(c) \/ ServeSetup(c) \/ ServeVerify(c) \/ ServeDisable(c)
        \/ ServeRegenerate(c) \/ Lose(c)
  BY DEF Server
<1>2. CASE Refused(c)
  <2>1. Serve(c, FALSE, 0, factor) /\ c.state = "sent"
    BY <1>2 DEF Refused
  <2>2. PICK n : Settles(c, n, "refused", 0)
    BY <2>1, ServeSettles
  <2> QED BY <1>2, <2>1, <2>2, RefusalKeeps DEF Refused, Serve, pageVars
<1>3. CASE Lose(c)
  <2>1. PICK n : Settles(c, n, "refused", 0)
    BY <1>3, LoseSettles
  <2> QED BY <1>3, <2>1, RefusalKeeps DEF Lose, pageVars, serverVars
<1> QED BY <1>1, <1>2, <1>3, ServeMeKeeps, ServeSetupKeeps, ServeVerifyKeeps, ServeDisableKeeps,
           ServeRegenerateKeeps

LEMMA PageKeeps ==
  ASSUME PanelTypeOK, CallsInv, Page
  PROVE  CallsInv'
<1>1. ASSUME NEW c \in calls, NEW kind, kind # "refresh", Answered(c, kind, "refused"),
             UNCHANGED <<mode, setup, newCodes, uncertain>>
      PROVE  CallsInv'
  BY <1>1, DropKeeps DEF Answered, serverVars
<1>2. ASSUME NEW c \in calls, DeriveFromSession(c) PROVE CallsInv'
  <2>1. CASE Answered(c, "me", "ok")
    BY <1>2, <2>1, DeriveKeeps DEF DeriveFromSession, Answered, serverVars
  <2>2. CASE Answered(c, "me", "refused")
    BY <1>1, <1>2, <2>2 DEF DeriveFromSession, Answered
  <2> QED BY <1>2, <2>1, <2>2 DEF DeriveFromSession
<1>3. ASSUME NEW c \in calls, DeriveFromMe(c) PROVE CallsInv'
  BY <1>3, DeriveKeeps DEF DeriveFromMe, Answered, serverVars
<1>4. ASSUME NEW c \in calls, SetupAnswered(c) PROVE CallsInv'
  BY <1>1, <1>4, SetupKeeps DEF SetupAnswered
<1>5. ASSUME NEW c \in calls, VerifyAnswered(c) PROVE CallsInv'
  BY <1>1, <1>5, VerifiedKeeps DEF VerifyAnswered
<1>6. ASSUME NEW c \in calls, DisableAnswered(c) PROVE CallsInv'
  BY <1>1, <1>6, DisabledKeeps DEF DisableAnswered
<1>7. ASSUME NEW c \in calls, RegenerateAnswered(c) PROVE CallsInv'
  BY <1>1, <1>7, RegeneratedKeeps DEF RegenerateAnswered
<1>8. ASSUME NEW c \in calls, RefreshAnswered(c) PROVE CallsInv'
  BY <1>8, DropKeeps DEF RefreshAnswered, Answered, serverVars
<1>9. ASSUME NEW ok \in BOOLEAN, CopyAnswered(ok) PROVE CallsInv'
  BY <1>9, ScreenKeeps DEF CopyAnswered, otherVars, pageVars, serverVars
<1>10. CASE ScheduledReset
  BY <1>10, ScreenKeeps DEF ScheduledReset, otherVars, pageVars, serverVars
<1>11. CASE SessionStatus
  BY <1>11, ScreenKeeps DEF SessionStatus, pageVars, serverVars
<1> QED BY <1>2, <1>3, <1>4, <1>5, <1>6, <1>7, <1>8, <1>9, <1>10, <1>11 DEF Page

LEMMA PanelInitInductive == PanelInit => PanelInv
<1> SUFFICES ASSUME PanelInit PROVE PanelInv
  OBVIOUS
<1>1. /\ factor \in [enabled : BOOLEAN, secret : Nat, codes : Nat]
      /\ factor.secret \in {0, 1} /\ (factor.enabled \/ factor.secret = 0)
  <2>1. CASE factor = [enabled |-> FALSE, secret |-> 0, codes |-> 0]
    BY <2>1
  <2>2. CASE factor = [enabled |-> TRUE, secret |-> 1, codes |-> 1]
    BY <2>2
  <2> QED BY <2>1, <2>2 DEF PanelInit
<1>2. PanelTypeOK
  BY <1>1 DEF PanelInit, PanelTypeOK
<1>3. ModeInv /\ MintInv /\ EnrolInv /\ RekeyInv
  BY <1>1 DEF PanelInit, ModeInv, MintInv, EnrolInv, RekeyInv
<1> QED BY <1>2, <1>3 DEF PanelInv

LEMMA PanelStepInductive == PanelInv /\ [PanelNext]_panelVars => PanelInv'
<1> SUFFICES ASSUME PanelInv, [PanelNext]_panelVars PROVE PanelInv'
  OBVIOUS
<1>1. PanelTypeOK /\ ModeInv /\ CallsInv
  BY DEF PanelInv, CallsInv
<1>2. CASE User
  BY <1>1, <1>2, UserTyped, UserKeeps DEF PanelInv, CallsInv
<1>3. CASE Server
  BY <1>1, <1>3, ServerTyped, ServerKeeps DEF PanelInv, CallsInv
<1>4. CASE Page
  BY <1>1, <1>4, PageTyped, PageKeeps DEF PanelInv, CallsInv
<1>5. CASE UNCHANGED panelVars
  <2>1. PanelTypeOK'
    BY <1>1, <1>5 DEF PanelTypeOK, panelVars, pageVars, gridVars, serverVars
  <2>2. CallsInv'
    BY <1>1, <1>5, ScreenKeeps DEF panelVars, pageVars, gridVars, serverVars
  <2> QED BY <2>1, <2>2 DEF PanelInv, CallsInv
<1> QED BY <1>2, <1>3, <1>4, <1>5 DEF PanelNext

(* The invariant of a Security page, for any number of calls that overlap, *)
(* are refused or lose their answer.                                       *)
THEOREM PanelInductive == PanelSpec => []PanelInv
  BY PanelInitInductive, PanelStepInductive, PTL DEF PanelSpec

(* Every variable keeps its type, and beginEnroll's disabled button is in  *)
(* step with the setup it awaits.                                          *)
THEOREM PanelTypeCorrect == PanelSpec => []PanelTypeOK
<1>1. PanelInv => PanelTypeOK
  BY DEF PanelInv
<1> QED BY <1>1, PanelInductive, PTL

(* However setups, verifications, cancels and disables overlap, the secret *)
(* on the enrolment card is the one the server waits for.                  *)
THEOREM CardShowsPendingSecret == PanelSpec => []EnrolsPendingSecret
<1>1. PanelInv => EnrolsPendingSecret
  BY DEF PanelInv, EnrolInv, EnrolsPendingSecret
<1> QED BY <1>1, PanelInductive, PTL

(* While no two code-bearing calls overlap and no answer is lost, the      *)
(* recovery codes a page shows for saving are the ones in force.           *)
THEOREM CodesToSaveAreInForce == PanelSpec => []SavedCodesAreInForce
<1>1. PanelInv => SavedCodesAreInForce
  BY DEF PanelInv, RekeyInv, SavedCodesAreInForce
<1> QED BY <1>1, PanelInductive, PTL

(* Each handler leaves the page in a mode whose card is shown.             *)
THEOREM PanelHasControls == PanelSpec => []PanelIsNeverStuck
<1>1. PanelInv => PanelIsNeverStuck
  BY DEF PanelInv, PanelTypeOK, MintInv, Offers, PanelIsNeverStuck
<1> QED BY <1>1, PanelInductive, PTL

(* No call that is served late turns the factor on or off under a page     *)
(* that shows something else.                                              *)
THEOREM FactorChangesInView == PanelSpec => FactorFollowsPage
<1> DEFINE Follows == (~uncertain /\ factor'.enabled # factor.enabled) =>
             IF factor.enabled THEN mode = "on" ELSE mode = "enrolling" /\ factor'.secret = setup
<1>1. PanelInv /\ [PanelNext]_panelVars => [Follows]_panelVars
  <2> SUFFICES ASSUME PanelInv, PanelNext, ~uncertain, factor'.enabled # factor.enabled
               PROVE  IF factor.enabled THEN mode = "on"
                      ELSE mode = "enrolling" /\ factor'.secret = setup
    OBVIOUS
  <2>1. PICK c \in calls : ServeSetup(c) \/ ServeVerify(c) \/ ServeDisable(c) \/ ServeRegenerate(c)
    <3>1. ASSUME NEW kind, NEW code, Send(kind, code) PROVE factor' = factor
      BY <3>1 DEF Send, serverVars
    <3>2. ~User
      BY <3>1 DEF User, ReadMe, BeginEnroll, Cancel, CancelAndForget, ToggleRegenerate, OpenDialog,
             VerifyEnable, Disable, Regenerate, Copy, otherVars, serverVars
    <3>3. ASSUME NEW c, NEW kind, NEW state, Answered(c, kind, state) PROVE factor' = factor
      BY <3>3 DEF Answered, serverVars
    <3>4. ASSUME NEW c, NEW kind, AnsweredThenRefresh(c, kind) PROVE factor' = factor
      BY <3>4 DEF AnsweredThenRefresh, serverVars
    <3>5. ~Page
      BY <3>3, <3>4 DEF Page, DeriveFromSession, DeriveFromMe, SetupAnswered, VerifyAnswered,
             DisableAnswered, RegenerateAnswered, RefreshAnswered, CopyAnswered, ScheduledReset,
             SessionStatus, otherVars, serverVars
    <3>6. ASSUME NEW c, Refused(c) \/ ServeMe(c) PROVE factor' = factor
      BY <3>6, Zenon DEF Refused, ServeMe, Serve
    <3>7. ASSUME NEW c, Lose(c) PROVE factor' = factor
      BY <3>7 DEF Lose, serverVars
    <3> QED BY <3>2, <3>5, <3>6, <3>7 DEF PanelNext, Server
  <2>2. CASE ServeSetup(c) \/ ServeRegenerate(c)
    BY <2>2 DEF ServeSetup, ServeRegenerate, Serve, PanelInv, PanelTypeOK
  <2>3. CASE ServeVerify(c)
    <3>1. c.kind = "verify" /\ Fits(c) /\ ~factor.enabled /\ factor.secret # 0
      BY <2>3 DEF ServeVerify, Fits
    <3>2. mode = "enrolling"
      BY <3>1 DEF PanelInv, PanelTypeOK, ModeInv, EnrolInv, CallFollowsMode
    <3>3. factor'.secret = factor.secret
      BY <2>3 DEF ServeVerify, Serve
    <3> QED BY <3>1, <3>2, <3>3 DEF PanelInv, EnrolInv
  <2>4. CASE ServeDisable(c)
    BY <2>4 DEF ServeDisable, Fits, PanelInv, EnrolInv, CallFollowsMode
  <2> QED BY <2>1, <2>2, <2>3, <2>4
<1> QED BY <1>1, PanelInductive, PTL DEF PanelSpec, FactorFollowsPage

=============================================================================
