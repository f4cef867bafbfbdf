-------------------------- MODULE AccountDirectory ---------------------------
(***************************************************************************)
(* What provider sign-in promises: in each tenant an identity has at most  *)
(* one account and an account one identity; every callback that is         *)
(* answered is answered with the account of its own identity; and an       *)
(* identity loses its account only to a callback of another identity of    *)
(* the tenant, which is answered with that account.                        *)
(***************************************************************************)
CONSTANTS
  Tenants,
  Identities,   \* what a provider says of who signed in
  Accounts,
  Calls,        \* the callbacks
  None

VARIABLES
  account,      \* the account of an identity in a tenant, or None
  answer        \* what a callback was answered with, or None

avars == <<account, answer>>

Init ==
  /\ account = [k \in Tenants \X Identities |-> None]
  /\ answer = [c \in Calls |-> None]

(* The identity has no account: it is given one, which may be new, a local *)
(* one, or that of another identity of the tenant.                         *)
Bind(c, k, a) ==
  /\ account[k] = None
  /\ \A j \in Tenants \X Identities : account[j] = a => j[1] = k[1]
  /\ account' = [j \in Tenants \X Identities |->
                   IF j = k THEN a ELSE IF account[j] = a THEN None ELSE account[j]]
  /\ answer' = [answer EXCEPT ![c] = a]

(* It has one.                                                             *)
Find(c, k) ==
  /\ account[k] # None
  /\ answer' = [answer EXCEPT ![c] = account[k]]
  /\ UNCHANGED account

Next ==
  \E c \in Calls, k \in Tenants \X Identities :
    /\ answer[c] = None
    /\ Find(c, k) \/ \E a \in Accounts : Bind(c, k, a)

Spec == Init /\ [][Next]_avars
=============================================================================
