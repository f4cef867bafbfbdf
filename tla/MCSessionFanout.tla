-------------------------- MODULE MCSessionFanout --------------------------
(***************************************************************************)
(* SessionFanout on a small instance: two users of one tenant, so that     *)
(* only the subject tells their events apart.  User ids are primary keys,  *)
(* so no user id appears under two tenants.                                *)
(***************************************************************************)
EXTENDS SessionFanout

MCAccounts == {[sub |-> s, tenant |-> "acme"] : s \in {"u1", "u2"}}

(* Two of three sessions are the same user's: one of its frames can be     *)
(* overwritten, skipped or missed in a ring of two while the other is sent.*)
MCSubject == [l \in Logins |-> [sub |-> IF l = "l3" THEN "u2" ELSE "u1", tenant |-> "acme"]]
=============================================================================
