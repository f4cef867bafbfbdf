------------------------------ MODULE AuditLog ------------------------------
(***************************************************************************)
(* The audit_log table and the lifecycle hooks that append to it           *)
(* (apps/api/src/hooks/audit.rs, apps/api/migrations/0001_init.sql).       *)
(*                                                                         *)
(* Every hook ends in record(), one autocommitted INSERT over a pool of    *)
(* connections.  The BIGSERIAL id is drawn when the statement runs and the *)
(* row becomes visible when its transaction commits: two hooks that run at *)
(* once may commit in the order opposite to their ids, and the id of an    *)
(* insert that fails is lost.                                              *)
(*                                                                         *)
(* The readers of the table are AuditTail and AuditPaging, which extend    *)
(* this module.                                                            *)
(***************************************************************************)
EXTENDS Naturals, Sequences, FiniteSets

CONSTANTS
  Calls,       \* hook calls, each writing at most one row (bounds the table)
  Events,      \* the event names they write
  Wanted       \* the events a reader's filter lets through

(* What the hooks record, by name.                                         *)
HookEvents == {
  "oauth_login_create", "oauth_login_link", "oauth_login_reject", "after_register", "after_login",
  "after_logout", "after_email_verified", "after_password_reset", "after_mfa_enabled",
  "after_mfa_disabled", "after_mfa_recovery_codes_regenerated",
  "after_invitation_accepted", "on_new_session", "on_session_evicted"}

ASSUME EventsAssumption == Events \subseteq HookEvents /\ Wanted \subseteq Events

VARIABLES
  call,        \* a hook call: idle, inserting, committed or failed
  rowId,       \* the id its insert drew, 0 before
  sequence,    \* the last id the sequence handed out
  committed    \* the visible rows, in the order they became visible

logVars == <<call, rowId, sequence, committed>>

LogInit ==
  /\ call = [c \in Calls |-> "idle"]
  /\ rowId = [c \in Calls |-> 0]
  /\ sequence = 0
  /\ committed = <<>>

(* The statement runs: nextval.                                            *)
Insert(c) ==
  /\ call[c] = "idle"
  /\ call' = [call EXCEPT ![c] = "inserting"]
  /\ sequence' = sequence + 1
  /\ rowId' = [rowId EXCEPT ![c] = sequence + 1]
  /\ UNCHANGED committed

(* Its implicit transaction commits and record returns Ok.                 *)
Commit(c, e) ==
  /\ call[c] = "inserting"
  /\ call' = [call EXCEPT ![c] = "committed"]
  /\ committed' = Append(committed, [id |-> rowId[c], event |-> e])
  /\ UNCHANGED <<rowId, sequence>>

(* No connection, or the statement failed: HookError::Internal.            *)
RecordFails(c) ==
  /\ call[c] \in {"idle", "inserting"}
  /\ call' = [call EXCEPT ![c] = "failed"]
  /\ UNCHANGED <<rowId, sequence, committed>>

Record(c) == Insert(c) \/ (\E e \in Events : Commit(c, e)) \/ RecordFails(c)

LogNext == \E c \in Calls : Record(c)

-----------------------------------------------------------------------------
Table == {committed[i] : i \in 1 .. Len(committed)}

(* The ids of the rows a filter lets through.                              *)
Matching == {r.id : r \in {s \in Table : s.event \in Wanted}}

(* ORDER BY id ASC LIMIT n, and its mirror image.                          *)
Lowest(S, n) == {i \in S : Cardinality({j \in S : j < i}) < n}

Highest(S, n) == {i \in S : Cardinality({j \in S : j > i}) < n}

(* A row that became visible after a row with a higher id.                 *)
Late(id) ==
  \E m, n \in 1 .. Len(committed) :
    m < n /\ committed[n].id = id /\ committed[m].id > id

RowType == [id : Nat \ {0}, event : Events]

(* Ids are drawn once each and in order, and a row has the id it drew.     *)
LogInv ==
  /\ \A c \in Calls : call[c] = "inserting" =>
       rowId[c] \in 1 .. sequence /\ \A n \in 1 .. Len(committed) : committed[n].id # rowId[c]
  /\ \A c, d \in Calls : (c # d /\ call[c] = "inserting" /\ call[d] = "inserting") => rowId[c] # rowId[d]
  /\ \A n \in 1 .. Len(committed) : committed[n].id <= sequence

LogTypeOK ==
  /\ call \in [Calls -> {"idle", "inserting", "committed", "failed"}]
  /\ rowId \in [Calls -> Nat]
  /\ sequence \in Nat
  /\ committed \in Seq(RowType)
=============================================================================
