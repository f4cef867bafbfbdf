---------------------------- MODULE MCAuditTail ----------------------------
(***************************************************************************)
(* AuditTail over a table of at most three rows, of an event the filter    *)
(* lets through and one it does not.                                       *)
(***************************************************************************)
EXTENDS AuditTail
=============================================================================
