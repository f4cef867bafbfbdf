--------------------------- MODULE MCTriggerCenter ---------------------------
(***************************************************************************)
(* TriggerCenter with the cards that meet the limiter, the lockout routes  *)
(* and an audited event, a window of two seconds, and two lockout requests *)
(* at a time.                                                              *)
(***************************************************************************)
EXTENDS TriggerCenter
=============================================================================
