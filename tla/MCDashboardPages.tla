-------------------------- MODULE MCDashboardPages --------------------------
(***************************************************************************)
(* DashboardPages with one address and enough calls to sign in again, send *)
(* an invitation and retry.                                                *)
(***************************************************************************)
EXTENDS DashboardPages
=============================================================================
