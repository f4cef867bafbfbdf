----------------------------- MODULE MCMfaPanel -----------------------------
(***************************************************************************)
(* MfaPanel on both pages, with enough calls to read the account, enrol,   *)
(* and overlap two calls that carry a code.                                *)
(***************************************************************************)
EXTENDS MfaPanel
=============================================================================
