----------------------------- MODULE MCAuthPages -----------------------------
(***************************************************************************)
(* AuthPages with one account, three requests and four pages, so that an   *)
(* answer can arrive on the page after the next one.                       *)
(***************************************************************************)
EXTENDS AuthPages
=============================================================================
