--------------------------- MODULE MCSessionsPage ---------------------------
(***************************************************************************)
(* SessionsPage with two other devices and at most four requests: a list,  *)
(* two that disturb each other, and one after them.                        *)
(***************************************************************************)
EXTENDS SessionsPage
=============================================================================
