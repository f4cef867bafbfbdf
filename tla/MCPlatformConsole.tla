------------------------- MODULE MCPlatformConsole -------------------------
(***************************************************************************)
(* PlatformConsole with two digits in two cells, so that codes differ, and *)
(* enough calls to sign in, answer the challenge, land on a page and       *)
(* revoke or sign out, or to go back and sign in again.                    *)
(***************************************************************************)
EXTENDS PlatformConsole
=============================================================================
