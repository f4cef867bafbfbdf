--------------------------- MODULE MCAuditExplorer ---------------------------
(***************************************************************************)
(* AuditExplorer over a table of at most four rows, two for the            *)
(* Explorer.  The walker asks for page sizes from 0 to one past the        *)
(* largest page; the Explorer's viewport is one row high, and a page and   *)
(* the tail hold four, so that the window is smaller than the table.       *)
(***************************************************************************)
EXTENDS AuditExplorer, TLC

CallSymmetry == Permutations(Calls)
=============================================================================
