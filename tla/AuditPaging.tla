---------------------------- MODULE AuditPaging ----------------------------
(***************************************************************************)
(* The keyset listing of the audit trail: GET /audit/logs answers the      *)
(* newest rows below a cursor (apps/api/src/audit/routes.rs, list_logs),   *)
(* and a caller walks the pages by handing back nextCursor, choosing a     *)
(* page size for each (apps/web/lib/audit-api.ts, fetchAuditPage) while    *)
(* hooks go on appending.  AuditExplorer runs the walk.                    *)
(***************************************************************************)
EXTENDS AuditLog

CONSTANTS
  Limits,      \* the page sizes a caller asks for, sensible or not
  MaxLimit     \* MAX_LIMIT

ASSUME LimitAssumption == Limits \subseteq Nat /\ MaxLimit \in Nat \ {0}

VARIABLES
  walk,        \* idle, paging or done
  cursor,      \* the ids handed back as nextCursor, {} for no cursor
  pages,       \* the pages answered, as sets of ids, oldest answer first
  baseline     \* the rows there were when the first page was answered

walkVars == <<walk, cursor, pages, baseline>>

-----------------------------------------------------------------------------
(* limit.clamp(1, MAX_LIMIT).                                              *)
Clamp(limit) == IF limit < 1 THEN 1 ELSE IF limit > MaxLimit THEN MaxLimit ELSE limit

(* id < cursor, when there is one.                                         *)
Below(c) == {i \in Matching : \A k \in c : i < k}

(* page_has_more: the query asked for one row more than the page holds.    *)
HasMore(fetched, limit) == Cardinality(fetched) > limit

(* A variant: the surplus row stays on the page.                           *)
TakeAll(fetched, limit) == fetched

Take(fetched, limit) == Highest(fetched, limit)

(* data.last(), the oldest row of the page, when there is more.            *)
NextCursor(data, more) == IF more THEN {i \in data : \A j \in data : i <= j} ELSE {}

(* A variant: the cursor is one below the last row of the page.            *)
ListLogsFrom(first, limit) ==
  LET fetched == Highest(Below({k - 1 : k \in first}), Clamp(limit) + 1)
      data    == Take(fetched, Clamp(limit))
      more    == HasMore(fetched, Clamp(limit))
  IN  [data |-> data, nextCursor |-> NextCursor(data, more)]

ListLogs(first, limit) ==
  LET fetched == Highest(Below(first), Clamp(limit) + 1)
      data    == Take(fetched, Clamp(limit))
      more    == HasMore(fetched, Clamp(limit))
  IN  [data |-> data, nextCursor |-> NextCursor(data, more)]

Answer(limit) ==
  LET page == ListLogs(cursor, limit)
  IN  /\ pages' = Append(pages, page.data)
      /\ cursor' = page.nextCursor
      /\ walk' = IF page.nextCursor = {} THEN "done" ELSE "paging"
      /\ UNCHANGED logVars

FirstPage(limit) ==
  /\ walk = "idle"
  /\ baseline' = Matching
  /\ Answer(limit)

NextPage(limit) ==
  /\ walk = "paging"
  /\ UNCHANGED baseline
  /\ Answer(limit)

WalkInit ==
  /\ walk = "idle"
  /\ cursor = {}
  /\ pages = <<>>
  /\ baseline = {}

WalkNext == \E limit \in Limits : FirstPage(limit) \/ NextPage(limit)

-----------------------------------------------------------------------------
(* Every variable keeps its type, and no page is larger than MAX_LIMIT.    *)
WalkTypeOK ==
  /\ walk \in {"idle", "paging", "done"}
  /\ cursor \subseteq Nat /\ Cardinality(cursor) <= 1
  /\ baseline \subseteq Nat
  /\ pages \in Seq(SUBSET Nat)
  /\ \A n \in 1 .. Len(pages) : Cardinality(pages[n]) <= MaxLimit

Listed == UNION {pages[n] : n \in 1 .. Len(pages)}

(* A walk that came to the end listed every row there was when it began,   *)
(* and no walk lists a row twice or out of order.                          *)
PagingMissesNothing == walk = "done" => baseline \subseteq Listed

PagesDescend ==
  \A m, n \in 1 .. Len(pages) : m < n => \A i \in pages[m], j \in pages[n] : j < i

PagingIsExact == PagingMissesNothing /\ PagesDescend

(* The inductive strengthening: a row of the start was listed, or is below *)
(* the cursor that the next page starts from, and what was listed is not.  *)
WalkInv ==
  /\ walk = "idle" => cursor = {} /\ pages = <<>> /\ baseline = {}
  /\ walk = "paging" => cursor # {}
  /\ baseline \subseteq Matching
  /\ \A i \in baseline : i \in Listed \/ (walk = "paging" /\ \A k \in cursor : i < k)
  /\ \A i \in Listed, k \in cursor : k <= i
  /\ PagesDescend
=============================================================================
