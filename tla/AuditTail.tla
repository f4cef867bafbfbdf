----------------------------- MODULE AuditTail -----------------------------
(***************************************************************************)
(* The live tail of the audit trail: GET /audit/stream, which polls the    *)
(* table and streams the rows past a cursor (apps/api/src/audit/routes.rs),*)
(* and the browser's EventSource behind useAuditTail with its Live toggle, *)
(* its follow mode and its "N new" badge (apps/web/hooks/use-audit-tail.ts)*)
(*                                                                         *)
(* A frame on the wire is the id of the row it carries.  The EventSource   *)
(* itself (reconnection, Last-Event-ID, giving up on a refused request) is *)
(* the browser's and external.  So is React: what a handler sets is queued *)
(* and becomes the state of a later render, but a ref changes at once.     *)
(***************************************************************************)
EXTENDS AuditLog

CONSTANTS
  StreamBatch, \* STREAM_BATCH
  MaxBreaks    \* bounds the toggles and the dropped connections

ASSUME BatchAssumption == StreamBatch \in Nat \ {0}

VARIABLES
  source,      \* the EventSource: closed, connecting, open or dead
  lastEventId, \* the id of the last event it dispatched, 0 before any
  last,        \* the server stream's cursor
  batch,       \* the ids a poll fetched that are still to be yielded
  wire,        \* the events written and not yet dispatched
  rows,        \* the ids of every event handled: the hook's rows, once rendered
  opened,      \* how many rows there were when the EventSource was created
  followingRef,\* follow mode as the handler reads it
  badge,       \* the badge the queued updates lead to
  queued,      \* whether updates wait for a render
  following,   \* follow mode, as rendered
  pending,     \* the badge, as rendered
  shown,       \* how many of the rows are rendered
  seenUpTo,    \* history: how many rows there were when the view last followed
  breaks       \* toggles and drops so far

streamVars  == <<last, batch>>
browserVars == <<source, lastEventId, rows, opened>>
screenVars  == <<following, pending, shown>>
viewVars    == <<followingRef, badge, queued, screenVars, seenUpTo>>
tailVars    == <<streamVars, browserVars, viewVars, wire, breaks>>
vars        == <<logVars, tailVars>>

-----------------------------------------------------------------------------
(* The browser.                                                            *)

(* A variant: the hook's rows are cleared with a new EventSource.          *)
EnableClearingRows ==
  /\ source = "closed"
  /\ source' = "connecting"
  /\ lastEventId' = 0
  /\ opened' = 0
  /\ rows' = <<>>
  /\ UNCHANGED <<logVars, streamVars, viewVars, wire, breaks>>

(* The effect runs with enabled: a new EventSource knows no last event.    *)
Enable ==
  /\ source = "closed"
  /\ source' = "connecting"
  /\ lastEventId' = 0
  /\ opened' = Len(rows)
  /\ UNCHANGED <<logVars, streamVars, rows, viewVars, wire, breaks>>

(* Its cleanup closes the source; what is on the wire is not dispatched.   *)
Disable ==
  /\ source # "closed"
  /\ breaks < MaxBreaks
  /\ source' = "closed"
  /\ batch' = {}
  /\ wire' = <<>>
  /\ breaks' = breaks + 1
  /\ UNCHANGED <<logVars, lastEventId, last, rows, opened, viewVars>>

(* The connection is lost with what it carried, and will be retried.       *)
Drop ==
  /\ source = "open"
  /\ breaks < MaxBreaks
  /\ source' = "connecting"
  /\ batch' = {}
  /\ wire' = <<>>
  /\ breaks' = breaks + 1
  /\ UNCHANGED <<logVars, lastEventId, last, rows, opened, viewVars>>

(* The table was scrolled: to its end, or away from it.  Every scroll event*)
(* calls it; with the mode there is it changes nothing.                    *)
SetFollowing(b) ==
  /\ b # followingRef
  /\ followingRef' = b
  /\ badge' = IF b THEN 0 ELSE badge
  /\ queued' = TRUE
  /\ seenUpTo' = IF b THEN Len(rows) ELSE seenUpTo
  /\ UNCHANGED <<logVars, streamVars, browserVars, screenVars, wire, breaks>>

(* "N new - jump to latest" calls it from a click, whose own updates React *)
(* renders at once, before rows that are queued.                           *)
PinByClick ==
  /\ ~following /\ pending > 0
  /\ followingRef' = TRUE /\ badge' = 0
  /\ following' = TRUE /\ pending' = 0
  /\ seenUpTo' = Len(rows)
  /\ UNCHANGED <<logVars, streamVars, browserVars, queued, shown, wire, breaks>>

Render ==
  /\ queued /\ queued' = FALSE
  /\ following' = followingRef /\ pending' = badge /\ shown' = Len(rows)
  /\ UNCHANGED <<logVars, streamVars, browserVars, followingRef, badge, seenUpTo, wire, breaks>>

(* A variant: the handler reads the state of the last render.              *)
DispatchByState ==
  /\ source = "open"
  /\ wire # <<>>
  /\ wire' = Tail(wire)
  /\ lastEventId' = Head(wire)
  /\ rows' = Append(rows, Head(wire))
  /\ badge' = IF following THEN badge ELSE badge + 1
  /\ queued' = TRUE
  /\ seenUpTo' = IF followingRef THEN Len(rows) + 1 ELSE seenUpTo
  /\ UNCHANGED <<logVars, streamVars, source, opened, followingRef, screenVars, breaks>>

(* The next event is dispatched: its id is kept, and the handler runs.     *)
Dispatch ==
  /\ source = "open"
  /\ wire # <<>>
  /\ wire' = Tail(wire)
  /\ lastEventId' = Head(wire)
  /\ rows' = Append(rows, Head(wire))
  /\ badge' = IF followingRef THEN badge ELSE badge + 1
  /\ queued' = TRUE
  /\ seenUpTo' = IF followingRef THEN Len(rows) + 1 ELSE seenUpTo
  /\ UNCHANGED <<logVars, streamVars, source, opened, followingRef, screenVars, breaks>>

-----------------------------------------------------------------------------
(* The server.                                                             *)

(* A variant: every connection starts at the end of the table.             *)
ConnectAtEnd ==
  /\ source = "connecting"
  /\ source' = "open"
  /\ last' = sequence
  /\ UNCHANGED <<logVars, batch, lastEventId, rows, opened, viewVars, wire, breaks>>

(* stream_logs: the cursor is the Last-Event-ID header, else 0.            *)
Connect ==
  /\ source = "connecting"
  /\ source' = "open"
  /\ last' = lastEventId
  /\ UNCHANGED <<logVars, batch, lastEventId, rows, opened, viewVars, wire, breaks>>

(* The admin guard refuses, and an EventSource gives up on a refusal.      *)
Refuse ==
  /\ source = "connecting"
  /\ source' = "dead"
  /\ UNCHANGED <<logVars, streamVars, lastEventId, rows, opened, viewVars, wire, breaks>>

(* A variant: the query has no ORDER BY.                                   *)
PollUnordered ==
  /\ source = "open"
  /\ batch = {}
  /\ batch' \in {S \in SUBSET {i \in Matching : i > last} : Cardinality(S) <= StreamBatch}
  /\ UNCHANGED <<logVars, last, browserVars, viewVars, wire, breaks>>

(* Once a second: the oldest rows past the cursor, at most a batch.        *)
Poll ==
  /\ source = "open"
  /\ batch = {}
  /\ batch' = Lowest({i \in Matching : i > last}, StreamBatch)
  /\ UNCHANGED <<logVars, last, browserVars, viewVars, wire, breaks>>

(* A failed poll is logged and tried again a second later.                 *)
PollFails ==
  /\ source = "open"
  /\ batch = {}
  /\ UNCHANGED vars

(* The cursor moves to the row before its event is yielded.                *)
Yield ==
  /\ source = "open"
  /\ \E i \in batch :
       /\ \A j \in batch : i <= j
       /\ last' = i
       /\ batch' = batch \ {i}
       /\ wire' = Append(wire, i)
  /\ UNCHANGED <<logVars, browserVars, viewVars, breaks>>

-----------------------------------------------------------------------------
Init ==
  /\ LogInit
  /\ source = "closed"
  /\ lastEventId = 0
  /\ last = 0
  /\ batch = {}
  /\ wire = <<>>
  /\ rows = <<>>
  /\ opened = 0
  /\ followingRef = TRUE /\ badge = 0 /\ queued = FALSE
  /\ following = TRUE /\ pending = 0 /\ shown = 0
  /\ seenUpTo = 0
  /\ breaks = 0

Browser ==
  \/ Enable \/ Disable \/ Drop \/ Dispatch
  \/ \E b \in BOOLEAN : SetFollowing(b)
  \/ PinByClick \/ Render

Server == Connect \/ Refuse \/ Poll \/ PollFails \/ Yield

Next == (LogNext /\ UNCHANGED tailVars) \/ Browser \/ Server

Spec == Init /\ [][Next]_vars

(* An insert that runs ends, the browser retries a lost connection, the    *)
(* stream task is polled and the table is not out for ever, so that a poll *)
(* succeeds in the end, and queued updates are rendered.  Nothing makes an *)
(* admin toggle or the network drop.                                       *)
Fairness ==
  /\ WF_vars(Connect \/ Refuse)
  /\ WF_vars(Poll)
  /\ WF_vars(Yield)
  /\ WF_vars(Dispatch)
  /\ WF_vars(Render)

FairSpec == Spec /\ Fairness

-----------------------------------------------------------------------------
(* Every variable keeps its type.                                          *)
TypeOK ==
  /\ LogTypeOK
  /\ source \in {"closed", "connecting", "open", "dead"}
  /\ lastEventId \in Nat
  /\ last \in Nat
  /\ batch \in SUBSET Nat
  /\ wire \in Seq(Nat)
  /\ rows \in Seq(Nat)
  /\ opened \in 0 .. Len(rows)
  /\ followingRef \in BOOLEAN /\ following \in BOOLEAN /\ queued \in BOOLEAN
  /\ shown \in 0 .. Len(rows)
  /\ badge \in 0 .. Len(rows) /\ pending \in 0 .. shown
  /\ seenUpTo \in 0 .. Len(rows)
  /\ breaks \in Nat

(* The ids the EventSource at hand was sent.                               *)
Received == {rows[i] : i \in opened + 1 .. Len(rows)}

(* Those of them that are on screen.                                       *)
OnScreen == {rows[i] : i \in opened + 1 .. shown}

OnWire == {wire[i] : i \in 1 .. Len(wire)}

(* However often the connection drops, one EventSource is handed each row  *)
(* at most once and in id order (routes.rs: a reconnect continues after    *)
(* the last row).                                                          *)
TailAscends ==
  \A i, j \in opened + 1 .. Len(rows) : i < j => rows[i] < rows[j]

(* A row the filter lets through that is behind the resume point was       *)
(* delivered, unless it became visible only after a row with a higher id.  *)
TailMissesOnlyLateRows ==
  \A id \in Matching : id <= lastEventId => id \in Received \/ Late(id)

(* Once everything is rendered the badge counts the rows that arrived      *)
(* since the view last followed, whichever of the ref and the state had    *)
(* changed when they came; and a view that follows never shows one.        *)
BadgeIsExact ==
  /\ ~queued => pending = Len(rows) - seenUpTo
  /\ following => pending = 0

(* A visible row reaches the screen of a tail that stays up, through any   *)
(* number of drops, unless it became visible too late (DASHBOARD.md, 8).   *)
VisibleRowIsDelivered ==
  \A id \in 1 .. Cardinality(Calls) :
    (source \in {"connecting", "open"} /\ id \in Matching /\ ~Late(id))
      ~> (id \in OnScreen \/ source \in {"closed", "dead"})

(* What the documentation says: the browser sends Last-Event-ID so that no *)
(* event is missed across a drop (docs/DASHBOARD.md, section 8).           *)
NoEventMissedAcrossDrop ==
  (source = "connecting" /\ lastEventId > 0) =>
    \A id \in Matching : id \in Received \/ id > lastEventId

-----------------------------------------------------------------------------
(* The inductive invariant behind the safety properties.                   *)

(* A resume point is a row, and what was received is not past it.          *)
ResumeInv ==
  /\ lastEventId \in {0} \cup Matching
  /\ \A i \in opened + 1 .. Len(rows) : rows[i] <= lastEventId

(* A stream's ids ascend from the resume point over the wire to the cursor *)
(* and on to the batch; without a stream there are none.                   *)
StreamInv ==
  /\ source # "open" => wire = <<>> /\ batch = {}
  /\ batch \subseteq Matching
  /\ source = "open" =>
       /\ last \in {0} \cup Matching
       /\ lastEventId <= last
       /\ \A i \in 1 .. Len(wire) : lastEventId < wire[i] /\ wire[i] <= last /\ wire[i] \in Matching
       /\ \A i, j \in 1 .. Len(wire) : i < j => wire[i] < wire[j]
       /\ \A b \in batch : last < b

(* The rows behind the cursor, or behind a row of the batch, are on their  *)
(* way, were received, or became visible late.                             *)
Passed(id) == id <= last \/ \E b \in batch : id <= b

StreamMissesOnlyLateRows ==
  source = "open" =>
    \A id \in Matching : Passed(id) => id \in Received \cup OnWire \cup batch \/ Late(id)

(* The queue leads to the ref's mode and to the rows since it last         *)
(* followed; the screen is there already when nothing is queued.           *)
QueueInv ==
  /\ badge = Len(rows) - seenUpTo
  /\ followingRef => badge = 0
  /\ following => pending = 0
  /\ ~queued => following = followingRef /\ pending = badge /\ shown = Len(rows)

IndInv ==
  /\ TypeOK
  /\ LogInv
  /\ ResumeInv
  /\ StreamInv
  /\ StreamMissesOnlyLateRows
  /\ TailAscends
  /\ TailMissesOnlyLateRows
  /\ QueueInv
=============================================================================
