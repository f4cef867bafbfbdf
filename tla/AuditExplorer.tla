---------------------------- MODULE AuditExplorer ----------------------------
(***************************************************************************)
(* The readers of the audit listing: a caller that walks its pages         *)
(* (AuditPaging), and the Audit Explorer                                   *)
(* (apps/web/app/(dashboard)/dashboard/audit/page.tsx), which fetches the  *)
(* newest rows once, appends what the live tail brings and shows both in a *)
(* table of which only a window is rendered                                *)
(* (apps/web/components/audit/AuditTable.tsx).                             *)
(*                                                                         *)
(* The tail is AuditTail's: here, committed rows arrive in the order of    *)
(* their ids, from the first one again when Live is switched off and on.   *)
(* Lengths are pixels.  The scrolling container is external: it clamps     *)
(* its offset to the content, starts at 0 when it is mounted, and tells of *)
(* a changed offset by an event that is dispatched later.                  *)
(***************************************************************************)
EXTENDS AuditPaging

CONSTANTS
  Readers,     \* which reader is at hand: "walker", "explorer"
  PageLimit,   \* the limit the Explorer asks for
  RowH,        \* ROW_H
  Viewport,    \* VIEWPORT
  Overscan,    \* OVERSCAN
  DevTooling,  \* not a production build
  MaxTable,    \* bounds the rows of the Explorer's table
  MaxLoads,    \* bounds the loads
  MaxArrivals  \* bounds the rows the tail brings

ASSUME GeometryAssumption ==
  RowH \in Nat \ {0} /\ Viewport \in Nat \ {0} /\ Overscan \in Nat \ {0}

ASSUME BoundsAssumption == PageLimit \in Nat /\ MaxArrivals \in Nat

VARIABLES
  reader,      \* the reader at hand
  live,        \* the page's own Live toggle
  loads,       \* the answers of the loads under way
  loaded,      \* loads so far
  loadError,   \* whether the error card is shown
  pageRows,    \* the rows of the page, shown newest first
  sent,        \* the id the EventSource received last, 0 for a new one
  tailRows,    \* the rows of the tail, in arrival order
  follows,     \* follow mode
  facet,       \* the event the table is filtered by, "all" without one
  scrollTop,   \* the table's state
  offset,      \* the container's own scrollTop
  scrolled,    \* a scroll event is to be dispatched
  owed,        \* the follow effect of the last commit is to run
  adrift       \* history: the container was mounted again since the last one

loadVars  == <<loads, loaded, loadError, pageRows>>
tableVars == <<tailRows, follows, facet, scrollTop, offset, scrolled, owed, adrift>>
feedVars  == <<live, sent>>
explorerVars == <<logVars, walkVars, reader, feedVars, loadVars, tableVars>>

-----------------------------------------------------------------------------
(* How many rows the table is handed that its filter lets through; a row   *)
(* of the page that the tail brings too counts twice.                      *)
Filtered(f) == {r.id : r \in {s \in Table : f = "all" \/ s.event = f}}

CountOf(page, tail, f) ==
  Cardinality(page \cap Filtered(f)) + Cardinality({n \in 1 .. Len(tail) : tail[n] \in Filtered(f)})

Count == CountOf(pageRows, tailRows, facet)

MaxTop(count) == IF count * RowH > Viewport THEN count * RowH - Viewport ELSE 0

Ceiling(a, b) == (a + b - 1) \div b

(* VARIANT: no overscan below the viewport.                                *)
WindowOnlyAbove(top, count) ==
  LET start == IF top \div RowH > Overscan THEN (top \div RowH) - Overscan ELSE 0
      end   == start + Ceiling(Viewport, RowH) + Overscan
  IN  start .. (IF end < count THEN end ELSE count) - 1

(* The rows that are rendered, from 0: the viewport's and the overscan's.  *)
Window(top, count) ==
  LET start == IF top \div RowH > Overscan THEN (top \div RowH) - Overscan ELSE 0
      end   == start + Ceiling(Viewport, RowH) + 2 * Overscan
  IN  start .. (IF end < count THEN end ELSE count) - 1

EffectiveTop == IF follows THEN MaxTop(Count) ELSE scrollTop

(* The rows a part of which lies in the container's viewport.              *)
InView == {n \in 0 .. Count - 1 : n * RowH < offset + Viewport /\ (n + 1) * RowH > offset}

-----------------------------------------------------------------------------
(* The follow effect runs after a commit that changed follow mode or       *)
(* maxTop, when follow mode is on.                                         *)
PinsOnce(count, follow) == follow /\ ~follows  \* VARIANT: it depends on follow mode only
Pins(count, follow) == follow /\ (~follows \/ MaxTop(count) # MaxTop(Count))

(* The commit of a render with other rows or another follow mode, before   *)
(* which React runs an effect still owed: without rows there is no         *)
(* container; a new one is at 0; the content clamps an old one.            *)
Renders(count, follow) ==
  LET natural == IF Count = 0 \/ count = 0 THEN 0
                 ELSE IF offset > MaxTop(count) THEN MaxTop(count) ELSE offset
  IN  /\ ~owed
      /\ follows' = follow
      /\ offset' = natural
      /\ scrolled' = (count > 0 /\ (scrolled \/ (Count > 0 /\ natural # offset)))
      /\ owed' = (count > 0 /\ Pins(count, follow))
      /\ adrift' = (adrift \/ (Count > 0 /\ count = 0))
      /\ scrollTop' = scrollTop

Exploring == reader = "explorer" /\ DevTooling

(* load: the error card goes, and the newest rows are asked for.           *)
Load ==
  /\ Exploring /\ loaded < MaxLoads
  /\ loaded = 0 \/ loadError
  /\ loadError' = FALSE
  /\ loaded' = loaded + 1
  /\ loads' = loads \cup {[id |-> loaded + 1, rows |-> Highest(Filtered("all"), PageLimit)]}
  /\ UNCHANGED <<logVars, walkVars, reader, feedVars, pageRows, tableVars>>

Loaded(l) ==
  /\ loads' = loads \ {l}
  /\ pageRows' = l.rows
  /\ Renders(CountOf(l.rows, tailRows, facet), follows)
  /\ UNCHANGED <<logVars, walkVars, reader, feedVars, loaded, loadError, tailRows, facet>>

LoadFails(l) ==
  /\ loads' = loads \ {l}
  /\ loadError' = TRUE
  /\ UNCHANGED <<logVars, walkVars, reader, feedVars, loaded, pageRows, tableVars>>

ToggleLive ==
  /\ Exploring
  /\ live' = ~live /\ sent' = 0
  /\ UNCHANGED <<logVars, walkVars, reader, loadVars, tableVars>>

(* The tail hands on a row (AuditTail, Dispatch).                          *)
Arrives(id) ==
  /\ Exploring /\ live /\ id > sent /\ Len(tailRows) < MaxArrivals
  /\ sent' = id
  /\ tailRows' = Append(tailRows, id)
  /\ Renders(CountOf(pageRows, Append(tailRows, id), facet), follows)
  /\ UNCHANGED <<logVars, walkVars, reader, live, loadVars, facet>>

(* A card of the Trigger Center, or "Clear filters", sets the facet.       *)
SetFacet(f) ==
  /\ Exploring /\ f # facet
  /\ facet' = f
  /\ Renders(CountOf(pageRows, tailRows, f), follows)
  /\ UNCHANGED <<logVars, walkVars, reader, feedVars, loadVars, tailRows>>

(* The user scrolls; the event comes later and is handled with the offset  *)
(* there is then.                                                          *)
Scroll(top) ==
  /\ Exploring /\ Count > 0 /\ top # offset /\ top <= MaxTop(Count)
  /\ offset' = top
  /\ scrolled' = TRUE
  /\ UNCHANGED <<logVars, walkVars, reader, feedVars, loadVars, tailRows, follows, facet, scrollTop, owed, adrift>>

(* The effect moves the container, which fires a scroll event, and sets    *)
(* the state.                                                              *)
Pin ==
  /\ owed /\ owed' = FALSE
  /\ offset' = MaxTop(Count) /\ scrollTop' = MaxTop(Count)
  /\ scrolled' = (scrolled \/ offset # MaxTop(Count))
  /\ UNCHANGED <<logVars, walkVars, reader, feedVars, loadVars, tailRows, follows, facet, adrift>>

(* The offset it reads is the one from before an effect still owed, which  *)
(* runs between the handler and its render.                                *)
HandleScroll ==
  LET follow == offset + RowH >= MaxTop(Count)
      pinned == IF owed THEN MaxTop(Count) ELSE offset
  IN  /\ scrolled
      /\ follows' = follow
      /\ offset' = pinned /\ scrollTop' = pinned
      /\ scrolled' = (pinned # offset)
      /\ owed' = (follow /\ ~follows)
      /\ adrift' = FALSE
      /\ UNCHANGED <<logVars, walkVars, reader, feedVars, loadVars, tailRows, facet>>

(* "N new - jump to latest".                                               *)
JumpToLatest ==
  /\ Exploring /\ Count > 0 /\ ~follows
  /\ Renders(Count, TRUE)
  /\ UNCHANGED <<logVars, walkVars, reader, feedVars, loadVars, tailRows, facet>>

-----------------------------------------------------------------------------
ExplorerInit ==
  /\ LogInit /\ WalkInit
  /\ reader \in Readers
  /\ live = TRUE /\ sent = 0
  /\ loads = {} /\ loaded = 0 /\ loadError = FALSE /\ pageRows = {}
  /\ tailRows = <<>> /\ follows = TRUE /\ facet = "all"
  /\ scrollTop = 0 /\ offset = 0 /\ scrolled = FALSE /\ owed = FALSE /\ adrift = FALSE

Explorer ==
  \/ Load \/ ToggleLive \/ Pin \/ HandleScroll \/ JumpToLatest
  \/ \E l \in loads : Loaded(l) \/ LoadFails(l)
  \/ \E r \in Table : Arrives(r.id)
  \/ \E f \in Events \cup {"all"} : SetFacet(f)
  \/ \E top \in 0 .. MaxTop(Count) : Scroll(top)

(* An insert that fails is nothing the Explorer could see.                 *)
ExplorersLog ==
  \/ sequence < MaxTable /\ \E c \in Calls : Insert(c)
  \/ \E c \in Calls, e \in Events : Commit(c, e)

ExplorerNext ==
  \/ /\ (reader = "walker" /\ LogNext) \/ (reader = "explorer" /\ ExplorersLog)
     /\ UNCHANGED <<walkVars, reader, feedVars, loadVars, tableVars>>
  \/ reader = "walker" /\ WalkNext /\ UNCHANGED <<reader, feedVars, loadVars, tableVars>>
  \/ Explorer

ExplorerSpec == ExplorerInit /\ [][ExplorerNext]_explorerVars

-----------------------------------------------------------------------------
(* Properties                                                              *)

(* Type invariant of the walk and of the page.                             *)
ExplorerTypeOK ==
  /\ LogTypeOK /\ WalkTypeOK
  /\ reader \in Readers /\ {live, loadError, follows, scrolled, owed, adrift} \subseteq BOOLEAN
  /\ loaded \in Nat /\ pageRows \subseteq Nat /\ Cardinality(pageRows) <= PageLimit
  /\ sent \in Nat /\ tailRows \in Seq(Nat) /\ Len(tailRows) <= MaxArrivals
  /\ facet \in Events \cup {"all"}
  /\ offset \in 0 .. MaxTop(Count)
  /\ scrolled => Count > 0

(* Whatever is scrolled, filtered or appended, the rows in the viewport    *)
(* are rendered once effect and scroll event were handled, as long as the  *)
(* table did not lose its container to an empty filter since               *)
(* (AuditTable.tsx, the windowing).                                        *)
ViewportIsRendered == ~scrolled /\ ~owed /\ ~adrift => InView \subseteq Window(EffectiveTop, Count)

(* In follow mode the container is within a row of its end, through every  *)
(* arrival, load and change of filter, once effect and event were handled  *)
(* (AuditTable.tsx, the follow effect).                                    *)
FollowPinsToLatest == follows /\ Count > 0 /\ ~scrolled /\ ~owed => offset + RowH >= MaxTop(Count)

-----------------------------------------------------------------------------
(* The inductive invariant behind the safety properties.                   *)

(* What the page holds, or is about to, are rows of the trail.             *)
RowsInv ==
  /\ pageRows \subseteq Filtered("all") /\ Cardinality(pageRows) <= PageLimit
  /\ loads \subseteq [id : Nat, rows : SUBSET Filtered("all")]
  /\ \A l \in loads : Cardinality(l.rows) <= PageLimit
  /\ \A n \in 1 .. Len(tailRows) : tailRows[n] \in Filtered("all")

(* Out of follow mode the state is the container's own offset, unless an   *)
(* event is to come or the container was mounted again.                    *)
OffsetInv ==
  /\ scrollTop \in Nat
  /\ ~follows /\ ~scrolled /\ ~adrift => offset = scrollTop
  /\ owed => follows /\ Count > 0

ExplorerInv ==
  /\ ExplorerTypeOK /\ LogInv /\ WalkInv /\ RowsInv /\ OffsetInv
  /\ FollowPinsToLatest
=============================================================================
