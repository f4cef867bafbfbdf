---------------------------- MODULE Audit_proofs ----------------------------
(***************************************************************************)
(* Theorems of the readers of the audit trail.  AuditTail: for any number  *)
(* of concurrent audit writes, any filter, batch size and number of drops  *)
(* and toggles.  AuditExplorer: for any page size, any geometry of its     *)
(* table and any order of loads, arrivals, filters and scrolls.            *)
(*                                                                         *)
(* First the table: ids are drawn in order, so a row that becomes visible  *)
(* behind a visible one is late.  Then the stream: between the resume      *)
(* point, the cursor and the batch every row is on its way, or late.       *)
(* Then the walk over the pages, for which a page is a block of rows with  *)
(* nothing left out above its last one; and the Explorer's table, whose    *)
(* container moves by itself, by the effect and by the user.               *)
(***************************************************************************)
EXTENDS AuditTail, AuditExplorer, FiniteSetTheorems, SequenceTheorems, WellFoundedInduction, TLAPS

-----------------------------------------------------------------------------
(* The table.                                                              *)

(* The ids a filter lets through are positive.                             *)
LEMMA MatchingInNat == LogTypeOK => Matching \subseteq Nat \ {0}
<1> SUFFICES ASSUME LogTypeOK, NEW id \in Matching PROVE id \in Nat \ {0}
  OBVIOUS
<1>1. PICK n \in 1 .. Len(committed) : committed[n].id = id
  BY DEF Matching, Table
<1>2. committed[n] \in RowType
  BY <1>1 DEF LogTypeOK
<1> QED
  BY <1>1, <1>2 DEF RowType

(* The rows a poll may fetch are finitely many.                            *)
LEMMA MatchingFinite ==
  ASSUME LogTypeOK, LogInv, NEW S \in SUBSET Matching
  PROVE  IsFiniteSet(S)
<1>1. \A id \in Matching : id \in 1 .. sequence
  <2> SUFFICES ASSUME NEW id \in Matching PROVE id \in 1 .. sequence
    OBVIOUS
  <2>1. PICK n \in 1 .. Len(committed) : committed[n].id = id
    BY DEF Matching, Table
  <2>2. committed[n].id <= sequence /\ sequence \in Nat
    BY <2>1 DEF LogInv, LogTypeOK
  <2> QED
    BY <2>1, <2>2, MatchingInNat
<1>2. IsFiniteSet(1 .. sequence)
  BY FS_Interval DEF LogTypeOK
<1> QED
  BY <1>1, <1>2, FS_Subset

(* ORDER BY id ASC LIMIT n: no row below a fetched one is left out.        *)
LEMMA LowestIsClosed ==
  ASSUME NEW S \in SUBSET Nat, IsFiniteSet(S), NEW n \in Nat,
         NEW i \in S, NEW k \in Lowest(S, n), i <= k
  PROVE  i \in Lowest(S, n)
<1> DEFINE below(x) == {j \in S : j < x}
<1>1. k \in S /\ Cardinality(below(k)) < n
  BY DEF Lowest
<1>2. below(i) \subseteq below(k)
  <2>1. i \in Nat /\ k \in Nat /\ S \subseteq Nat
    BY <1>1
  <2>2. \A j \in S : j < i => j < k
    BY <2>1
  <2> QED
    BY <2>2
<1>3. IsFiniteSet(below(k))
  BY FS_Subset
<1>4. /\ IsFiniteSet(below(i))
      /\ Cardinality(below(i)) <= Cardinality(below(k))
  BY <1>2, <1>3, FS_Subset
<1>5. Cardinality(below(i)) \in Nat /\ Cardinality(below(k)) \in Nat
  BY <1>3, <1>4, FS_CardinalityType
<1>6. Cardinality(below(i)) < n
  <2> HIDE DEF below
  <2> QED
    BY <1>1, <1>4, <1>5
<1> QED
  BY <1>6 DEF Lowest

(* The empty table has its type and its ids in order.                      *)
LEMMA LogInitial == LogInit => LogTypeOK /\ LogInv
<1> SUFFICES ASSUME LogInit PROVE LogTypeOK /\ LogInv
  OBVIOUS
<1>1. committed \in Seq(RowType) /\ Len(committed) = 0
  BY DEF LogInit
<1> QED
  BY <1>1 DEF LogInit, LogTypeOK, LogInv

(* What a commit does to the visible rows.                                 *)
LEMMA CommitAppends ==
  ASSUME LogTypeOK, LogInv, NEW c \in Calls, NEW e \in Events, Commit(c, e)
  PROVE  /\ committed' \in Seq(RowType)
         /\ Len(committed') = Len(committed) + 1
         /\ \A n \in 1 .. Len(committed) : committed'[n] = committed[n]
         /\ committed'[Len(committed) + 1].id = rowId[c]
<1>1. rowId[c] \in 1 .. sequence /\ sequence \in Nat
  BY DEF LogTypeOK, LogInv, Commit
<1>2. [id |-> rowId[c], event |-> e] \in RowType
  BY <1>1 DEF RowType
<1>3. committed \in Seq(RowType) /\ committed' = Append(committed, [id |-> rowId[c], event |-> e])
  BY DEF LogTypeOK, Commit
<1> QED
  BY <1>2, <1>3

(* A write keeps the type of the table and the ids drawn once each.        *)
LEMMA LogPreserved ==
  ASSUME LogTypeOK, LogInv, LogNext
  PROVE  LogTypeOK' /\ LogInv'
<1>1. PICK c \in Calls : Record(c)
  BY DEF LogNext
<1>2. CASE Insert(c)
  <2>1. LogTypeOK'
    BY <1>2 DEF Insert, LogTypeOK
  <2>2. \A d \in Calls : d # c => call'[d] = call[d] /\ rowId'[d] = rowId[d]
    BY <1>2 DEF Insert, LogTypeOK
  <2>3. rowId'[c] = sequence + 1 /\ sequence' = sequence + 1 /\ sequence \in Nat /\ committed' = committed
    BY <1>2 DEF Insert, LogTypeOK
  <2>4. \A n \in 1 .. Len(committed) : committed[n].id \in Nat
    <3>1. \A n \in 1 .. Len(committed) : committed[n] \in RowType
      BY DEF LogTypeOK
    <3> QED
      BY <3>1 DEF RowType
  <2>5. \A n \in 1 .. Len(committed') : committed'[n].id <= sequence'
    BY <2>3, <2>4 DEF LogInv
  <2>6. ASSUME NEW d \in Calls, call'[d] = "inserting"
        PROVE  /\ rowId'[d] \in 1 .. sequence'
               /\ \A n \in 1 .. Len(committed') : committed'[n].id # rowId'[d]
    <3>1. CASE d = c
      <4>1. \A n \in 1 .. Len(committed) : committed[n].id # sequence + 1
        BY <2>3, <2>4 DEF LogInv
      <4> QED
        BY <2>3, <3>1, <4>1
    <3>2. CASE d # c
      <4>1. rowId[d] \in 1 .. sequence /\ \A n \in 1 .. Len(committed) : committed[n].id # rowId[d]
        BY <2>2, <2>6, <3>2 DEF LogInv
      <4> QED
        BY <2>2, <2>3, <3>2, <4>1
    <3> QED
      BY <3>1, <3>2
  <2>7. ASSUME NEW a \in Calls, NEW b \in Calls, a # b, call'[a] = "inserting", call'[b] = "inserting"
        PROVE  rowId'[a] # rowId'[b]
    <3>1. \A d \in Calls : d # c /\ call'[d] = "inserting" => rowId'[d] \in 1 .. sequence
      BY <2>2 DEF LogInv
    <3>2. CASE a # c /\ b # c
      BY <2>2, <2>7, <3>2 DEF LogInv
    <3>3. CASE a = c \/ b = c
      BY <2>3, <2>7, <3>1, <3>3
    <3> QED
      BY <3>2, <3>3
  <2> QED
    BY <2>1, <2>5, <2>6, <2>7 DEF LogInv
<1>3. ASSUME NEW e \in Events, Commit(c, e) PROVE LogTypeOK' /\ LogInv'
  <2>1. /\ committed' \in Seq(RowType)
        /\ Len(committed') = Len(committed) + 1
        /\ \A n \in 1 .. Len(committed) : committed'[n] = committed[n]
        /\ committed'[Len(committed) + 1].id = rowId[c]
    BY <1>3, CommitAppends
  <2>2. rowId' = rowId /\ sequence' = sequence /\ call[c] = "inserting" /\ Len(committed) \in Nat
    BY <1>3 DEF Commit, LogTypeOK
  <2>3. call' \in [Calls -> {"idle", "inserting", "committed", "failed"}]
    BY <1>3 DEF Commit, LogTypeOK
  <2>4. \A d \in Calls : call'[d] = "inserting" => d # c /\ call[d] = "inserting"
    BY <1>3 DEF Commit, LogTypeOK
  <2>5. LogTypeOK'
    BY <2>1, <2>2, <2>3 DEF LogTypeOK
  <2>6. \A n \in 1 .. Len(committed') : committed'[n].id <= sequence'
    <3>1. rowId[c] <= sequence /\ sequence \in Nat
      BY <2>2 DEF LogInv, LogTypeOK
    <3> QED
      BY <2>1, <2>2, <3>1 DEF LogInv
  <2>7. ASSUME NEW d \in Calls, call'[d] = "inserting"
        PROVE  /\ rowId'[d] \in 1 .. sequence'
               /\ \A n \in 1 .. Len(committed') : committed'[n].id # rowId'[d]
    <3>1. d # c /\ call[d] = "inserting"
      BY <2>4, <2>7
    <3>2. rowId[d] # rowId[c] /\ rowId[d] \in 1 .. sequence
      BY <2>2, <3>1 DEF LogInv
    <3>3. \A n \in 1 .. Len(committed) : committed[n].id # rowId[d]
      BY <3>1 DEF LogInv
    <3> QED
      BY <2>1, <2>2, <3>2, <3>3
  <2>8. \A a, b \in Calls : (a # b /\ call'[a] = "inserting" /\ call'[b] = "inserting") => rowId'[a] # rowId'[b]
    BY <2>2, <2>4 DEF LogInv
  <2> QED
    BY <2>5, <2>6, <2>7, <2>8 DEF LogInv
<1>4. CASE RecordFails(c)
  <2>1. UNCHANGED <<rowId, sequence, committed>>
    BY <1>4 DEF RecordFails
  <2>2. LogTypeOK'
    BY <1>4 DEF RecordFails, LogTypeOK
  <2>3. \A d \in Calls : call'[d] = "inserting" => call[d] = "inserting"
    BY <1>4 DEF RecordFails, LogTypeOK
  <2> QED
    BY <2>1, <2>2, <2>3 DEF LogInv
<1> QED
  BY <1>1, <1>2, <1>3, <1>4 DEF Record

(* Rows stay, stay late, and a row that appears behind a row is late.      *)
LEMMA TableGrows ==
  ASSUME LogTypeOK, LogInv, LogNext
  PROVE  /\ Matching \subseteq Matching'
         /\ \A id : Late(id) => Late(id)'
         /\ \A id \in Matching' : id \in Matching \/ \A k \in Matching : id # k /\ (k > id => Late(id)')
<1>1. CASE committed' = committed
  BY <1>1 DEF Matching, Table, Late
<1>2. ASSUME NEW c \in Calls, NEW e \in Events, Commit(c, e)
      PROVE  /\ Matching \subseteq Matching'
             /\ \A id : Late(id) => Late(id)'
             /\ \A id \in Matching' : id \in Matching \/ \A k \in Matching : id # k /\ (k > id => Late(id)')
  <2>1. /\ Len(committed') = Len(committed) + 1
        /\ \A n \in 1 .. Len(committed) : committed'[n] = committed[n]
        /\ committed'[Len(committed) + 1].id = rowId[c]
    BY <1>2, CommitAppends
  <2>2. Len(committed) \in Nat
    BY DEF LogTypeOK
  <2>3. Matching \subseteq Matching'
    BY <2>1, <2>2 DEF Matching, Table
  <2>4. \A id : Late(id) => Late(id)'
    BY <2>1, <2>2 DEF Late
  <2>5. ASSUME NEW id \in Matching', id \notin Matching, NEW k \in Matching
        PROVE  id # k /\ (k > id => Late(id)')
    <3>1. PICK n \in 1 .. Len(committed') : committed'[n].id = id /\ committed'[n].event \in Wanted
      BY DEF Matching, Table
    <3>2. n = Len(committed) + 1
      BY <2>1, <2>2, <2>5, <3>1 DEF Matching, Table
    <3>3. PICK m \in 1 .. Len(committed) : committed[m].id = k
      BY DEF Matching, Table
    <3>4. id # k
      BY <1>2, <2>1, <3>1, <3>2, <3>3 DEF LogInv, Commit
    <3>5. k > id => Late(id)'
      BY <2>1, <2>2, <3>1, <3>2, <3>3 DEF Late
    <3> QED
      BY <3>4, <3>5
  <2> QED
    BY <2>3, <2>4, <2>5
<1>3. committed' = committed \/ \E c \in Calls, e \in Events : Commit(c, e)
  BY DEF LogNext, Record, Insert, RecordFails
<1> QED
  BY <1>1, <1>2, <1>3

(* What is read from the table changes only with the table.                *)
LEMMA TableStill ==
  ASSUME UNCHANGED committed
  PROVE  Matching' = Matching /\ \A id : Late(id) => Late(id)'
BY DEF Matching, Table, Late

-----------------------------------------------------------------------------
(* The tail.                                                               *)

(* The page opens in IndInv.                                               *)
LEMMA TailInit == Init => IndInv
<1> SUFFICES ASSUME Init PROVE IndInv
  OBVIOUS
<1>1. LogTypeOK /\ LogInv
  BY LogInitial DEF Init
<1>2. rows = <<>> /\ Len(rows) = 0 /\ wire = <<>> /\ opened = 0 /\ lastEventId = 0 /\ batch = {}
  BY DEF Init
<1>3. TypeOK
  <2>1. shown = 0 /\ badge = 0 /\ pending = 0 /\ seenUpTo = 0 /\ last = 0 /\ breaks = 0 /\ source = "closed"
        /\ followingRef \in BOOLEAN /\ following \in BOOLEAN /\ queued \in BOOLEAN
    BY Zenon DEF Init
  <2> QED
    BY <1>1, <1>2, <2>1 DEF TypeOK
<1>4. ResumeInv /\ TailAscends
  BY <1>2 DEF ResumeInv, TailAscends
<1>5. StreamInv /\ StreamMissesOnlyLateRows
  BY <1>2 DEF Init, StreamInv, StreamMissesOnlyLateRows
<1>6. TailMissesOnlyLateRows
  BY <1>1, <1>2, MatchingInNat DEF TailMissesOnlyLateRows
<1>7. QueueInv
  BY <1>2 DEF Init, QueueInv
<1> QED
  BY <1>1, <1>3, <1>4, <1>5, <1>6, <1>7 DEF IndInv

(* A hook's step moves nothing of the tail; the row it adds is new or late.*)
LEMMA LogStep ==
  ASSUME IndInv, LogNext, UNCHANGED tailVars
  PROVE  IndInv'
<1> USE DEF tailVars, streamVars, browserVars, viewVars, screenVars
<1>1. LogTypeOK /\ LogInv /\ LogTypeOK' /\ LogInv'
  BY LogPreserved DEF IndInv, TypeOK
<1>2. /\ Matching \subseteq Matching'
      /\ \A id : Late(id) => Late(id)'
      /\ \A id \in Matching' : id \in Matching \/ \A k \in Matching : id # k /\ (k > id => Late(id)')
  BY <1>1, TableGrows
<1>3. Matching' \subseteq Nat \ {0}
  <2>1. (LogTypeOK => Matching \subseteq Nat \ {0})'
    BY MatchingInNat, PTL
  <2> QED
    BY <1>1, <2>1
<1>4. TypeOK'
  BY <1>1 DEF IndInv, TypeOK
<1>5. ResumeInv' /\ TailAscends'
  BY <1>2 DEF IndInv, ResumeInv, TailAscends
<1>6. StreamInv'
  BY <1>2 DEF IndInv, StreamInv
<1>7. QueueInv'
  BY DEF IndInv, QueueInv
<1>8. Received' = Received /\ OnWire' = OnWire
  BY DEF Received, OnWire
<1>9. ASSUME NEW id \in Matching', NEW k \in {0} \cup Matching, id <= k, id \notin Matching
      PROVE  Late(id)'
  <2>1. id \in Nat \ {0} /\ k \in Nat
    BY <1>1, <1>3, MatchingInNat
  <2>2. k \in Matching
    BY <1>9, <2>1
  <2> QED
    BY <1>2, <1>9, <2>1, <2>2
<1>10. TailMissesOnlyLateRows'
  BY <1>2, <1>8, <1>9 DEF IndInv, TailMissesOnlyLateRows, ResumeInv
<1>11. StreamMissesOnlyLateRows'
  <2> SUFFICES ASSUME source = "open", NEW id \in Matching', Passed(id)'
               PROVE  (id \in Received \cup OnWire \cup batch \/ Late(id))'
    BY DEF StreamMissesOnlyLateRows
  <2>1. Passed(id) /\ batch' = batch
    BY DEF Passed
  <2>2. CASE id \in Matching
    BY <1>2, <1>8, <2>1, <2>2 DEF IndInv, StreamMissesOnlyLateRows
  <2>3. CASE id \notin Matching
    <3>1. last \in {0} \cup Matching /\ batch \subseteq Matching
      BY DEF IndInv, StreamInv
    <3> QED
      BY <1>9, <2>1, <2>3, <3>1 DEF Passed
  <2> QED
    BY <2>2, <2>3
<1> QED
  BY <1>1, <1>4, <1>5, <1>6, <1>7, <1>10, <1>11 DEF IndInv

(* Every other step leaves the table alone.                                *)
LEMMA TableUntouched ==
  ASSUME IndInv, UNCHANGED logVars
  PROVE  /\ LogTypeOK' /\ LogInv'
         /\ Matching' = Matching
         /\ \A id : Late(id) => Late(id)'
         /\ Matching \subseteq Nat \ {0}
<1>1. LogTypeOK /\ LogInv
  BY DEF IndInv, TypeOK
<1>2. LogTypeOK' /\ LogInv'
  BY <1>1 DEF LogTypeOK, LogInv, logVars
<1>3. UNCHANGED committed
  BY DEF logVars
<1> QED
  BY <1>1, <1>2, <1>3, TableStill, MatchingInNat

(* A new EventSource has received nothing, so nothing was missed.          *)
LEMMA EnableStep == ASSUME IndInv, Enable PROVE IndInv'
<1> USE DEF streamVars, viewVars, screenVars
<1>1. /\ LogTypeOK' /\ LogInv' /\ Matching' = Matching
      /\ Matching \subseteq Nat \ {0}
  BY TableUntouched DEF Enable
<1>2. TypeOK'
  BY <1>1 DEF IndInv, TypeOK, Enable
<1>3. Len(rows) \in Nat /\ rows' = rows /\ opened' = Len(rows) /\ lastEventId' = 0
  BY DEF IndInv, TypeOK, Enable
<1>4. ResumeInv' /\ TailAscends'
  BY <1>1, <1>3 DEF ResumeInv, TailAscends
<1>5. TailMissesOnlyLateRows'
  BY <1>1, <1>3 DEF TailMissesOnlyLateRows
<1>6. StreamInv' /\ StreamMissesOnlyLateRows'
  BY <1>1 DEF IndInv, StreamInv, StreamMissesOnlyLateRows, Enable
<1>7. QueueInv'
  BY DEF IndInv, QueueInv, Enable
<1> QED
  BY <1>1, <1>2, <1>4, <1>5, <1>6, <1>7 DEF IndInv

(* Losing the stream loses only what was not dispatched.                   *)
LEMMA CloseStep == ASSUME IndInv, Disable \/ Drop \/ Refuse PROVE IndInv'
<1> USE DEF streamVars, viewVars, screenVars
<1>1. /\ LogTypeOK' /\ LogInv' /\ Matching' = Matching
      /\ \A id : Late(id) => Late(id)'
  BY TableUntouched DEF Disable, Drop, Refuse
<1>2. UNCHANGED <<lastEventId, last, rows, opened, viewVars>>
  BY DEF Disable, Drop, Refuse
<1>3. source' # "open" /\ wire' = <<>> /\ batch' = {}
  BY DEF Disable, Drop, Refuse, IndInv, StreamInv
<1>4. TypeOK'
  <2>1. source' \in {"closed", "connecting", "open", "dead"} /\ breaks' \in Nat
    BY DEF Disable, Drop, Refuse, IndInv, TypeOK
  <2> QED
    BY <1>1, <1>2, <1>3, <2>1 DEF IndInv, TypeOK
<1>5. ResumeInv' /\ TailAscends'
  BY <1>1, <1>2 DEF IndInv, ResumeInv, TailAscends
<1>6. TailMissesOnlyLateRows'
  BY <1>1, <1>2 DEF IndInv, TailMissesOnlyLateRows, Received
<1>7. StreamInv' /\ StreamMissesOnlyLateRows'
  BY <1>1, <1>3 DEF StreamInv, StreamMissesOnlyLateRows
<1>8. QueueInv'
  BY <1>2 DEF IndInv, QueueInv
<1> QED
  BY <1>1, <1>4, <1>5, <1>6, <1>7, <1>8 DEF IndInv

(* Pinning the view clears the badge, unpinning leaves it; a click is      *)
(* rendered at once, what is queued later.                                 *)
LEMMA FollowStep ==
  ASSUME IndInv, (\E b \in BOOLEAN : SetFollowing(b)) \/ PinByClick \/ Render
  PROVE  IndInv'
<1> USE DEF streamVars, browserVars, screenVars
<1>1. /\ LogTypeOK' /\ LogInv' /\ Matching' = Matching
      /\ \A id : Late(id) => Late(id)'
  BY TableUntouched DEF SetFollowing, PinByClick, Render
<1>2. UNCHANGED <<source, lastEventId, last, batch, wire, rows, opened, breaks>>
  <2>1. CASE \E b \in BOOLEAN : SetFollowing(b)
    BY <2>1 DEF SetFollowing
  <2>2. CASE PinByClick
    BY <2>2 DEF PinByClick
  <2>3. CASE Render
    BY <2>3 DEF Render
  <2> QED
    BY <2>1, <2>2, <2>3
<1>3. /\ Len(rows) \in Nat /\ shown \in 0 .. Len(rows)
      /\ badge \in 0 .. Len(rows) /\ pending \in 0 .. shown /\ seenUpTo \in 0 .. Len(rows)
      /\ followingRef \in BOOLEAN /\ following \in BOOLEAN /\ queued \in BOOLEAN
  BY DEF IndInv, TypeOK
<1>4. /\ badge = Len(rows) - seenUpTo /\ (followingRef => badge = 0) /\ (following => pending = 0)
      /\ ~queued => following = followingRef /\ pending = badge /\ shown = Len(rows)
  BY DEF IndInv, QueueInv
<1> DEFINE Flags == /\ followingRef' \in BOOLEAN /\ following' \in BOOLEAN /\ queued' \in BOOLEAN
                    /\ followingRef' => badge' = 0
                    /\ following' => pending' = 0
                    /\ ~queued' => following' = followingRef' /\ pending' = badge' /\ shown' = Len(rows)
           Sizes == /\ shown' \in 0 .. Len(rows) /\ badge' \in 0 .. Len(rows)
                    /\ pending' \in 0 .. shown' /\ seenUpTo' \in 0 .. Len(rows)
                    /\ badge' = Len(rows) - seenUpTo'
<1>5. Flags /\ Sizes
  <2>1. ASSUME NEW b \in BOOLEAN, SetFollowing(b) PROVE Flags /\ Sizes
    <3>1. CASE b
      <4>1. /\ followingRef' = b /\ badge' = 0 /\ queued' = TRUE /\ seenUpTo' = Len(rows)
            /\ following' = following /\ pending' = pending /\ shown' = shown
        BY <2>1, <3>1, Zenon DEF SetFollowing
      <4>2. Flags
        BY <1>3, <1>4, <4>1, Zenon
      <4>3. Sizes
        BY <1>3, <4>1
      <4> QED
        BY <4>2, <4>3
    <3>2. CASE ~b
      <4>1. /\ followingRef' = b /\ badge' = badge /\ queued' = TRUE /\ seenUpTo' = seenUpTo
            /\ following' = following /\ pending' = pending /\ shown' = shown
        BY <2>1, <3>2, Zenon DEF SetFollowing
      <4>2. Flags
        BY <1>3, <1>4, <3>2, <4>1, Zenon
      <4>3. Sizes
        BY <1>3, <1>4, <4>1
      <4> QED
        BY <4>2, <4>3
    <3> QED
      BY <3>1, <3>2
  <2>2. CASE PinByClick
    <3>1. /\ followingRef' = TRUE /\ badge' = 0 /\ following' = TRUE /\ pending' = 0
          /\ seenUpTo' = Len(rows) /\ queued' = queued /\ shown' = shown
      BY <2>2 DEF PinByClick
    <3>2. Flags
      BY <1>3, <1>4, <3>1, Zenon
    <3>3. Sizes
      BY <1>3, <3>1
    <3> QED
      BY <3>2, <3>3
  <2>3. CASE Render
    <3>1. /\ queued' = FALSE /\ following' = followingRef /\ pending' = badge /\ shown' = Len(rows)
          /\ followingRef' = followingRef /\ badge' = badge /\ seenUpTo' = seenUpTo
      BY <2>3, Zenon DEF Render
    <3>2. Flags
      BY <1>3, <1>4, <3>1, Zenon
    <3>3. Sizes
      BY <1>3, <1>4, <3>1
    <3> QED
      BY <3>2, <3>3
  <2> QED
    BY <2>1, <2>2, <2>3
<1>6. TypeOK' /\ QueueInv'
  <2>1. QueueInv'
    BY <1>2, <1>5, Zenon DEF QueueInv
  <2>2. TypeOK'
    BY <1>1, <1>2, <1>5 DEF IndInv, TypeOK
  <2> QED
    BY <2>1, <2>2
<1>7. ResumeInv' /\ TailAscends'
  BY <1>1, <1>2 DEF IndInv, ResumeInv, TailAscends
<1>8. TailMissesOnlyLateRows'
  BY <1>1, <1>2 DEF IndInv, TailMissesOnlyLateRows, Received
<1>9. StreamInv'
  BY <1>1, <1>2 DEF IndInv, StreamInv
<1>10. StreamMissesOnlyLateRows'
  BY <1>1, <1>2 DEF IndInv, StreamMissesOnlyLateRows, Passed, Received, OnWire
<1> QED
  BY <1>1, <1>6, <1>7, <1>8, <1>9, <1>10 DEF IndInv

(* The head of the wire is above everything received, so the resume point  *)
(* moves up to it.                                                         *)
LEMMA DispatchStep == ASSUME IndInv, Dispatch PROVE IndInv'
<1> USE DEF streamVars
<1>1. /\ LogTypeOK' /\ LogInv' /\ Matching' = Matching
      /\ \A id : Late(id) => Late(id)'
      /\ Matching \subseteq Nat \ {0}
  BY TableUntouched DEF Dispatch
<1>2. /\ wire \in Seq(Nat) /\ wire # <<>> /\ wire' = Tail(wire)
      /\ Head(wire) = wire[1] /\ Len(wire) \in Nat \ {0} /\ Head(wire) \in Nat
      /\ Len(wire') = Len(wire) - 1
      /\ \A i \in 1 .. Len(wire') : wire'[i] = wire[i + 1]
      /\ wire' \in Seq(Nat)
  BY DEF IndInv, TypeOK, Dispatch
<1>3. /\ rows \in Seq(Nat) /\ Len(rows) \in Nat /\ Len(rows') = Len(rows) + 1 /\ rows' \in Seq(Nat)
      /\ \A i \in 1 .. Len(rows) : rows'[i] = rows[i] /\ rows[i] \in Nat
      /\ rows'[Len(rows) + 1] = Head(wire)
  BY <1>2 DEF IndInv, TypeOK, Dispatch
<1>4. UNCHANGED <<source, last, batch, opened, followingRef, screenVars, breaks>> /\ source = "open" /\ lastEventId' = Head(wire)
  BY DEF Dispatch
<1>5. /\ opened \in 0 .. Len(rows) /\ shown \in 0 .. Len(rows)
      /\ badge \in 0 .. Len(rows) /\ pending \in 0 .. shown /\ seenUpTo \in 0 .. Len(rows)
  BY DEF IndInv, TypeOK
<1>6. TypeOK'
  <2>1. /\ shown' \in 0 .. Len(rows') /\ pending' \in 0 .. shown'
        /\ badge' \in 0 .. Len(rows') /\ seenUpTo' \in 0 .. Len(rows') /\ opened' \in 0 .. Len(rows')
        /\ queued' = TRUE
    <3>1. /\ shown' = shown /\ pending' = pending /\ opened' = opened /\ queued' = TRUE
          /\ badge' \in {badge, badge + 1} /\ seenUpTo' \in {seenUpTo, Len(rows) + 1}
      BY Zenon DEF Dispatch, screenVars
    <3> QED
      BY <1>3, <1>5, <3>1
  <2>2. followingRef' \in BOOLEAN /\ following' \in BOOLEAN /\ queued' \in BOOLEAN
    BY Zenon DEF Dispatch, screenVars, IndInv, TypeOK
  <2> QED
    BY <1>1, <1>2, <1>3, <1>4, <2>1, <2>2 DEF IndInv, TypeOK
<1>7. /\ lastEventId \in Nat /\ lastEventId < Head(wire) /\ Head(wire) <= last /\ Head(wire) \in Matching
      /\ \A i \in 1 .. Len(wire') : Head(wire) < wire'[i] /\ wire'[i] <= last /\ wire'[i] \in Matching
      /\ \A i, j \in 1 .. Len(wire') : i < j => wire'[i] < wire'[j]
  <2>1. /\ \A i \in 1 .. Len(wire) : lastEventId < wire[i] /\ wire[i] <= last /\ wire[i] \in Matching
        /\ \A i, j \in 1 .. Len(wire) : i < j => wire[i] < wire[j]
    BY <1>4 DEF IndInv, StreamInv
  <2>2. lastEventId \in Nat
    BY DEF IndInv, TypeOK
  <2> QED
    BY <1>2, <2>1, <2>2
<1>8. ResumeInv' /\ TailAscends'
  <2>0. /\ \A i \in opened + 1 .. Len(rows) : i \in 1 .. Len(rows)
        /\ \A i \in opened + 1 .. Len(rows') : i \in opened + 1 .. Len(rows) \/ i = Len(rows) + 1
    BY <1>3, <1>5
  <2>1. \A i \in opened + 1 .. Len(rows) : rows[i] < Head(wire)
    <3> SUFFICES ASSUME NEW i \in opened + 1 .. Len(rows) PROVE rows[i] < Head(wire)
      OBVIOUS
    <3>1. rows[i] <= lastEventId
      BY DEF IndInv, ResumeInv
    <3>2. rows[i] \in Nat /\ lastEventId \in Nat /\ Head(wire) \in Nat /\ lastEventId < Head(wire)
      BY <1>2, <1>3, <1>7, <2>0
    <3> QED
      BY <3>1, <3>2
  <2>2. \A i, j \in opened + 1 .. Len(rows) : i < j => rows[i] < rows[j]
    BY DEF IndInv, TailAscends
  <2>3. ResumeInv'
    <3>1. ASSUME NEW i \in opened + 1 .. Len(rows') PROVE rows'[i] <= Head(wire)
      <4>1. CASE i \in opened + 1 .. Len(rows)
        <5>1. rows'[i] = rows[i] /\ rows[i] \in Nat /\ rows[i] < Head(wire)
          BY <1>3, <2>0, <2>1, <4>1
        <5>2. Head(wire) \in Nat
          BY <1>2
        <5> QED
          BY <5>1, <5>2
      <4>2. CASE i = Len(rows) + 1
        BY <1>2, <1>3, <4>2
      <4> QED
        BY <2>0, <4>1, <4>2
    <3> QED
      BY <1>1, <1>4, <1>7, <3>1 DEF ResumeInv
  <2>4. TailAscends'
    <3>1. ASSUME NEW i \in opened + 1 .. Len(rows'), NEW j \in opened + 1 .. Len(rows'), i < j
          PROVE  rows'[i] < rows'[j]
      <4>0. i # Len(rows) + 1
        BY <1>3, <1>5, <3>1
      <4>1. i \in opened + 1 .. Len(rows) /\ rows'[i] = rows[i]
        <5>1. i \in opened + 1 .. Len(rows)
          BY <2>0, <3>1, <4>0
        <5> QED
          BY <1>3, <2>0, <5>1
      <4>2. CASE j \in opened + 1 .. Len(rows)
        BY <1>3, <2>0, <2>2, <3>1, <4>1, <4>2
      <4>3. CASE j = Len(rows) + 1
        BY <1>3, <2>1, <4>1, <4>3
      <4> QED
        BY <2>0, <4>2, <4>3
    <3> QED
      BY <1>4, <3>1 DEF TailAscends
  <2> QED
    BY <2>3, <2>4
<1>9. StreamInv'
  BY <1>1, <1>2, <1>4, <1>7 DEF IndInv, StreamInv
<1>10. Received' = Received \cup {Head(wire)} /\ OnWire = OnWire' \cup {Head(wire)}
  <2>1. Received' = Received \cup {Head(wire)}
    <3>1. /\ \A i \in opened + 1 .. Len(rows) : i \in opened + 1 .. Len(rows') /\ rows'[i] = rows[i]
          /\ \A i \in opened + 1 .. Len(rows') : i \in opened + 1 .. Len(rows) \/ i = Len(rows) + 1
          /\ Len(rows) + 1 \in opened + 1 .. Len(rows')
      <4>1. opened \in 0 .. Len(rows)
        BY <1>5
      <4> QED
        BY <1>3, <4>1
    <3> QED
      BY <1>3, <1>4, <3>1 DEF Received
  <2>2. OnWire = OnWire' \cup {Head(wire)}
    <3>1. \A i \in 1 .. Len(wire) : i = 1 \/ (i - 1 \in 1 .. Len(wire') /\ wire'[i - 1] = wire[i])
      BY <1>2
    <3>2. \A i \in 1 .. Len(wire') : i + 1 \in 1 .. Len(wire) /\ wire'[i] = wire[i + 1]
      BY <1>2
    <3>3. 1 \in 1 .. Len(wire)
      BY <1>2
    <3> QED
      BY <1>2, <3>1, <3>2, <3>3 DEF OnWire
  <2> QED
    BY <2>1, <2>2
<1>11. StreamMissesOnlyLateRows'
  BY <1>1, <1>4, <1>10 DEF IndInv, StreamMissesOnlyLateRows, Passed
<1>12. TailMissesOnlyLateRows'
  <2> SUFFICES ASSUME NEW id \in Matching, id <= Head(wire) PROVE (id \in Received \/ Late(id))'
    BY <1>1, <1>4 DEF TailMissesOnlyLateRows
  <2>1. id \in Nat /\ last \in Nat /\ batch \subseteq Nat
    BY <1>1 DEF IndInv, TypeOK
  <2>2. id \in Received \cup OnWire \cup batch \/ Late(id)
    BY <1>2, <1>4, <1>7, <2>1 DEF IndInv, StreamMissesOnlyLateRows, Passed
  <2>3. id \notin batch
    BY <1>2, <1>4, <1>7, <2>1 DEF IndInv, StreamInv
  <2>4. id \notin OnWire'
    <3>1. Head(wire) \in Nat /\ \A i \in 1 .. Len(wire') : Head(wire) < wire'[i] /\ wire'[i] \in Nat
      BY <1>1, <1>2, <1>7
    <3>2. \A i \in 1 .. Len(wire') : wire'[i] # id
      BY <2>1, <3>1
    <3> QED
      BY <3>2 DEF OnWire
  <2> QED
    BY <1>1, <1>10, <2>2, <2>3, <2>4
<1>13. QueueInv'
  <2>1. queued' = TRUE /\ following' = following /\ pending' = pending /\ followingRef' = followingRef
    BY Zenon DEF Dispatch, screenVars
  <2>2. /\ badge = Len(rows) - seenUpTo /\ (followingRef => badge = 0) /\ (following => pending = 0)
        /\ followingRef \in BOOLEAN
    BY Zenon DEF IndInv, QueueInv, TypeOK
  <2>3. followingRef' => badge' = 0
    <3>1. CASE followingRef
      <4>1. badge' = badge
        BY <3>1 DEF Dispatch
      <4> QED
        BY <2>2, <3>1, <4>1
    <3>2. CASE ~followingRef
      BY <2>1, <3>2
    <3> QED
      BY <3>1, <3>2
  <2>4. badge' = Len(rows') - seenUpTo'
    <3>1. CASE followingRef
      <4>1. badge' = badge /\ seenUpTo' = Len(rows) + 1
        BY <3>1, Zenon DEF Dispatch
      <4> QED
        BY <1>3, <2>2, <3>1, <4>1
    <3>2. CASE ~followingRef
      <4>1. badge' = badge + 1 /\ seenUpTo' = seenUpTo
        BY <3>2, Zenon DEF Dispatch
      <4> QED
        BY <1>3, <1>5, <2>2, <4>1
    <3> QED
      BY <3>1, <3>2
  <2> QED
    BY <2>1, <2>2, <2>3, <2>4, Zenon DEF QueueInv
<1> QED
  BY <1>1, <1>6, <1>8, <1>9, <1>11, <1>12, <1>13 DEF IndInv

(* The stream starts at the resume point, behind which nothing but late    *)
(* rows is missing.                                                        *)
LEMMA ConnectStep == ASSUME IndInv, Connect PROVE IndInv'
<1> USE DEF viewVars, screenVars
<1>1. /\ LogTypeOK' /\ LogInv' /\ Matching' = Matching
      /\ \A id : Late(id) => Late(id)'
  BY TableUntouched DEF Connect
<1>2. /\ UNCHANGED <<batch, lastEventId, rows, opened, viewVars, wire, breaks>>
      /\ source' = "open" /\ last' = lastEventId /\ wire = <<>> /\ batch = {}
  BY DEF Connect, IndInv, StreamInv
<1>3. TypeOK'
  BY <1>1, <1>2 DEF IndInv, TypeOK
<1>4. ResumeInv' /\ TailAscends'
  BY <1>1, <1>2 DEF IndInv, ResumeInv, TailAscends
<1>5. TailMissesOnlyLateRows'
  BY <1>1, <1>2 DEF IndInv, TailMissesOnlyLateRows, Received
<1>6. StreamInv'
  <2>1. lastEventId \in {0} \cup Matching /\ lastEventId \in Nat
    BY DEF IndInv, ResumeInv, TypeOK
  <2> QED
    BY <1>1, <1>2, <2>1 DEF StreamInv
<1>7. StreamMissesOnlyLateRows'
  BY <1>1, <1>2 DEF IndInv, TailMissesOnlyLateRows, StreamMissesOnlyLateRows, Passed, Received
<1>8. QueueInv'
  BY <1>2 DEF IndInv, QueueInv
<1> QED
  BY <1>1, <1>3, <1>4, <1>5, <1>6, <1>7, <1>8 DEF IndInv

(* A batch leaves out no row below one it holds.                           *)
LEMMA PollStep == ASSUME IndInv, Poll PROVE IndInv'
<1> USE DEF viewVars, screenVars, browserVars
<1> DEFINE past == {i \in Matching : i > last}
<1>1. /\ LogTypeOK' /\ LogInv' /\ Matching' = Matching
      /\ \A id : Late(id) => Late(id)'
      /\ Matching \subseteq Nat \ {0}
  BY TableUntouched DEF Poll
<1>2. /\ UNCHANGED <<source, last, lastEventId, rows, opened, viewVars, wire, breaks>>
      /\ source = "open" /\ batch = {} /\ batch' = Lowest(past, StreamBatch)
  BY DEF Poll
<1>3. batch' \subseteq past /\ past \subseteq Matching
  BY <1>2 DEF Lowest
<1>4. TypeOK'
  BY <1>1, <1>2, <1>3 DEF IndInv, TypeOK
<1>5. ResumeInv' /\ TailAscends'
  BY <1>1, <1>2 DEF IndInv, ResumeInv, TailAscends
<1>6. TailMissesOnlyLateRows'
  BY <1>1, <1>2 DEF IndInv, TailMissesOnlyLateRows, Received
<1>7. StreamInv'
  <2>1. \A b \in batch' : last < b
    BY <1>1, <1>3 DEF IndInv, TypeOK
  <2> QED
    BY <1>1, <1>2, <1>3, <2>1 DEF IndInv, StreamInv
<1>8. StreamMissesOnlyLateRows'
  <2> SUFFICES ASSUME NEW id \in Matching, Passed(id)'
               PROVE  (id \in Received \cup OnWire \cup batch \/ Late(id))'
    BY <1>1 DEF StreamMissesOnlyLateRows
  <2>1. Received' = Received /\ OnWire' = OnWire
    BY <1>2 DEF Received, OnWire
  <2>2. CASE id <= last
    BY <1>1, <1>2, <2>1, <2>2 DEF IndInv, StreamMissesOnlyLateRows, Passed
  <2>3. ASSUME ~(id <= last) PROVE id \in batch'
    <3>0. id \in Nat /\ last \in Nat
      BY <1>1 DEF IndInv, TypeOK
    <3>1. id \in past /\ past \in SUBSET Nat
      <4>1. id > last
        BY <2>3, <3>0
      <4>2. \A k \in Matching : k \in Nat
        BY <1>1
      <4> QED
        BY <4>1, <4>2
    <3>2. PICK k \in batch' : id <= k
      BY <1>2, <2>3 DEF Passed
    <3>3. IsFiniteSet(past)
      BY <1>3, MatchingFinite DEF IndInv, TypeOK
    <3> HIDE DEF past
    <3> QED
      BY <1>2, <3>1, <3>2, <3>3, LowestIsClosed, BatchAssumption
  <2> QED
    BY <2>2, <2>3
<1>9. QueueInv'
  BY <1>2 DEF IndInv, QueueInv
<1> QED
  BY <1>1, <1>4, <1>5, <1>6, <1>7, <1>8, <1>9 DEF IndInv

(* The least row of the batch goes from the batch to the wire.             *)
LEMMA YieldStep == ASSUME IndInv, Yield PROVE IndInv'
<1> USE DEF viewVars, screenVars, browserVars
<1>1. /\ LogTypeOK' /\ LogInv' /\ Matching' = Matching
      /\ \A id : Late(id) => Late(id)'
      /\ Matching \subseteq Nat \ {0}
  BY TableUntouched DEF Yield
<1>2. UNCHANGED <<source, lastEventId, rows, opened, viewVars, breaks>> /\ source = "open"
  BY DEF Yield
<1>3. PICK i \in batch : /\ \A j \in batch : i <= j
                         /\ last' = i
                         /\ batch' = batch \ {i}
                         /\ wire' = Append(wire, i)
  BY DEF Yield
<1>4. /\ batch \subseteq Matching /\ i \in Nat /\ batch \subseteq Nat
      /\ wire \in Seq(Nat) /\ last \in Nat /\ lastEventId \in Nat
  BY <1>1 DEF IndInv, TypeOK, StreamInv
<1>5. /\ wire' \in Seq(Nat) /\ Len(wire) \in Nat /\ Len(wire') = Len(wire) + 1
      /\ \A n \in 1 .. Len(wire) : wire'[n] = wire[n] /\ wire[n] \in Nat
      /\ wire'[Len(wire) + 1] = i
  BY <1>3, <1>4
<1>6. TypeOK'
  BY <1>1, <1>2, <1>3, <1>4, <1>5 DEF IndInv, TypeOK
<1>7. ResumeInv' /\ TailAscends'
  BY <1>1, <1>2 DEF IndInv, ResumeInv, TailAscends
<1>8. TailMissesOnlyLateRows'
  BY <1>1, <1>2 DEF IndInv, TailMissesOnlyLateRows, Received
<1>9. StreamInv'
  <2>1. /\ lastEventId <= last /\ last < i
        /\ \A n \in 1 .. Len(wire) : lastEventId < wire[n] /\ wire[n] <= last /\ wire[n] \in Matching
        /\ \A m, n \in 1 .. Len(wire) : m < n => wire[m] < wire[n]
    BY <1>2 DEF IndInv, StreamInv
  <2>0. i \in Matching /\ \A n \in 1 .. Len(wire') : n \in 1 .. Len(wire) \/ n = Len(wire) + 1
    BY <1>3, <1>4, <1>5
  <2>2. ASSUME NEW n \in 1 .. Len(wire')
        PROVE  lastEventId < wire'[n] /\ wire'[n] <= i /\ wire'[n] \in Matching
    <3>1. CASE n \in 1 .. Len(wire)
      <4>1. wire'[n] = wire[n] /\ wire[n] \in Nat /\ lastEventId < wire[n] /\ wire[n] <= last /\ wire[n] \in Matching
        BY <1>5, <2>1, <3>1
      <4> QED
        BY <1>4, <2>1, <4>1
    <3>2. CASE n = Len(wire) + 1
      BY <1>4, <1>5, <2>0, <2>1, <3>2
    <3> QED
      BY <2>0, <3>1, <3>2
  <2>3. ASSUME NEW k \in 1 .. Len(wire'), NEW n \in 1 .. Len(wire'), k < n
        PROVE  wire'[k] < wire'[n]
    <3>1. k \in 1 .. Len(wire) /\ wire'[k] = wire[k] /\ wire[k] \in Nat /\ wire[k] <= last
      BY <1>5, <2>0, <2>1, <2>3
    <3>2. CASE n \in 1 .. Len(wire)
      BY <1>5, <2>1, <2>3, <3>1, <3>2
    <3>3. CASE n = Len(wire) + 1
      BY <1>4, <1>5, <2>1, <3>1, <3>3
    <3> QED
      BY <2>0, <3>2, <3>3
  <2>4. \A b \in batch' : i < b
    BY <1>3, <1>4
  <2>5. lastEventId <= i /\ batch' \subseteq Matching /\ i \in Matching
    BY <1>3, <1>4, <2>1
  <2> QED
    BY <1>1, <1>2, <1>3, <2>2, <2>3, <2>4, <2>5 DEF StreamInv
<1>10. StreamMissesOnlyLateRows'
  <2>1. Received' = Received
    BY <1>2 DEF Received
  <2>2. OnWire \cup batch \subseteq OnWire' \cup batch'
    BY <1>3, <1>5 DEF OnWire
  <2>3. \A id \in Matching : Passed(id)' => Passed(id)
    BY <1>3 DEF Passed
  <2> QED
    BY <1>1, <1>2, <2>1, <2>2, <2>3 DEF IndInv, StreamMissesOnlyLateRows
<1>11. QueueInv'
  BY <1>2 DEF IndInv, QueueInv
<1> QED
  BY <1>1, <1>6, <1>7, <1>8, <1>9, <1>10, <1>11 DEF IndInv

(* A step that changes nothing keeps IndInv.                               *)
LEMMA StutterStep == ASSUME IndInv, UNCHANGED vars PROVE IndInv'
<1> USE DEF vars, tailVars, streamVars, browserVars, viewVars, screenVars
<1>1. /\ LogTypeOK' /\ LogInv' /\ Matching' = Matching
      /\ \A id : Late(id) => Late(id)'
  BY TableUntouched
<1>2. TypeOK'
  BY <1>1 DEF IndInv, TypeOK
<1>3. ResumeInv' /\ TailAscends' /\ TailMissesOnlyLateRows'
  BY <1>1 DEF IndInv, ResumeInv, TailAscends, TailMissesOnlyLateRows, Received
<1>4. StreamInv'
  BY <1>1 DEF IndInv, StreamInv
<1>5. StreamMissesOnlyLateRows'
  BY <1>1 DEF IndInv, StreamMissesOnlyLateRows, Passed, Received, OnWire
<1>6. QueueInv'
  BY DEF IndInv, QueueInv
<1> QED
  BY <1>1, <1>2, <1>3, <1>4, <1>5, <1>6 DEF IndInv

(* Every step keeps IndInv.                                                *)
LEMMA TailNext == IndInv /\ [Next]_vars => IndInv'
<1> SUFFICES ASSUME IndInv, [Next]_vars PROVE IndInv'
  OBVIOUS
<1>1. CASE LogNext /\ UNCHANGED tailVars
  BY <1>1, LogStep
<1>2. CASE Browser
  <2>1. CASE (\E b \in BOOLEAN : SetFollowing(b)) \/ PinByClick \/ Render
    BY <2>1, FollowStep
  <2>2. CASE Enable \/ Disable \/ Drop \/ Dispatch
    BY <2>2, EnableStep, CloseStep, DispatchStep
  <2> QED
    BY <1>2, <2>1, <2>2, Zenon DEF Browser
<1>3. CASE Server
  BY <1>3, ConnectStep, CloseStep, PollStep, YieldStep, StutterStep DEF Server, PollFails
<1>4. CASE UNCHANGED vars
  BY <1>4, StutterStep
<1> QED
  BY <1>1, <1>2, <1>3, <1>4 DEF Next

-----------------------------------------------------------------------------
(* The theorems of the tail.                                               *)

(* The table, the stream and the browser keep IndInv, whatever is written, *)
(* polled, dropped and toggled, and in whatever order (routes.rs,          *)
(* stream_logs; use-audit-tail.ts).                                        *)
THEOREM TailInductive == Spec => []IndInv
BY TailInit, TailNext, PTL DEF Spec

(* Every variable of the tail keeps its type.                              *)
THEOREM TailTypeCorrect == Spec => []TypeOK
<1>1. IndInv => TypeOK
  BY DEF IndInv
<1> QED
  BY <1>1, TailInductive, PTL

(* However often the connection drops, one EventSource is handed each row  *)
(* at most once and in id order (routes.rs, stream_logs: a reconnect       *)
(* continues after the last row).                                          *)
THEOREM ResumedTailAscends == Spec => []TailAscends
<1>1. IndInv => TailAscends
  BY DEF IndInv
<1> QED
  BY <1>1, TailInductive, PTL

(* The only rows behind a resume point that were never delivered are those *)
(* whose insert committed after a row with a higher id (routes.rs: id > $1 *)
(* ORDER BY id).                                                           *)
THEOREM OnlyLateRowsMissed == Spec => []TailMissesOnlyLateRows
<1>1. IndInv => TailMissesOnlyLateRows
  BY DEF IndInv
<1> QED
  BY <1>1, TailInductive, PTL

(* Once everything is rendered the badge is exactly the rows since the     *)
(* view last followed, and none is shown by a view that follows, however   *)
(* many rows come between a change of the ref and the render of the state  *)
(* (use-audit-tail.ts: setFollowing and the message handler).              *)
THEOREM BadgeCounts == Spec => []BadgeIsExact
<1>1. IndInv => BadgeIsExact
  BY DEF IndInv, QueueInv, BadgeIsExact
<1> QED
  BY <1>1, TailInductive, PTL

-----------------------------------------------------------------------------
(* The least and the greatest of some ids, and the newest n.               *)

(* The natural numbers are well-ordered.                                   *)
LEMMA LeastOf ==
  ASSUME NEW S \in SUBSET Nat, S # {}
  PROVE  \E m \in S : \A j \in S : m <= j
<1>1. \E m \in S : \A j \in S : ~ (<<j, m>> \in OpToRel(<, Nat))
  BY NatLessThanWellFounded, WFMin
<1>2. PICK m \in S : \A j \in S : ~ (<<j, m>> \in OpToRel(<, Nat))
  BY <1>1
<1>3. \A j \in S : ~ (j < m)
  BY <1>2 DEF OpToRel
<1> QED
  BY <1>3

(* A bounded set of them has a greatest element.                           *)
LEMMA GreatestOf ==
  ASSUME NEW S \in SUBSET Nat, NEW b \in Nat, S # {}, \A s \in S : s <= b
  PROVE  \E m \in S : \A j \in S : j <= m
<1> DEFINE D == {d \in Nat : b - d \in S}
<1>1. \A s \in S : b - s \in D
  BY DEF D
<1>2. D \in SUBSET Nat /\ D # {}
  BY <1>1
<1>3. PICK d \in D : \A e \in D : d <= e
  <2> HIDE DEF D
  <2> QED
    BY <1>2, LeastOf
<1>4. b - d \in S /\ d \in Nat
  OBVIOUS
<1>5. \A s \in S : d <= b - s
  BY <1>1, <1>3
<1> QED
  BY <1>4, <1>5

(* ORDER BY id DESC LIMIT n over a table whose ids are at most b: no row   *)
(* above a fetched one is left out.                                        *)
LEMMA HighestIsClosed ==
  ASSUME NEW S \in SUBSET Nat, IsFiniteSet(S), NEW n \in Nat,
         NEW i \in S, NEW k \in Highest(S, n), k <= i
  PROVE  i \in Highest(S, n)
<1> DEFINE above(x) == {j \in S : j > x}
<1>1. k \in S /\ Cardinality(above(k)) < n
  BY DEF Highest
<1>2. above(i) \subseteq above(k)
  <2>1. i \in Nat /\ k \in Nat /\ S \subseteq Nat
    BY <1>1
  <2>2. \A j \in S : j > i => j > k
    BY <2>1
  <2> QED
    BY <2>2
<1>3. IsFiniteSet(above(k))
  BY FS_Subset
<1>4. /\ IsFiniteSet(above(i))
      /\ Cardinality(above(i)) <= Cardinality(above(k))
  BY <1>2, <1>3, FS_Subset
<1>5. Cardinality(above(i)) \in Nat /\ Cardinality(above(k)) \in Nat
  BY <1>3, <1>4, FS_CardinalityType
<1>6. Cardinality(above(i)) < n
  <2> HIDE DEF above
  <2> QED
    BY <1>1, <1>4, <1>5
<1> QED
  BY <1>6 DEF Highest

(* They are at most n.                                                     *)
LEMMA HighestCount ==
  ASSUME NEW S \in SUBSET Nat, IsFiniteSet(S), NEW n \in Nat
  PROVE  /\ IsFiniteSet(Highest(S, n))
         /\ Cardinality(Highest(S, n)) \in Nat
         /\ Cardinality(Highest(S, n)) <= n
<1> DEFINE H == Highest(S, n)
<1>0. H \subseteq S /\ H \in SUBSET Nat
  BY DEF Highest
<1>1. IsFiniteSet(H) /\ Cardinality(H) \in Nat
  BY <1>0, FS_Subset, FS_CardinalityType
<1>2. CASE H = {}
  BY <1>1, <1>2, FS_EmptySet
<1>3. ASSUME H # {} PROVE Cardinality(H) <= n
  <2> HIDE DEF H
  <2>1. PICK m \in H : \A j \in H : m <= j
    BY <1>0, <1>3, LeastOf
  <2> DEFINE A == {j \in S : j > m}
  <2>2. IsFiniteSet(A) /\ Cardinality(A) \in Nat
    BY FS_Subset, FS_CardinalityType
  <2>3. Cardinality(A) < n
    BY DEF H, Highest
  <2>4. H \subseteq A \cup {m}
    BY <1>0, <2>1
  <2> HIDE DEF A
  <2>5. /\ IsFiniteSet(A \cup {m})
        /\ Cardinality(A \cup {m}) \in Nat
        /\ Cardinality(A \cup {m}) <= Cardinality(A) + 1
    <3>1. /\ IsFiniteSet(A \cup {m})
          /\ Cardinality(A \cup {m}) = IF m \in A THEN Cardinality(A) ELSE Cardinality(A) + 1
      BY <2>2, FS_AddElement, Zenon
    <3> QED
      BY <2>2, <3>1
  <2>6. Cardinality(H) <= Cardinality(A \cup {m})
    BY <2>4, <2>5, FS_Subset
  <2> QED
    BY <1>1, <2>2, <2>3, <2>5, <2>6
<1> QED
  BY <1>1, <1>2, <1>3

(* When they are fewer than n, they are all there are.                     *)
LEMMA HighestExhausts ==
  ASSUME NEW S \in SUBSET Nat, IsFiniteSet(S), NEW n \in Nat, NEW b \in Nat, \A s \in S : s <= b,
         Cardinality(Highest(S, n)) < n
  PROVE  Highest(S, n) = S
<1> DEFINE H == Highest(S, n)
<1>0. H \subseteq S
  BY DEF Highest
<1>1. SUFFICES ASSUME S \ H # {} PROVE FALSE
  BY <1>0
<1>2. IsFiniteSet(H) /\ Cardinality(H) \in Nat /\ Cardinality(H) < n
  BY HighestCount
<1> HIDE DEF H
<1>3. PICK m \in S \ H : \A j \in S \ H : j <= m
  <2>1. S \ H \in SUBSET Nat /\ \A s \in S \ H : s <= b
    OBVIOUS
  <2> QED
    BY <1>1, <2>1, GreatestOf
<1> DEFINE A == {j \in S : j > m}
<1>4. A \subseteq H
  <2> SUFFICES ASSUME NEW j \in S, j > m, j \notin H PROVE FALSE
    OBVIOUS
  <2>1. j <= m
    BY <1>3
  <2>2. j \in Nat /\ m \in Nat
    BY <1>3
  <2> QED
    BY <2>1, <2>2
<1>5. Cardinality(A) <= Cardinality(H) /\ IsFiniteSet(A) /\ Cardinality(A) \in Nat
  BY <1>2, <1>4, FS_Subset, FS_CardinalityType
<1>6. Cardinality(A) < n
  <2> HIDE DEF A
  <2> QED
    BY <1>2, <1>5
<1> QED
  BY <1>3, <1>6 DEF H, Highest

-----------------------------------------------------------------------------
(* The walk.                                                               *)

(* The ids of the visible rows are between 1 and the last one drawn.       *)
LEMMA IdsBounded ==
  ASSUME LogTypeOK, LogInv, NEW f
  PROVE  /\ Filtered(f) \subseteq Filtered("all") /\ Filtered(f) \in SUBSET Nat
         /\ \A id \in Filtered(f) : id <= sequence
         /\ sequence \in Nat
         /\ IsFiniteSet(Filtered(f))
<1>1. \A id \in Filtered(f) : id \in Nat \ {0} /\ id <= sequence
  <2> SUFFICES ASSUME NEW id \in Filtered(f) PROVE id \in Nat \ {0} /\ id <= sequence
    OBVIOUS
  <2>1. PICK n \in 1 .. Len(committed) : committed[n].id = id
    BY DEF Filtered, Table
  <2>2. committed[n] \in RowType
    BY <2>1 DEF LogTypeOK
  <2> QED
    BY <2>1, <2>2 DEF RowType, LogInv
<1>2. sequence \in Nat
  BY DEF LogTypeOK
<1>3. Filtered(f) \subseteq Filtered("all")
  BY DEF Filtered
<1>4. IsFiniteSet(Filtered(f))
  <2>1. Filtered(f) \in SUBSET Nat /\ \A id \in Filtered(f) : id <= sequence
    BY <1>1
  <2> QED
    BY <1>2, <2>1, FS_BoundedSetOfNaturals
<1> QED
  BY <1>1, <1>2, <1>3, <1>4

(* The same for the ids a filter of the listing lets through.              *)
LEMMA MatchingBounded ==
  ASSUME LogTypeOK, LogInv
  PROVE  /\ Matching \in SUBSET Nat
         /\ \A id \in Matching : id <= sequence
         /\ sequence \in Nat
<1>1. Matching \subseteq Filtered("all")
  BY DEF Matching, Filtered
<1> QED
  BY <1>1, IdsBounded

(* What one page does for a walk: it holds at most limit rows below the    *)
(* cursor, and every other row below it is below the next cursor, of which *)
(* there is one unless the page held them all.                             *)
LEMMA PageCovers ==
  ASSUME LogTypeOK, LogInv, NEW first \in SUBSET Nat, NEW limit \in Nat
  PROVE  /\ ListLogs(first, limit).data \subseteq Below(first)
         /\ IsFiniteSet(ListLogs(first, limit).data)
         /\ Cardinality(ListLogs(first, limit).data) <= MaxLimit
         /\ ListLogs(first, limit).nextCursor \subseteq ListLogs(first, limit).data
         /\ Cardinality(ListLogs(first, limit).nextCursor) <= 1
         /\ \A k \in ListLogs(first, limit).nextCursor, i \in ListLogs(first, limit).data : k <= i
         /\ \A i \in Below(first) :
              \/ i \in ListLogs(first, limit).data
              \/ /\ ListLogs(first, limit).nextCursor # {}
                 /\ \A k \in ListLogs(first, limit).nextCursor : i < k
<1> DEFINE size    == Clamp(limit)
           fetched == Highest(Below(first), size + 1)
           data    == Highest(fetched, size)
           more    == Cardinality(fetched) > size
           next    == IF more THEN {i \in data : \A j \in data : i <= j} ELSE {}
<1>1. ListLogs(first, limit).data = data /\ ListLogs(first, limit).nextCursor = next
  BY DEF ListLogs, Take, HasMore, NextCursor
<1>2. size \in Nat /\ 1 <= size /\ size <= MaxLimit
  BY LimitAssumption DEF Clamp
<1>3. Below(first) \in SUBSET Nat /\ sequence \in Nat /\ \A i \in Below(first) : i <= sequence
  BY MatchingBounded DEF Below
<1>4. IsFiniteSet(Below(first))
  BY <1>3, FS_BoundedSetOfNaturals
<1> HIDE DEF size
<1>5. IsFiniteSet(fetched) /\ Cardinality(fetched) \in Nat /\ Cardinality(fetched) <= size + 1
  BY <1>2, <1>3, <1>4, HighestCount
<1>6. fetched \in SUBSET Below(first) /\ fetched \in SUBSET Nat
  BY <1>3 DEF Highest
<1>7. \A i \in Below(first) : \A k \in fetched : k <= i => i \in fetched
  BY <1>2, <1>3, <1>4, HighestIsClosed
<1>8. ~more => fetched = Below(first)
  <2> SUFFICES ASSUME ~more PROVE fetched = Below(first)
    OBVIOUS
  <2>1. Cardinality(fetched) < size + 1
    BY <1>2, <1>5
  <2> QED
    <3>1. Cardinality(Highest(Below(first), size + 1)) < size + 1 /\ size + 1 \in Nat
      BY <1>2, <2>1
    <3> QED
      BY <1>3, <1>4, <3>1, HighestExhausts
<1> HIDE DEF fetched
<1>9. IsFiniteSet(data) /\ Cardinality(data) \in Nat /\ Cardinality(data) <= size
  BY <1>2, <1>5, <1>6, HighestCount
<1>10. data \in SUBSET fetched /\ data \in SUBSET Nat
  BY <1>6 DEF Highest
<1>11. \A i \in fetched : \A k \in data : k <= i => i \in data
  BY <1>2, <1>5, <1>6, HighestIsClosed
<1>12. ~more => data = fetched
  <2> SUFFICES ASSUME ~more, NEW i \in fetched PROVE i \in data
    BY <1>10
  <2> DEFINE A == {j \in fetched : j > i}
  <2>1. IsFiniteSet(fetched \ {i}) /\ Cardinality(fetched \ {i}) = Cardinality(fetched) - 1
    BY <1>5, FS_RemoveElement
  <2>2. A \subseteq fetched \ {i}
    BY <1>6
  <2>3. IsFiniteSet(A) /\ Cardinality(A) <= Cardinality(fetched \ {i})
    BY <2>1, <2>2, FS_Subset
  <2>4. Cardinality(A) \in Nat
    BY <2>3, FS_CardinalityType
  <2>5. Cardinality(A) < size
    <3> HIDE DEF A
    <3> QED
      BY <1>2, <1>5, <2>1, <2>3, <2>4
  <2> QED
    BY <2>5 DEF data, Highest
<1>13. more => data # {}
  <2> SUFFICES ASSUME more PROVE data # {}
    OBVIOUS
  <2>1. fetched # {}
    BY <1>2, FS_EmptySet
  <2>2. PICK m \in fetched : \A j \in fetched : j <= m
    <3>1. \A j \in fetched : j <= sequence
      BY <1>3, <1>6
    <3> QED
      BY <1>3, <1>6, <2>1, <3>1, GreatestOf
  <2>3. {j \in fetched : j > m} = {}
    <3>1. \A j \in fetched : j \in Nat /\ m \in Nat /\ j <= m
      BY <1>6, <2>2
    <3>2. \A j \in fetched : ~(j > m)
      BY <3>1
    <3> QED
      BY <3>2
  <2>4. Cardinality({j \in fetched : j > m}) < size
    BY <1>2, <2>3, FS_EmptySet
  <2> QED
    BY <2>4 DEF data, Highest
<1> HIDE DEF data
<1>14. more => next # {}
  <2> SUFFICES ASSUME more PROVE next # {}
    OBVIOUS
  <2>1. PICK m \in data : \A j \in data : m <= j
    BY <1>10, <1>13, LeastOf
  <2> QED
    BY <2>1
<1>15. Cardinality(next) <= 1
  <2>1. CASE next = {}
    BY <2>1, FS_EmptySet
  <2>2. ASSUME NEW m \in next PROVE Cardinality(next) <= 1
    <3>1. next = {m}
      <4>1. \A i \in next : i \in Nat /\ i <= m /\ m <= i
        BY <1>10
      <4>2. \A i \in next : i = m
        BY <1>10, <4>1
      <4> QED
        BY <4>2
    <3>2. Cardinality({m}) = 1
      BY FS_Singleton
    <3> QED
      BY <3>1, <3>2
  <2> QED
    BY <2>1, <2>2
<1>16. ASSUME NEW i \in Below(first), i \notin data
       PROVE  next # {} /\ \A k \in next : i < k
  <2>1. more
    BY <1>8, <1>12, <1>16
  <2>2. ASSUME NEW k \in next PROVE i < k
    <3>1. k \in data /\ k \in fetched /\ k \in Nat /\ i \in Nat
      BY <1>3, <1>10
    <3> QED
      BY <1>7, <1>11, <1>16, <3>1
  <2> QED
    BY <1>14, <2>1, <2>2
<1>17. Cardinality(data) <= MaxLimit
  BY <1>2, <1>9, LimitAssumption
<1>18. data \subseteq Below(first) /\ next \subseteq data
  BY <1>6, <1>10
<1>19. \A k \in next, i \in data : k <= i
  OBVIOUS
<1> HIDE DEF next
<1> QED
  BY <1>1, <1>9, <1>15, <1>16, <1>17, <1>18, <1>19

(* A page goes to the list, its cursor to the next request; what the walk  *)
(* owes is below the one or in the other.                                  *)
LEMMA AnswerStep ==
  ASSUME LogTypeOK, LogInv, WalkTypeOK, NEW limit \in Limits, Answer(limit),
         baseline' \subseteq Matching,
         \A i \in baseline' : i \in Listed \/ i \in Below(cursor),
         PagesDescend, \A i \in Listed : \A j \in Below(cursor) : j < i
  PROVE  WalkTypeOK' /\ WalkInv'
<1> DEFINE data == ListLogs(cursor, limit).data
           next == ListLogs(cursor, limit).nextCursor
<1>1. /\ pages' = Append(pages, data)
      /\ cursor' = next
      /\ walk' = IF next = {} THEN "done" ELSE "paging"
      /\ UNCHANGED committed
  BY DEF Answer, logVars
<1>2. cursor \in SUBSET Nat /\ limit \in Nat
  BY LimitAssumption DEF WalkTypeOK
<1>3. /\ data \subseteq Below(cursor) /\ Cardinality(data) <= MaxLimit
      /\ next \subseteq data /\ Cardinality(next) <= 1
      /\ \A k \in next, i \in data : k <= i
      /\ \A i \in Below(cursor) : i \in data \/ (next # {} /\ \A k \in next : i < k)
  BY <1>2, PageCovers
<1> HIDE DEF data, next
<1>4. Matching' = Matching /\ Matching \subseteq Nat /\ Below(cursor) \subseteq Matching
  BY <1>1, MatchingBounded, TableStill DEF Below
<1>5. data \in SUBSET Nat /\ next \in SUBSET Nat
  BY <1>3, <1>4
<1>6. /\ pages' \in Seq(SUBSET Nat) /\ Len(pages) \in Nat /\ Len(pages') = Len(pages) + 1
      /\ \A n \in 1 .. Len(pages) : pages'[n] = pages[n]
      /\ pages'[Len(pages) + 1] = data
  BY <1>1, <1>5 DEF WalkTypeOK
<1>7. WalkTypeOK'
  <2>1. \A n \in 1 .. Len(pages') : Cardinality(pages'[n]) <= MaxLimit
    <3> SUFFICES ASSUME NEW n \in 1 .. Len(pages') PROVE Cardinality(pages'[n]) <= MaxLimit
      OBVIOUS
    <3>1. n \in 1 .. Len(pages) \/ n = Len(pages) + 1
      BY <1>6
    <3> QED
      BY <1>3, <1>6, <3>1 DEF WalkTypeOK
  <2>2. baseline' \subseteq Nat
    BY <1>4
  <2> QED
    BY <1>1, <1>3, <1>5, <1>6, <2>1, <2>2 DEF WalkTypeOK
<1>8. \A i : i \in Listed \/ i \in data => i \in Listed'
  <2>1. /\ \A n \in 1 .. Len(pages) : n \in 1 .. Len(pages')
        /\ Len(pages) + 1 \in 1 .. Len(pages')
    BY <1>6
  <2> QED
    BY <1>6, <2>1 DEF Listed
<1>9. \A i \in baseline' : i \in Listed' \/ (walk' = "paging" /\ \A k \in cursor' : i < k)
  BY <1>1, <1>3, <1>8
<1>10. \A i \in Listed' : i \in Listed \/ i \in data
  <2>1. \A n \in 1 .. Len(pages') : n \in 1 .. Len(pages) \/ n = Len(pages) + 1
    BY <1>6
  <2> QED
    BY <1>6, <2>1 DEF Listed
<1>11. \A i \in Listed', k \in cursor' : k <= i
  <2> SUFFICES ASSUME NEW i \in Listed', NEW k \in next PROVE k <= i
    BY <1>1
  <2>1. CASE i \in data
    BY <1>3, <2>1
  <2>2. CASE i \in Listed
    <3>1. k < i
      BY <1>3, <2>2
    <3>2. k \in Nat /\ i \in Nat
      BY <1>5, <2>2 DEF Listed, WalkTypeOK
    <3> QED
      BY <3>1, <3>2
  <2> QED
    BY <1>10, <2>1, <2>2
<1>12. PagesDescend'
  <2> SUFFICES ASSUME NEW m \in 1 .. Len(pages'), NEW n \in 1 .. Len(pages'), m < n,
                      NEW i \in pages'[m], NEW j \in pages'[n]
               PROVE  j < i
    BY DEF PagesDescend
  <2>1. m \in 1 .. Len(pages) /\ i \in pages[m]
    BY <1>6
  <2>2. CASE n \in 1 .. Len(pages)
    BY <1>6, <2>1, <2>2 DEF PagesDescend
  <2>3. CASE n = Len(pages) + 1
    <3>1. j \in Below(cursor) /\ i \in Listed
      BY <1>3, <1>6, <2>1, <2>3 DEF Listed
    <3> QED
      BY <3>1
  <2> QED
    BY <1>6, <2>2, <2>3
<1> QED
  BY <1>1, <1>4, <1>7, <1>9, <1>11, <1>12 DEF WalkInv

(* The walk asks for its first page or for the next.                       *)
LEMMA WalkStep ==
  ASSUME LogTypeOK, LogInv, WalkTypeOK, WalkInv, WalkNext
  PROVE  WalkTypeOK' /\ WalkInv'
<1>1. PICK limit \in Limits : FirstPage(limit) \/ NextPage(limit)
  BY DEF WalkNext
<1>2. CASE FirstPage(limit)
  <2>1. cursor = {} /\ baseline' = Matching /\ Answer(limit)
    BY <1>2 DEF FirstPage, WalkInv
  <2>2. \A i \in Matching : i \in Below(cursor)
    BY <2>1 DEF Below
  <2>3. PagesDescend /\ Listed = {}
    <3>1. pages = <<>>
      BY <1>2 DEF FirstPage, WalkInv
    <3> QED
      BY <3>1 DEF PagesDescend, Listed
  <2> QED
    BY <2>1, <2>2, <2>3, AnswerStep
<1>3. CASE NextPage(limit)
  <2>1. baseline' = baseline /\ Answer(limit)
    BY <1>3 DEF NextPage
  <2>2. \A i \in baseline : i \in Listed \/ i \in Below(cursor)
    BY DEF WalkInv, Below
  <2>3. \A i \in Listed : \A j \in Below(cursor) : j < i
    <3> SUFFICES ASSUME NEW i \in Listed, NEW j \in Below(cursor) PROVE j < i
      OBVIOUS
    <3>1. PICK k \in cursor : TRUE
      BY <1>3 DEF NextPage, WalkInv
    <3>2. j < k /\ k <= i
      BY DEF Below, WalkInv
    <3>3. j \in Nat /\ k \in Nat /\ i \in Nat
      BY MatchingBounded DEF Below, Listed, WalkTypeOK
    <3> QED
      BY <3>2, <3>3
  <2> QED
    BY <2>1, <2>2, <2>3, AnswerStep DEF WalkInv
<1> QED
  BY <1>1, <1>2, <1>3

(* A row that is appended meanwhile is nothing the walk owes.              *)
LEMMA WalkWaits ==
  ASSUME WalkTypeOK, WalkInv, UNCHANGED walkVars, Matching \subseteq Matching'
  PROVE  WalkTypeOK' /\ WalkInv'
<1>1. UNCHANGED <<walk, cursor, pages, baseline>>
  BY DEF walkVars
<1>2. WalkTypeOK'
  BY <1>1 DEF WalkTypeOK
<1>3. Listed' = Listed
  BY <1>1 DEF Listed
<1> QED
  BY <1>1, <1>2, <1>3 DEF WalkInv, PagesDescend

-----------------------------------------------------------------------------
(* The table's geometry.                                                   *)

(* The content's height less the viewport's, and what the effect needs.    *)
LEMMA MaxTopType ==
  ASSUME NEW count \in Nat
  PROVE  MaxTop(count) \in Nat /\ (count = 0 => MaxTop(count) = 0)
<1>1. RowH \in Nat /\ Viewport \in Nat /\ count * RowH \in Nat
  BY GeometryAssumption
<1>2. count = 0 => count * RowH = 0
  BY <1>1
<1> QED
  BY <1>1, <1>2 DEF MaxTop

(* Euclid's division, which the provers know by these two bounds.          *)
LEMMA Quotient ==
  ASSUME NEW a \in Nat, NEW b \in Nat \ {0}
  PROVE  /\ a \div b \in Nat
         /\ (a \div b) * b <= a
         /\ a < (a \div b) * b + b
OBVIOUS

(* Whatever is within a row above the window's position is rendered, with  *)
(* the viewport below it: the overscan is at least a row on each side.     *)
LEMMA WindowCovers ==
  ASSUME NEW top \in Nat, NEW off \in Nat, off <= top, top <= off + RowH,
         NEW count \in Nat, NEW n \in 0 .. count - 1,
         n * RowH < off + Viewport, (n + 1) * RowH > off
  PROVE  n \in Window(top, count)
<1> DEFINE R == RowH
           V == Viewport
           q == top \div R
           c == Ceiling(V, R)
           start == IF q > Overscan THEN q - Overscan ELSE 0
           end == start + c + 2 * Overscan
<1>1. R \in Nat /\ R > 0 /\ V \in Nat /\ V > 0 /\ Overscan \in Nat /\ Overscan >= 1 /\ n \in Nat
  BY GeometryAssumption
<1>2. q \in Nat /\ q * R <= top /\ top < q * R + R
  BY <1>1, Quotient
<1>3. c \in Nat /\ c * R >= V
  <2>1. V + R - 1 \in Nat
    BY <1>1
  <2>2. c \in Nat /\ V + R - 1 < c * R + R
    BY <1>1, <2>1, Quotient DEF Ceiling
  <2>3. c * R \in Nat
    BY <1>1, <2>2
  <2> QED
    BY <1>1, <2>2, <2>3
<1> HIDE DEF R, V, q, c
<1>4. q <= n + 1
  <2>1. (n + 1) * R > off
    BY DEF R
  <2>2. q * R < (n + 1) * R + R
    <3>1. q * R \in Nat /\ (n + 1) * R \in Nat
      BY <1>1, <1>2
    <3>2. top <= off + R
      BY DEF R
    <3> QED
      BY <1>1, <1>2, <2>1, <3>1, <3>2
  <2>3. q * R < (n + 2) * R
    BY <1>1, <1>2, <2>2
  <2> QED
    BY <1>1, <1>2, <2>3
<1>5. n < q + 1 + c
  <2>1. n * R < off + V
    BY DEF R, V
  <2>2. n * R < q * R + R + c * R
    <3>1. q * R \in Nat /\ n * R \in Nat /\ c * R \in Nat
      BY <1>1, <1>2, <1>3
    <3> QED
      BY <1>1, <1>2, <1>3, <2>1, <3>1
  <2>3. n * R < (q + 1 + c) * R
    BY <1>1, <1>2, <1>3, <2>2
  <2> QED
    BY <1>1, <1>2, <1>3, <2>3
<1>6. start <= n /\ n < end
  BY <1>1, <1>2, <1>3, <1>4, <1>5
<1>7. start \in Nat /\ end \in Nat
  BY <1>1, <1>2, <1>3
<1>8. Window(top, count) = start .. (IF end < count THEN end ELSE count) - 1
  BY DEF Window, q, c, R, V
<1> HIDE DEF start, end
<1> QED
  BY <1>1, <1>6, <1>7, <1>8

(* The table's container, its state and follow mode.                       *)
ContainerInv ==
  /\ {follows, scrolled, owed, adrift} \subseteq BOOLEAN
  /\ offset \in 0 .. MaxTop(Count)
  /\ scrolled => Count > 0
  /\ OffsetInv /\ FollowPinsToLatest

(* A render with other rows, or one that turns follow mode on: the content *)
(* clamps the container, and the effect is owed if it has to be pinned.    *)
LEMMA RenderStep ==
  ASSUME ContainerInv, Count \in Nat, NEW count \in Nat, Count' = count,
         NEW follow \in BOOLEAN, follows => follow, Renders(count, follow)
  PROVE  ContainerInv'
<1> DEFINE M == MaxTop(Count)
           N == MaxTop(count)
           moves == ~follows \/ N # M
           next == IF Count = 0 \/ count = 0 THEN 0 ELSE IF offset > N THEN N ELSE offset
<1>1. /\ M \in Nat /\ (Count = 0 => M = 0)
      /\ N \in Nat /\ (count = 0 => N = 0)
      /\ MaxTop(Count)' = N
  BY MaxTopType
<1>2. /\ follows' = follow
      /\ offset' = next
      /\ scrollTop' = scrollTop
      /\ scrolled' = (count > 0 /\ (scrolled \/ (Count > 0 /\ next # offset)))
      /\ owed' = (count > 0 /\ follow /\ moves)
      /\ adrift' = (adrift \/ (Count > 0 /\ count = 0))
      /\ ~owed
  BY DEF Renders, Pins
<1>3. offset \in 0 .. M /\ scrollTop \in Nat /\ RowH \in Nat
  BY GeometryAssumption DEF ContainerInv, OffsetInv
<1> HIDE DEF M, N
<1>4. next \in 0 .. N
  BY <1>1, <1>3
<1>5. {follows', scrolled', owed', adrift'} \subseteq BOOLEAN
  BY <1>2, Zenon DEF ContainerInv
<1>6. /\ offset' \in 0 .. MaxTop(Count)' /\ scrollTop' \in Nat
      /\ scrolled' => Count' > 0
      /\ owed' => follows' /\ Count' > 0
  BY <1>1, <1>2, <1>3, <1>4
<1>7. ASSUME ~follows', ~scrolled', ~adrift' PROVE offset' = scrollTop'
  <2>1. ~follow /\ ~follows /\ offset' = next /\ scrollTop' = scrollTop
    BY <1>2, <1>7
  <2>2. CASE Count = 0
    BY <1>1, <1>2, <1>3, <1>7, <2>1, <2>2 DEF ContainerInv, OffsetInv
  <2>3. CASE Count > 0
    <3>0. ~adrift /\ ~(Count > 0 /\ count = 0)
      BY <1>2, <1>7, Zenon
    <3>1. count > 0 /\ ~adrift
      BY <2>3, <3>0
    <3>2. next = offset /\ ~scrolled
      BY <1>2, <1>7, <2>3, <3>1
    <3>3. offset = scrollTop
      BY <2>1, <3>1, <3>2 DEF ContainerInv, OffsetInv
    <3> QED
      BY <1>2, <2>1, <3>2, <3>3
  <2> QED
    BY <2>2, <2>3
<1>8. ASSUME follows', Count' > 0, ~scrolled', ~owed' PROVE offset' + RowH >= MaxTop(Count)'
  <2>1. follow /\ count > 0 /\ ~owed
    BY <1>2, <1>8
  <2>2. ~moves
    BY <1>2, <1>8, <2>1
  <2>3. follows /\ N = M
    BY <2>2
  <2>4. CASE Count = 0
    BY <1>1, <1>2, <1>3, <1>4, <2>3, <2>4
  <2>5. CASE Count > 0
    <3>1. ~scrolled /\ next = offset
      BY <1>2, <1>8, <2>1, <2>5
    <3>2. offset + RowH >= M
      BY <2>1, <2>3, <2>5, <3>1 DEF ContainerInv, FollowPinsToLatest, M
    <3> QED
      BY <1>1, <1>2, <2>3, <3>1, <3>2
  <2> QED
    BY <2>4, <2>5
<1> QED
  BY <1>5, <1>6, <1>7, <1>8 DEF ContainerInv, OffsetInv, FollowPinsToLatest

(* The effect pins the container, from wherever it is.                     *)
LEMMA PinStep ==
  ASSUME ContainerInv, Count \in Nat, Pin, Count' = Count
  PROVE  ContainerInv'
<1> DEFINE M == MaxTop(Count)
<1>1. M \in Nat /\ MaxTop(Count)' = M
  BY MaxTopType
<1>2. /\ owed /\ owed' = FALSE
      /\ offset' = M /\ scrollTop' = M
      /\ scrolled' = (scrolled \/ offset # M)
      /\ UNCHANGED <<follows, adrift>>
  BY DEF Pin
<1> HIDE DEF M
<1>3. {follows', scrolled', owed', adrift'} \subseteq BOOLEAN
  BY <1>2, Zenon DEF ContainerInv
<1>4. Count > 0 /\ RowH \in Nat
  BY <1>2, GeometryAssumption DEF ContainerInv, OffsetInv
<1> QED
  BY <1>1, <1>2, <1>3, <1>4 DEF ContainerInv, OffsetInv, FollowPinsToLatest

(* The user moves the container, and an event is to come.                  *)
LEMMA ScrollStep ==
  ASSUME ContainerInv, Count \in Nat, NEW top \in 0 .. MaxTop(Count), Scroll(top), Count' = Count
  PROVE  ContainerInv'
<1>1. /\ offset' = top /\ scrolled' = TRUE /\ UNCHANGED <<follows, scrollTop, owed, adrift>>
      /\ Count > 0
  BY DEF Scroll
<1>2. MaxTop(Count)' = MaxTop(Count)
  BY DEF MaxTop
<1> QED
  BY <1>1, <1>2 DEF ContainerInv, OffsetInv, FollowPinsToLatest

(* Its event is handled with the offset there is by then.                  *)
LEMMA HandleScrollStep ==
  ASSUME ContainerInv, Count \in Nat, HandleScroll, Count' = Count
  PROVE  ContainerInv'
<1> DEFINE M == MaxTop(Count)
           follow == offset + RowH >= M
           pinned == IF owed THEN M ELSE offset
<1>1. M \in Nat /\ MaxTop(Count)' = M
  BY MaxTopType
<1>2. /\ follows' = follow
      /\ offset' = pinned /\ scrollTop' = pinned
      /\ scrolled' = (pinned # offset)
      /\ owed' = (follow /\ ~follows)
      /\ adrift' = FALSE
      /\ scrolled
  BY DEF HandleScroll
<1>3. offset \in 0 .. M /\ RowH \in Nat /\ Count > 0
  BY <1>2, GeometryAssumption DEF ContainerInv
<1> HIDE DEF M
<1>4. follow \in BOOLEAN
  BY <1>1, <1>3
<1>5. offset' \in 0 .. M /\ scrollTop' = offset' /\ scrollTop' \in Nat
  BY <1>1, <1>2, <1>3
<1>6. {follows', scrolled', owed', adrift'} \subseteq BOOLEAN
  <2> HIDE DEF follow, pinned
  <2> QED
    BY <1>2, <1>4, Zenon
<1>7. owed' => follows'
  <2> HIDE DEF follow
  <2> QED
    BY <1>2, Zenon
<1>8. follows' => offset' + RowH >= M
  <2> SUFFICES ASSUME follows' PROVE offset' + RowH >= M
    OBVIOUS
  <2>1. follow
    BY <1>2, Zenon
  <2>2. CASE owed
    BY <1>1, <1>2, <1>3, <2>2
  <2>3. CASE ~owed
    BY <1>2, <2>1, <2>3
  <2> QED
    BY <2>2, <2>3
<1> QED
  BY <1>1, <1>3, <1>5, <1>6, <1>7, <1>8 DEF ContainerInv, OffsetInv, FollowPinsToLatest

-----------------------------------------------------------------------------
(* The Explorer.                                                           *)

(* What the page knows besides the table.                                  *)
FeedInv ==
  /\ reader \in Readers /\ {live, loadError} \subseteq BOOLEAN
  /\ loaded \in Nat /\ sent \in Nat
  /\ tailRows \in Seq(Nat) /\ Len(tailRows) <= MaxArrivals
  /\ facet \in Events \cup {"all"}

(* The inductive invariant by the parts that steps change together.        *)
LEMMA ExplorerParts ==
  ExplorerInv <=> /\ LogTypeOK /\ LogInv /\ WalkTypeOK /\ WalkInv
                  /\ RowsInv /\ ContainerInv /\ FeedInv
<1>1. ExplorerInv => /\ LogTypeOK /\ LogInv /\ WalkTypeOK /\ WalkInv
                     /\ RowsInv /\ ContainerInv /\ FeedInv
  BY DEF ExplorerInv, ExplorerTypeOK, ContainerInv, FeedInv
<1>2. ASSUME LogTypeOK, LogInv, WalkTypeOK, WalkInv, RowsInv, ContainerInv, FeedInv
      PROVE  ExplorerInv
  <2>1. pageRows \subseteq Nat
    BY <1>2, IdsBounded DEF RowsInv
  <2>2. {live, loadError, follows, scrolled, owed, adrift} \subseteq BOOLEAN
    BY <1>2, Zenon DEF FeedInv, ContainerInv
  <2>3. ExplorerTypeOK
    BY <1>2, <2>1, <2>2 DEF ExplorerTypeOK, RowsInv, ContainerInv, FeedInv
  <2> QED
    BY <1>2, <2>3 DEF ExplorerInv, ContainerInv
<1> QED
  BY <1>1, <1>2

(* A number of rows is a number.                                           *)
LEMMA CountType ==
  ASSUME LogTypeOK, LogInv, NEW page, NEW tail \in Seq(Nat), NEW f
  PROVE  CountOf(page, tail, f) \in Nat
<1>1. IsFiniteSet(Filtered(f))
  BY IdsBounded
<1>2. IsFiniteSet(page \cap Filtered(f))
  BY <1>1, FS_Subset
<1> DEFINE I == {n \in 1 .. Len(tail) : tail[n] \in Filtered(f)}
<1>3. IsFiniteSet(I)
  <2>1. IsFiniteSet(1 .. Len(tail))
    BY FS_Interval
  <2> QED
    BY <2>1, FS_Subset
<1>4. Cardinality(page \cap Filtered(f)) \in Nat /\ Cardinality(I) \in Nat
  BY <1>2, <1>3, FS_CardinalityType
<1> QED
  BY <1>4 DEF CountOf

(* An append lets through no row that was there and had not been.          *)
LEMMA FilterGrows ==
  ASSUME LogTypeOK, LogInv, LogNext, NEW f
  PROVE  /\ Filtered(f) \subseteq (Filtered(f))'
         /\ \A id \in (Filtered(f))' : id \in Filtered("all") => id \in Filtered(f)
<1>1. CASE committed' = committed
  BY <1>1 DEF Filtered, Table
<1>2. ASSUME NEW c \in Calls, NEW e \in Events, Commit(c, e)
      PROVE  /\ Filtered(f) \subseteq (Filtered(f))'
             /\ \A id \in (Filtered(f))' : id \in Filtered("all") => id \in Filtered(f)
  <2>1. /\ Len(committed') = Len(committed) + 1
        /\ \A n \in 1 .. Len(committed) : committed'[n] = committed[n]
        /\ committed'[Len(committed) + 1].id = rowId[c]
    BY <1>2, CommitAppends
  <2>2. Len(committed) \in Nat
    BY DEF LogTypeOK
  <2>3. Filtered(f) \subseteq (Filtered(f))'
    BY <2>1, <2>2 DEF Filtered, Table
  <2>4. ASSUME NEW id \in (Filtered(f))', id \in Filtered("all") PROVE id \in Filtered(f)
    <3>1. PICK n \in 1 .. Len(committed') :
            committed'[n].id = id /\ (f = "all" \/ committed'[n].event = f)
      BY DEF Filtered, Table
    <3>2. PICK m \in 1 .. Len(committed) : committed[m].id = id
      BY <2>4 DEF Filtered, Table
    <3>3. n # Len(committed) + 1
      BY <1>2, <2>1, <3>1, <3>2 DEF LogInv, Commit
    <3>4. n \in 1 .. Len(committed)
      BY <2>1, <2>2, <3>1, <3>3
    <3> QED
      BY <2>1, <3>1, <3>4 DEF Filtered, Table
  <2> QED
    BY <2>3, <2>4
<1>3. committed' = committed \/ \E c \in Calls, e \in Events : Commit(c, e)
  BY DEF LogNext, Record, Insert, RecordFails
<1> QED
  BY <1>1, <1>2, <1>3

(* What the filter lets through changes only with the table.               *)
LEMMA FilterStill ==
  ASSUME UNCHANGED committed, NEW f
  PROVE  (Filtered(f))' = Filtered(f)
BY DEF Filtered, Table

(* The container stays where it is.                                        *)
LEMMA ContainerStill ==
  ASSUME ContainerInv, Count' = Count, UNCHANGED <<follows, scrollTop, offset, scrolled, owed, adrift>>
  PROVE  ContainerInv'
<1>1. MaxTop(Count)' = MaxTop(Count)
  BY DEF MaxTop
<1> QED
  BY <1>1 DEF ContainerInv, OffsetInv, FollowPinsToLatest

(* A hook's row is none of the rows that are shown.                        *)
LEMMA ExplorerLogStep ==
  ASSUME ExplorerInv, LogNext, UNCHANGED <<walkVars, reader, feedVars, loadVars, tableVars>>
  PROVE  ExplorerInv'
<1> USE DEF feedVars, loadVars, tableVars
<1>1. LogTypeOK /\ LogInv /\ WalkTypeOK /\ WalkInv /\ RowsInv /\ ContainerInv /\ FeedInv
  BY ExplorerParts
<1>2. LogTypeOK' /\ LogInv'
  BY <1>1, LogPreserved
<1>3. WalkTypeOK' /\ WalkInv'
  BY <1>1, TableGrows, WalkWaits
<1>4. RowsInv'
  <2>1. Filtered("all") \subseteq (Filtered("all"))'
    BY <1>1, FilterGrows
  <2>2. loads \subseteq [id : Nat, rows : SUBSET (Filtered("all"))']
    BY <1>1, <2>1 DEF RowsInv
  <2> QED
    BY <1>1, <2>1, <2>2 DEF RowsInv
<1>5. Count' = Count
  <2>1. /\ Filtered(facet) \subseteq (Filtered(facet))'
        /\ \A id \in (Filtered(facet))' : id \in Filtered("all") => id \in Filtered(facet)
    <3>1. \A f : /\ Filtered(f) \subseteq (Filtered(f))'
                 /\ \A id \in (Filtered(f))' : id \in Filtered("all") => id \in Filtered(f)
      BY <1>1, FilterGrows
    <3> QED
      BY <3>1
  <2>2. pageRows \cap (Filtered(facet))' = pageRows \cap Filtered(facet)
    BY <1>1, <2>1 DEF RowsInv
  <2>3. {n \in 1 .. Len(tailRows) : tailRows[n] \in (Filtered(facet))'}
          = {n \in 1 .. Len(tailRows) : tailRows[n] \in Filtered(facet)}
    BY <1>1, <2>1 DEF RowsInv
  <2> QED
    BY <2>2, <2>3 DEF Count, CountOf
<1>6. ContainerInv'
  BY <1>1, <1>5, ContainerStill
<1>7. FeedInv'
  BY <1>1 DEF FeedInv
<1>8. (ExplorerInv <=> /\ LogTypeOK /\ LogInv /\ WalkTypeOK /\ WalkInv
                       /\ RowsInv /\ ContainerInv /\ FeedInv)'
  BY ExplorerParts, PTL
<1> QED
  BY <1>2, <1>3, <1>4, <1>6, <1>7, <1>8

(* The page opens in ExplorerInv.                                          *)
LEMMA ExplorerStarts == ExplorerInit => ExplorerInv
<1> SUFFICES ASSUME ExplorerInit PROVE ExplorerInv
  OBVIOUS
<1>1. LogTypeOK /\ LogInv
  BY LogInitial DEF ExplorerInit
<1>2. walk = "idle" /\ cursor = {} /\ pages = <<>> /\ baseline = {}
  BY DEF ExplorerInit, WalkInit
<1>3. WalkTypeOK /\ WalkInv
  <2>1. Cardinality({}) = 0 /\ Len(pages) = 0
    BY <1>2, FS_EmptySet
  <2> QED
    BY <1>2, <2>1 DEF WalkTypeOK, WalkInv, Listed, PagesDescend
<1>4. /\ pageRows = {} /\ loads = {} /\ tailRows = <<>> /\ Len(tailRows) = 0 /\ facet = "all"
      /\ follows = TRUE /\ scrollTop = 0 /\ offset = 0 /\ scrolled = FALSE /\ owed = FALSE /\ adrift = FALSE
  BY DEF ExplorerInit
<1>5. RowsInv
  <2>1. Cardinality(pageRows) = 0
    BY <1>4, FS_EmptySet
  <2> QED
    BY <1>4, <2>1, BoundsAssumption DEF RowsInv
<1>6. Count = 0
  <2>1. pageRows \cap Filtered(facet) = {}
    BY <1>4
  <2>2. {n \in 1 .. Len(tailRows) : tailRows[n] \in Filtered(facet)} = {}
    BY <1>4
  <2>3. Count = Cardinality({}) + Cardinality({})
    BY <2>1, <2>2, Zenon DEF Count, CountOf
  <2> QED
    BY <2>3, FS_EmptySet
<1>7. ContainerInv
  <2>1. MaxTop(Count) = 0
    BY <1>6, MaxTopType
  <2>2. {follows, scrolled, owed, adrift} \subseteq BOOLEAN
    BY <1>4, Zenon
  <2>3. OffsetInv
    BY <1>4 DEF OffsetInv
  <2>4. FollowPinsToLatest
    BY <1>6 DEF FollowPinsToLatest
  <2> QED
    BY <1>4, <1>6, <2>1, <2>2, <2>3, <2>4 DEF ContainerInv
<1>8. FeedInv
  <2>1. /\ reader \in Readers /\ live = TRUE /\ loadError = FALSE /\ loaded = 0 /\ sent = 0
    BY DEF ExplorerInit
  <2>2. {live, loadError} \subseteq BOOLEAN
    BY <2>1, Zenon
  <2>3. tailRows \in Seq(Nat)
    BY <1>4
  <2> QED
    BY <1>4, <2>1, <2>2, <2>3, BoundsAssumption DEF FeedInv
<1> QED
  BY <1>1, <1>3, <1>5, <1>7, <1>8, ExplorerParts

(* What a step of the page leaves alone.                                   *)
LEMMA PageStep ==
  ASSUME ExplorerInv, UNCHANGED <<logVars, walkVars>>
  PROVE  /\ LogTypeOK /\ LogInv /\ RowsInv /\ ContainerInv /\ FeedInv
         /\ \A f : (Filtered(f))' = Filtered(f)
         /\ Count \in Nat
         /\ RowsInv' /\ ContainerInv' /\ FeedInv' => ExplorerInv'
<1>1. LogTypeOK /\ LogInv /\ WalkTypeOK /\ WalkInv /\ RowsInv /\ ContainerInv /\ FeedInv
  BY ExplorerParts
<1>2. LogTypeOK' /\ LogInv' /\ UNCHANGED committed
  BY <1>1 DEF LogTypeOK, LogInv, logVars
<1>3. WalkTypeOK' /\ WalkInv'
  BY <1>1, <1>2, TableStill, WalkWaits
<1>4. Count \in Nat
  BY <1>1, CountType DEF Count, FeedInv
<1>5. (ExplorerInv <=> /\ LogTypeOK /\ LogInv /\ WalkTypeOK /\ WalkInv
                       /\ RowsInv /\ ContainerInv /\ FeedInv)'
  BY ExplorerParts, PTL
<1>6. \A f : (Filtered(f))' = Filtered(f)
  BY <1>2, FilterStill
<1> QED
  BY <1>1, <1>2, <1>3, <1>4, <1>5, <1>6

(* The number of rows shown next.                                          *)
LEMMA CountNext ==
  ASSUME \A f : (Filtered(f))' = Filtered(f)
  PROVE  Count' = CountOf(pageRows', tailRows', facet')
BY DEF Count, CountOf

(* A load is sent, fails, or the toggle is moved.                          *)
LEMMA LoadStep ==
  ASSUME ExplorerInv, Load \/ ToggleLive \/ \E l \in loads : LoadFails(l)
  PROVE  ExplorerInv'
<1> USE DEF tableVars, loadVars, feedVars
<1>1. UNCHANGED <<logVars, walkVars, reader, pageRows, tableVars>>
  BY DEF Load, ToggleLive, LoadFails
<1>2. /\ LogTypeOK /\ LogInv /\ RowsInv /\ ContainerInv /\ FeedInv
      /\ \A f : (Filtered(f))' = Filtered(f)
      /\ RowsInv' /\ ContainerInv' /\ FeedInv' => ExplorerInv'
  BY <1>1, PageStep
<1>3. Count' = Count
  BY <1>1, <1>2, CountNext DEF Count
<1>4. ContainerInv'
  BY <1>1, <1>2, <1>3, ContainerStill
<1>5. FeedInv'
  <2>1. /\ loaded' \in Nat /\ sent' \in Nat
        /\ live' \in BOOLEAN /\ loadError' \in BOOLEAN
    <3>0. loaded \in Nat /\ sent \in Nat /\ live \in BOOLEAN /\ loadError \in BOOLEAN
      BY <1>2 DEF FeedInv
    <3>1. CASE Load
      <4>1. loadError' = FALSE /\ loaded' = loaded + 1 /\ UNCHANGED <<live, sent>>
        BY <3>1 DEF Load
      <4>2. live' \in BOOLEAN /\ loadError' \in BOOLEAN
        BY <3>0, <4>1, Zenon
      <4>3. loaded' \in Nat /\ sent' \in Nat
        BY <3>0, <4>1
      <4> QED
        BY <4>2, <4>3
    <3>2. CASE ToggleLive
      BY <3>0, <3>2 DEF ToggleLive
    <3>3. CASE \E l \in loads : LoadFails(l)
      BY <3>0, <3>3 DEF LoadFails
    <3> QED
      BY <3>1, <3>2, <3>3
  <2> QED
    BY <1>1, <1>2, <2>1 DEF FeedInv
<1>6. RowsInv'
  <2>1. (Filtered("all"))' = Filtered("all")
    BY <1>2
  <2>2. ASSUME NEW m \in loads'
        PROVE  m \in [id : Nat, rows : SUBSET Filtered("all")] /\ Cardinality(m.rows) <= PageLimit
    <3>1. CASE m \in loads
      BY <1>2, <3>1 DEF RowsInv
    <3>2. CASE m \notin loads
      <4> DEFINE top == Highest(Filtered("all"), PageLimit)
      <4>1. m = [id |-> loaded + 1, rows |-> top]
        BY <3>2 DEF Load, ToggleLive, LoadFails
      <4>2. top \subseteq Filtered("all")
        BY DEF Highest
      <4>3. Cardinality(top) <= PageLimit
        BY <1>2, IdsBounded, HighestCount, BoundsAssumption
      <4>4. loaded + 1 \in Nat
        BY <1>2 DEF FeedInv
      <4> HIDE DEF top
      <4> QED
        BY <4>1, <4>2, <4>3, <4>4
    <3> QED
      BY <3>1, <3>2
  <2> QED
    BY <1>1, <1>2, <2>1, <2>2 DEF RowsInv
<1> QED
  BY <1>2, <1>4, <1>5, <1>6

(* A load is answered: the page shows its rows.                            *)
LEMMA LoadedStep ==
  ASSUME ExplorerInv, NEW l \in loads, Loaded(l)
  PROVE  ExplorerInv'
<1>1. /\ UNCHANGED <<logVars, walkVars, reader, feedVars, loaded, loadError, tailRows, facet>>
      /\ loads' = loads \ {l} /\ pageRows' = l.rows
      /\ Renders(CountOf(l.rows, tailRows, facet), follows)
  BY DEF Loaded
<1>2. /\ LogTypeOK /\ LogInv /\ RowsInv /\ ContainerInv /\ FeedInv
      /\ \A f : (Filtered(f))' = Filtered(f)
      /\ Count \in Nat
      /\ RowsInv' /\ ContainerInv' /\ FeedInv' => ExplorerInv'
  BY <1>1, PageStep
<1>3. Count' = CountOf(l.rows, tailRows, facet) /\ CountOf(l.rows, tailRows, facet) \in Nat
  BY <1>1, <1>2, CountNext, CountType DEF FeedInv
<1>4. ContainerInv'
  <2>1. follows \in BOOLEAN
    BY <1>2, Zenon DEF ContainerInv
  <2> QED
    BY <1>1, <1>2, <1>3, <2>1, RenderStep
<1>5. FeedInv'
  BY <1>1, <1>2 DEF FeedInv, feedVars
<1>6. RowsInv'
  <2>1. (Filtered("all"))' = Filtered("all")
    BY <1>2
  <2> QED
    BY <1>1, <1>2, <2>1 DEF RowsInv
<1> QED
  BY <1>2, <1>4, <1>5, <1>6

(* The tail brings a row.                                                  *)
LEMMA ArrivesStep ==
  ASSUME ExplorerInv, NEW r \in Table, Arrives(r.id)
  PROVE  ExplorerInv'
<1> DEFINE id == r.id
<1>1. /\ UNCHANGED <<logVars, walkVars, reader, live, loadVars, facet>>
      /\ sent' = id /\ tailRows' = Append(tailRows, id) /\ Len(tailRows) < MaxArrivals
      /\ Renders(CountOf(pageRows, Append(tailRows, id), facet), follows)
  BY DEF Arrives
<1>2. /\ LogTypeOK /\ LogInv /\ RowsInv /\ ContainerInv /\ FeedInv
      /\ \A f : (Filtered(f))' = Filtered(f)
      /\ Count \in Nat
      /\ RowsInv' /\ ContainerInv' /\ FeedInv' => ExplorerInv'
  BY <1>1, PageStep
<1>3. id \in Filtered("all") /\ id \in Nat
  <2>1. id \in Filtered("all")
    BY DEF Filtered
  <2> QED
    BY <1>2, <2>1, IdsBounded
<1> HIDE DEF id
<1>4. /\ tailRows' \in Seq(Nat) /\ Len(tailRows) \in Nat /\ Len(tailRows') = Len(tailRows) + 1
      /\ \A n \in 1 .. Len(tailRows) : tailRows'[n] = tailRows[n]
      /\ tailRows'[Len(tailRows) + 1] = id
  BY <1>1, <1>2, <1>3 DEF FeedInv
<1>5. /\ Count' = CountOf(pageRows, Append(tailRows, id), facet)
      /\ CountOf(pageRows, Append(tailRows, id), facet) \in Nat
  <2>1. Append(tailRows, id) \in Seq(Nat) /\ pageRows' = pageRows
    BY <1>1, <1>4 DEF loadVars
  <2> QED
    BY <1>1, <1>2, <2>1, CountNext, CountType
<1>6. ContainerInv'
  <2>1. follows \in BOOLEAN
    BY <1>2, Zenon DEF ContainerInv
  <2> QED
    BY <1>1, <1>2, <1>5, <2>1, RenderStep
<1>7. FeedInv'
  <2>1. Len(tailRows') <= MaxArrivals
    BY <1>1, <1>4, BoundsAssumption
  <2> QED
    BY <1>1, <1>2, <1>3, <1>4, <2>1 DEF FeedInv, loadVars
<1>8. RowsInv'
  <2>1. (Filtered("all"))' = Filtered("all")
    BY <1>2
  <2>2. \A n \in 1 .. Len(tailRows') : tailRows'[n] \in Filtered("all")
    <3> SUFFICES ASSUME NEW n \in 1 .. Len(tailRows') PROVE tailRows'[n] \in Filtered("all")
      OBVIOUS
    <3>1. n \in 1 .. Len(tailRows) \/ n = Len(tailRows) + 1
      BY <1>4
    <3> QED
      BY <1>2, <1>3, <1>4, <3>1 DEF RowsInv
  <2> QED
    BY <1>1, <1>2, <2>1, <2>2 DEF RowsInv, loadVars
<1> QED
  BY <1>2, <1>6, <1>7, <1>8

(* The filter changes, the view is pinned again, or the container moves.   *)
LEMMA TableStep ==
  ASSUME ExplorerInv,
         \/ \E f \in Events \cup {"all"} : SetFacet(f)
         \/ JumpToLatest \/ Pin \/ HandleScroll
         \/ \E top \in 0 .. MaxTop(Count) : Scroll(top)
  PROVE  ExplorerInv'
<1>1. UNCHANGED <<logVars, walkVars, reader, feedVars, loadVars, tailRows>>
  BY DEF SetFacet, JumpToLatest, Pin, HandleScroll, Scroll
<1>2. /\ LogTypeOK /\ LogInv /\ RowsInv /\ ContainerInv /\ FeedInv
      /\ \A f : (Filtered(f))' = Filtered(f)
      /\ Count \in Nat
      /\ RowsInv' /\ ContainerInv' /\ FeedInv' => ExplorerInv'
  BY <1>1, PageStep
<1>3. facet' \in Events \cup {"all"}
  BY <1>2 DEF SetFacet, JumpToLatest, Pin, HandleScroll, Scroll, FeedInv
<1>4. FeedInv' /\ RowsInv'
  <2>1. (Filtered("all"))' = Filtered("all")
    BY <1>2
  <2> QED
    BY <1>1, <1>2, <1>3, <2>1 DEF FeedInv, RowsInv, feedVars, loadVars
<1>5. follows \in BOOLEAN
  BY <1>2, Zenon DEF ContainerInv
<1>6. pageRows' = pageRows /\ tailRows' = tailRows
  BY <1>1 DEF loadVars
<1>7. ASSUME NEW f \in Events \cup {"all"}, SetFacet(f) PROVE ContainerInv'
  <2>1. facet' = f /\ Renders(CountOf(pageRows, tailRows, f), follows)
    BY <1>7 DEF SetFacet
  <2>2. Count' = CountOf(pageRows, tailRows, f) /\ CountOf(pageRows, tailRows, f) \in Nat
    BY <1>2, <1>6, <2>1, CountNext, CountType DEF FeedInv
  <2> QED
    BY <1>2, <1>5, <2>1, <2>2, RenderStep
<1>8. ASSUME facet' = facet PROVE Count' = Count
  BY <1>2, <1>6, <1>8, CountNext DEF Count
<1>9. ASSUME JumpToLatest PROVE ContainerInv'
  <2>1. facet' = facet /\ Renders(Count, TRUE)
    BY <1>9 DEF JumpToLatest
  <2> QED
    BY <1>2, <1>8, <2>1, RenderStep
<1>10. ASSUME HandleScroll PROVE ContainerInv'
  <2>1. facet' = facet
    BY <1>10 DEF HandleScroll
  <2> QED
    BY <1>2, <1>8, <1>10, <2>1, HandleScrollStep
<1>11. ASSUME NEW top \in 0 .. MaxTop(Count), Scroll(top) PROVE ContainerInv'
  <2>1. facet' = facet
    BY <1>11 DEF Scroll
  <2> QED
    BY <1>2, <1>8, <1>11, <2>1, ScrollStep
<1>12. ASSUME Pin PROVE ContainerInv'
  <2>1. facet' = facet
    BY <1>12 DEF Pin
  <2> QED
    BY <1>2, <1>8, <1>12, <2>1, PinStep
<1> QED
  BY <1>2, <1>4, <1>7, <1>9, <1>10, <1>11, <1>12

(* A step of the walk leaves the page alone.                               *)
LEMMA WalkerStep ==
  ASSUME ExplorerInv, WalkNext, UNCHANGED <<reader, feedVars, loadVars, tableVars>>
  PROVE  ExplorerInv'
<1> USE DEF feedVars, loadVars, tableVars
<1>1. LogTypeOK /\ LogInv /\ WalkTypeOK /\ WalkInv /\ RowsInv /\ ContainerInv /\ FeedInv
  BY ExplorerParts
<1>2. UNCHANGED logVars
  BY DEF WalkNext, FirstPage, NextPage, Answer
<1>3. LogTypeOK' /\ LogInv' /\ UNCHANGED committed
  BY <1>1, <1>2 DEF LogTypeOK, LogInv, logVars
<1>4. WalkTypeOK' /\ WalkInv'
  BY <1>1, WalkStep
<1>5. \A f : (Filtered(f))' = Filtered(f)
  BY <1>3, FilterStill
<1>6. Count' = Count
  BY <1>5, CountNext DEF Count
<1>7. ContainerInv'
  BY <1>1, <1>6, ContainerStill
<1>8. RowsInv' /\ FeedInv'
  <2>1. (Filtered("all"))' = Filtered("all")
    BY <1>5
  <2> QED
    BY <1>1, <2>1 DEF RowsInv, FeedInv
<1>9. (ExplorerInv <=> /\ LogTypeOK /\ LogInv /\ WalkTypeOK /\ WalkInv
                       /\ RowsInv /\ ContainerInv /\ FeedInv)'
  BY ExplorerParts, PTL
<1> QED
  BY <1>3, <1>4, <1>7, <1>8, <1>9

(* Every step keeps ExplorerInv.                                           *)
LEMMA ExplorerStep == ExplorerInv /\ [ExplorerNext]_explorerVars => ExplorerInv'
<1> SUFFICES ASSUME ExplorerInv, [ExplorerNext]_explorerVars PROVE ExplorerInv'
  OBVIOUS
<1>1. CASE UNCHANGED explorerVars
  <2>1. UNCHANGED <<logVars, walkVars>>
    BY <1>1 DEF explorerVars
  <2>2. /\ RowsInv /\ ContainerInv /\ FeedInv
        /\ \A f : (Filtered(f))' = Filtered(f)
        /\ RowsInv' /\ ContainerInv' /\ FeedInv' => ExplorerInv'
    BY <2>1, PageStep
  <2>3. Count' = Count
    BY <1>1, <2>2, CountNext DEF Count, explorerVars, tableVars, loadVars
  <2>4. ContainerInv'
    BY <1>1, <2>2, <2>3, ContainerStill DEF explorerVars, tableVars
  <2>5. (Filtered("all"))' = Filtered("all")
    BY <2>2
  <2> QED
    BY <1>1, <2>2, <2>4, <2>5 DEF RowsInv, FeedInv, explorerVars, tableVars, loadVars, feedVars
<1>2. CASE LogNext /\ UNCHANGED <<walkVars, reader, feedVars, loadVars, tableVars>>
  BY <1>2, ExplorerLogStep
<1>3. CASE WalkNext /\ UNCHANGED <<reader, feedVars, loadVars, tableVars>>
  BY <1>3, WalkerStep
<1>4. CASE Explorer
  BY <1>4, LoadStep, LoadedStep, ArrivesStep, TableStep DEF Explorer
<1>5. ExplorersLog => LogNext
  BY DEF ExplorersLog, LogNext, Record
<1> QED
  BY <1>1, <1>2, <1>3, <1>4, <1>5 DEF ExplorerNext

-----------------------------------------------------------------------------
(* The theorems of the listing.                                           *)

(* Walks and the Explorer keep ExplorerInv, whatever is written, listed,   *)
(* loaded, streamed, filtered and scrolled, in whatever order (routes.rs,  *)
(* list_logs; AuditTable.tsx).                                             *)
THEOREM ExplorerInductive == ExplorerSpec => []ExplorerInv
BY ExplorerStarts, ExplorerStep, PTL DEF ExplorerSpec

(* Every variable of the walk and of the page keeps its type; no page is   *)
(* larger than MAX_LIMIT, and the container's offset is within its content *)
(* (routes.rs, limit.clamp and page_has_more; AuditTable.tsx, maxTop).     *)
THEOREM ExplorerTypeCorrect == ExplorerSpec => []ExplorerTypeOK
<1>1. ExplorerInv => ExplorerTypeOK
  BY DEF ExplorerInv
<1> QED
  BY <1>1, ExplorerInductive, PTL

(* A walk that came to its end listed every row there was when it began,   *)
(* each once and newest first, whatever page sizes it asked for and        *)
(* whatever was appended meanwhile (routes.rs, list_logs).                 *)
THEOREM WalkIsComplete == ExplorerSpec => []PagingIsExact
<1>1. ExplorerInv => PagingIsExact
  BY DEF ExplorerInv, WalkInv, PagingIsExact, PagingMissesNothing
<1> QED
  BY <1>1, ExplorerInductive, PTL

(* The rows in the viewport are rendered, for any row height, viewport and *)
(* positive overscan (AuditTable.tsx, the windowing).                      *)
THEOREM WindowIsEnough == ExplorerSpec => []ViewportIsRendered
<1>1. ExplorerInv => ViewportIsRendered
  <2> SUFFICES ASSUME ExplorerInv, ~scrolled, ~owed, ~adrift, NEW n \in InView
               PROVE  n \in Window(EffectiveTop, Count)
    BY DEF ViewportIsRendered
  <2>1. LogTypeOK /\ LogInv /\ ContainerInv /\ FeedInv
    BY ExplorerParts
  <2>2. Count \in Nat
    BY <2>1, CountType DEF Count, FeedInv
  <2>3. n \in 0 .. Count - 1 /\ n * RowH < offset + Viewport /\ (n + 1) * RowH > offset
    BY DEF InView
  <2>4. offset \in Nat /\ offset <= MaxTop(Count) /\ MaxTop(Count) \in Nat /\ RowH \in Nat
    BY <2>1, <2>2, MaxTopType, GeometryAssumption DEF ContainerInv
  <2>5. Count > 0
    BY <2>2, <2>3
  <2>6. CASE follows
    <3>1. MaxTop(Count) <= offset + RowH
      BY <2>1, <2>4, <2>5, <2>6 DEF ContainerInv, FollowPinsToLatest
    <3> QED
      BY <2>2, <2>3, <2>4, <2>6, <3>1, WindowCovers DEF EffectiveTop
  <2>7. CASE ~follows
    <3>1. scrollTop = offset
      BY <2>1, <2>7 DEF ContainerInv, OffsetInv
    <3> QED
      BY <2>2, <2>3, <2>4, <2>7, <3>1, WindowCovers DEF EffectiveTop
  <2> QED
    BY <2>6, <2>7
<1> QED
  BY <1>1, ExplorerInductive, PTL

(* In follow mode the container is within a row of its end whenever        *)
(* neither effect nor scroll event is to come (AuditTable.tsx, the follow  *)
(* effect).                                                                *)
THEOREM FollowStays == ExplorerSpec => []FollowPinsToLatest
<1>1. ExplorerInv => FollowPinsToLatest
  BY DEF ExplorerInv
<1> QED
  BY <1>1, ExplorerInductive, PTL
=============================================================================
