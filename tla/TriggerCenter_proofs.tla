------------------------- MODULE TriggerCenter_proofs -------------------------
(***************************************************************************)
(* Proofs about TriggerCenter for any decks, limits, window lengths and    *)
(* number of lockout requests: its types, that a hammer run trips the      *)
(* limit, that no countdown its own result started is early, and that an   *)
(* undisturbed lockout request locks.                                      *)
(***************************************************************************)
EXTENDS TriggerCenter, TLAPS

Endings == {"none", "exhausted", "answered", "limited", "refused"}
Replies == {"none", "ok", "answered", "limited", "refused"}
Steps == {"free", "record", "check", "locked", "left", "reset", "done"}
Retries == 0..Window \cup {None}

ResultType == [status : Endings, retry : Retries, rolled : BOOLEAN]
CardType == [pending : BOOLEAN, result : ResultType, remaining : 0..Window,
             open : BOOLEAN, reused : BOOLEAN]
RunType == [phase : {"idle", "sent", "replied"}, email : Emails \cup {""}, calls : 0..Attempts,
            reply : Replies, retry : Retries, rolled : BOOLEAN, open : BOOLEAN]
JobType == [step : Steps, from : {"nobody", "card"}, id : Identifiers, records : 0..MaxAttempts,
            attempts : 0..MaxAttempts, failed : BOOLEAN, locked : BOOLEAN, left : BOOLEAN, disturbed : BOOLEAN]
DataType == [locked : BOOLEAN, left : BOOLEAN, disturbed : BOOLEAN]
DiagType == [k : {"idle", "busy", "ok", "error"}, data : DataType]

(* The parts of the invariant.  What the variables hold: the page, ...     *)
PageInv ==
  /\ deck \in Decks /\ email \in Emails /\ status \in Statuses
  /\ card \in [Cards -> CardType] /\ run \in [Cards -> RunType]
  /\ limiter \in [used : 0..Limit, left : 0..Window]

(* ... and what the lockout routes and the matrix work on.                 *)
StoreInv ==
  /\ failures \in [Identifiers -> 0..MaxAttempts]
  /\ jobs \in [Slots -> JobType]
  /\ diag \in [Diagnostics -> DiagType]

(* A card is pending while its run is out; as long as the window of its    *)
(* Retry-After is open, the seconds are not fewer than the limiter's.      *)
CardOK(k) ==
  /\ card[k].pending = TRUE <=> run[k].phase # "idle"
  /\ run[k].reply = "ok" => k = "hammer"
  /\ run[k].phase = "replied" => k # "lockout"
  /\ run[k].phase = "idle" => ~(run[k].open = TRUE)
  /\ run[k].open = TRUE => limiter.left > 0
  /\ run[k].open = TRUE /\ run[k].retry # None => run[k].retry >= limiter.left
  /\ card[k].open = TRUE => limiter.left > 0
  /\ card[k].open = TRUE /\ card[k].result.retry # None /\ card[k].reused = FALSE
       => card[k].remaining >= limiter.left

(* The logins a hammer run made are counted in the window it began in.     *)
HammerOK(k) ==
  /\ k = "hammer" /\ run[k].phase = "sent" /\ run[k].rolled = FALSE
       => limiter.used + 1 >= run[k].calls /\ (run[k].calls > 1 => limiter.left > 0)
  /\ k = "hammer" /\ run[k].phase = "replied" /\ run[k].reply = "ok" /\ run[k].rolled = FALSE
       => limiter.used >= run[k].calls /\ limiter.left > 0
  /\ card[k].result.status = "exhausted" => card[k].result.rolled = TRUE

(* An undisturbed lockout request finds the failures it recorded.          *)
JobOK(s) ==
  /\ jobs[s].step = "record" => jobs[s].records < MaxAttempts
  /\ jobs[s].step = "check" => jobs[s].records > 0
  /\ jobs[s].step = "reset" => jobs[s].records = 0 /\ jobs[s].from = "nobody"
  /\ jobs[s].step \in {"locked", "left"} => jobs[s].records > 0
  /\ jobs[s].step = "done" /\ jobs[s].from = "card" /\ jobs[s].failed = FALSE => jobs[s].records > 0
  /\ jobs[s].step \in {"record", "check"} /\ jobs[s].disturbed = FALSE
       => failures[jobs[s].id] >= jobs[s].records
  /\ jobs[s].step \in {"locked", "left"} /\ jobs[s].disturbed = FALSE
       => failures[jobs[s].id] = MaxAttempts
  /\ jobs[s].step = "left" /\ jobs[s].disturbed = FALSE => jobs[s].locked = TRUE
  /\ jobs[s].step = "done" /\ jobs[s].records > 0 /\ jobs[s].failed = FALSE /\ jobs[s].disturbed = FALSE
       => jobs[s].locked = TRUE /\ jobs[s].left = TRUE
  /\ jobs[s].disturbed = FALSE => jobs[s].attempts >= jobs[s].records

(* One lockout request is waited for, by the card of the page at hand.     *)
WaitInv ==
  /\ \A s, t \in Slots : jobs[s].from = "card" /\ jobs[t].from = "card" => s = t
  /\ \A s \in Slots : jobs[s].from = "card" =>
       /\ jobs[s].step # "free"
       /\ OnAccount => "force" \in deck /\ diag["force"].k = "busy"
       /\ ~OnAccount => "lockout" \in deck /\ card["lockout"].pending = TRUE

BadgeInv ==
  "force" \in deck /\ diag["force"].k = "ok"
    => \/ diag["force"].data.left = TRUE
       \/ diag["force"].data.disturbed = TRUE

CardsInv == \A k \in Cards : CardOK(k) /\ HammerOK(k)
JobsInv == \A s \in Slots : JobOK(s)

IndInv == PageInv /\ StoreInv /\ CardsInv /\ JobsInv /\ WaitInv /\ BadgeInv

-----------------------------------------------------------------------------
(* The invariant implies the properties.                                   *)
LEMMA InvImplies ==
  IndInv => TypeOK /\ CountdownNeverEarly /\ HammerTripsLimit /\ UndisturbedForceLocks
<1> SUFFICES ASSUME IndInv
             PROVE  TypeOK /\ CountdownNeverEarly /\ HammerTripsLimit /\ UndisturbedForceLocks
  OBVIOUS
<1>1. ASSUME NEW k \in Cards
      PROVE  /\ card[k].pending \in BOOLEAN /\ card[k].open \in BOOLEAN /\ card[k].reused \in BOOLEAN
             /\ card[k].result.rolled \in BOOLEAN
             /\ card[k].remaining \in 0..Window /\ run[k].calls \in 0..Attempts
             /\ CardOK(k) /\ HammerOK(k)
  <2>1. card[k] \in CardType /\ run[k] \in RunType
    BY DEF IndInv, PageInv
  <2>2. card[k].result \in ResultType
    BY <2>1 DEF CardType
  <2> QED
    BY <2>1, <2>2 DEF IndInv, CardsInv, CardType, RunType, ResultType
<1>2. CountdownNeverEarly
  BY <1>1 DEF CardOK, CountdownNeverEarly
<1>3. HammerTripsLimit
  BY <1>1 DEF HammerOK, HammerTripsLimit
<1>4. ASSUME NEW s \in Slots
      PROVE  /\ jobs[s].failed \in BOOLEAN /\ jobs[s].disturbed \in BOOLEAN
             /\ jobs[s].locked \in BOOLEAN /\ jobs[s].left \in BOOLEAN
             /\ jobs[s].records \in 0..MaxAttempts /\ jobs[s].attempts \in 0..MaxAttempts /\ JobOK(s)
  <2>1. jobs[s] \in JobType
    BY DEF IndInv, StoreInv
  <2> QED
    BY <2>1 DEF IndInv, JobsInv, JobType
<1>5. LockoutBadge \in {"locked", "lockout triggered"} => diag["force"].data.disturbed
  <2>1. CASE "force" \notin deck \/ diag["force"].k # "ok"
    BY <2>1 DEF LockoutBadge
  <2>2. CASE "force" \in deck /\ diag["force"].k = "ok"
    <3>1. "force" \in Diagnostics
      BY <2>2 DEF IndInv, PageInv, Diagnostics, AccountCards
    <3>2. diag["force"].data \in DataType
      BY <3>1 DEF IndInv, StoreInv, DiagType
    <3>3. diag["force"].data.left \in BOOLEAN /\ diag["force"].data.disturbed \in BOOLEAN
      BY <3>2 DEF DataType
    <3>4. CASE diag["force"].data.left = TRUE
      BY <2>2, <3>4 DEF LockoutBadge
    <3>5. CASE diag["force"].data.disturbed = TRUE
      BY <3>5
    <3> QED
      BY <2>2, <3>4, <3>5 DEF IndInv, BadgeInv
  <2> QED
    BY <2>1, <2>2
<1>6. UndisturbedForceLocks
  BY <1>4, <1>5 DEF JobOK, UndisturbedForceLocks
<1>7. TypeOK
  <2>1. limiter.used \in 0..Limit /\ limiter.left \in 0..Window
    BY DEF IndInv, PageInv
  <2>2. \A k \in Cards : card[k].pending <=> run[k].phase # "idle"
    BY <1>1 DEF CardOK
  <2> QED
    BY <1>1, <1>4, <2>1, <2>2 DEF IndInv, PageInv, StoreInv, WaitInv, TypeOK
<1> QED
  BY <1>2, <1>3, <1>6, <1>7

LEMMA FreshTypes ==
  /\ NoRun.phase = "idle" /\ NoRun.reply = "none" /\ NoRun.open = FALSE
  /\ NoRun \in RunType /\ FreshCard \in CardType /\ NoJob \in JobType
  /\ Idle \in DiagType /\ Unknown \in DataType
<1>1. 0 \in 0..Window /\ 0 \in 0..Attempts /\ 0 \in 0..MaxAttempts
  BY TriggerAssumption
<1>2. NoRun \in RunType
  BY <1>1 DEF NoRun, RunType, Replies, Retries
<1>3. NoResult \in ResultType
  BY DEF NoResult, ResultType, Endings, Retries
<1>4. FreshCard \in CardType
  BY <1>1, <1>3 DEF FreshCard, CardType
<1>5. NoJob \in JobType
  BY <1>1 DEF NoJob, JobType, Steps, Identifiers
<1>6. Unknown \in DataType
  BY DEF Unknown, DataType
<1>7. Idle \in DiagType
  BY <1>6 DEF Idle, DiagType
<1>8. NoRun.phase = "idle" /\ NoRun.reply = "none" /\ NoRun.open = FALSE
  BY DEF NoRun
<1> QED
  BY <1>2, <1>4, <1>5, <1>6, <1>7, <1>8

LEMMA InvInit == Init => IndInv
<1> SUFFICES ASSUME Init PROVE IndInv
  OBVIOUS
<1>1. PageInv
  <2>1. email \in Emails /\ status \in Statuses
    BY TriggerAssumption DEF Init, Statuses
  <2>2. limiter \in [used : 0..Limit, left : 0..Window]
    BY TriggerAssumption DEF Init
  <2> QED
    BY <2>1, <2>2, FreshTypes DEF Init, PageInv
<1>2. StoreInv
  BY FreshTypes, TriggerAssumption DEF Init, StoreInv
<1>3. CardsInv
  BY DEF Init, CardsInv, CardOK, HammerOK, FreshCard, NoRun, NoResult, None
<1>4. JobsInv /\ WaitInv
  BY DEF Init, JobsInv, JobOK, WaitInv, NoJob
<1>5. BadgeInv
  <2>1. ASSUME "force" \in deck PROVE diag["force"].k = "idle"
    <3>1. "force" \in Diagnostics
      BY <2>1 DEF Init, Diagnostics, AccountCards
    <3> QED
      BY <3>1 DEF Init, Idle
  <2> QED
    BY <2>1 DEF BadgeInv
<1> QED
  BY <1>1, <1>2, <1>3, <1>4, <1>5 DEF IndInv

-----------------------------------------------------------------------------
(* Steps of the lockout routes.  They leave the page alone.                *)
LEMMA JobsKeep ==
  ASSUME IndInv, UNCHANGED UncheckedByJobs,
         failures' \in [Identifiers -> 0..MaxAttempts], jobs' \in [Slots -> JobType],
         JobsInv',
         \A s \in Slots : jobs'[s].from = "card" => jobs[s].from = "card" /\ jobs'[s].step # "free"
  PROVE  IndInv'
<1>1. UNCHANGED <<deck, email, card, run, facets, limiter, status, diag, inspector>>
  BY DEF UncheckedByJobs, triggerVars, accountVars
<1>2. PageInv' /\ StoreInv'
  BY <1>1 DEF IndInv, PageInv, StoreInv
<1>3. CardsInv'
  BY <1>1 DEF IndInv, CardsInv, CardOK, HammerOK
<1>4. WaitInv' /\ BadgeInv'
  BY <1>1 DEF IndInv, WaitInv, BadgeInv, OnAccount
<1> QED
  BY <1>2, <1>3, <1>4 DEF IndInv

(* A step of one request that leaves the failures alone.                   *)
LEMMA JobStepKeeps ==
  ASSUME IndInv, UNCHANGED <<failures, UncheckedByJobs>>, NEW s \in Slots, NEW new \in JobType,
         jobs' = [jobs EXCEPT ![s] = new], JobOK(s)',
         new.from = "card" => jobs[s].from = "card" /\ new.step # "free"
  PROVE  IndInv'
<1>1. jobs \in [Slots -> JobType] /\ failures \in [Identifiers -> 0..MaxAttempts]
      /\ failures' = failures
  BY DEF IndInv, StoreInv
<1>2. jobs' \in [Slots -> JobType] /\ failures' \in [Identifiers -> 0..MaxAttempts]
  BY <1>1
<1>3. ASSUME NEW t \in Slots PROVE JobOK(t)'
  <2>1. CASE t = s
    BY <2>1
  <2>2. CASE t # s
    <3>1. jobs'[t] = jobs[t] /\ JobOK(t)
      BY <1>1, <2>2 DEF IndInv, JobsInv
    <3> QED
      BY <1>1, <3>1 DEF JobOK
  <2> QED
    BY <2>1, <2>2
<1>4. \A t \in Slots : jobs'[t].from = "card" => jobs[t].from = "card" /\ jobs'[t].step # "free"
  BY <1>1 DEF IndInv, WaitInv
<1> QED
  BY <1>2, <1>3, <1>4, JobsKeep DEF JobsInv

(* What is known of a request.                                             *)
LEMMA JobFacts ==
  ASSUME IndInv, NEW s \in Slots
  PROVE  /\ jobs[s] \in JobType /\ JobOK(s)
         /\ jobs[s].step \in Steps /\ jobs[s].from \in {"nobody", "card"}
         /\ jobs[s].id \in Identifiers /\ jobs[s].records \in 0..MaxAttempts
         /\ jobs[s].attempts \in 0..MaxAttempts
         /\ failures[jobs[s].id] \in 0..MaxAttempts
         /\ Locked(jobs[s].id) \in BOOLEAN
         /\ MaxAttempts \in Nat
         /\ jobs[s].failed \in BOOLEAN /\ jobs[s].disturbed \in BOOLEAN
<1>1. jobs[s] \in JobType /\ JobOK(s)
  BY DEF IndInv, StoreInv, JobsInv
<1> QED
  BY <1>1, TriggerAssumption DEF JobType, IndInv, StoreInv, Locked

LEMMA RecordFailureKeeps == ASSUME IndInv, NEW s \in Slots, RecordFailure(s) PROVE IndInv'
<1> DEFINE id == jobs[s].id
           more == IF Locked(id) THEN MaxAttempts ELSE failures[id] + 1
           new == [jobs[s] EXCEPT !.step = "check", !.records = jobs[s].records + 1,
                                  !.attempts = more]
<1>a. jobs[s].step = "record" /\ UNCHANGED UncheckedByJobs
  BY DEF RecordFailure
<1>b. failures' = [failures EXCEPT ![id] = more]
  BY DEF RecordFailure
<1>c. jobs' = [jobs EXCEPT ![s] = new]
  BY JobFacts DEF RecordFailure, IndInv, StoreInv, JobType
<1>1. /\ jobs[s].step = "record"
      /\ failures' = [failures EXCEPT ![id] = more]
      /\ jobs' = [jobs EXCEPT ![s] = new]
      /\ UNCHANGED UncheckedByJobs
  BY <1>a, <1>b, <1>c
<1>2. /\ jobs[s] \in JobType /\ JobOK(s) /\ id \in Identifiers /\ jobs[s].records \in 0..MaxAttempts
      /\ MaxAttempts \in Nat /\ jobs[s].records < MaxAttempts
  BY <1>1, JobFacts DEF JobOK
<1>d. more \in 0..MaxAttempts
  BY JobFacts DEF Locked
<1>3. /\ new \in JobType /\ new.step = "check" /\ new.records = jobs[s].records + 1
      /\ new.attempts = more
      /\ new.id = id /\ new.from = jobs[s].from /\ new.disturbed = jobs[s].disturbed
  <2> HIDE DEF more
  <2>1. jobs[s].records + 1 \in 0..MaxAttempts
    BY <1>2
  <2> QED
    BY <1>2, <1>d, <2>1 DEF JobType, Steps
<1> HIDE DEF new
<1>4. jobs \in [Slots -> JobType] /\ failures \in [Identifiers -> 0..MaxAttempts]
  BY DEF IndInv, StoreInv
<1>5. /\ jobs' \in [Slots -> JobType] /\ jobs'[s] = new
      /\ \A t \in Slots : t # s => jobs'[t] = jobs[t]
  BY <1>1, <1>3, <1>4
<1>6. /\ failures' \in [Identifiers -> 0..MaxAttempts]
      /\ \A i \in Identifiers : failures'[i] >= failures[i]
      /\ failures'[id] = more
      /\ more = IF failures[id] < MaxAttempts THEN failures[id] + 1 ELSE failures[id]
  BY <1>1, <1>2, <1>4 DEF Locked
<1>7. ASSUME NEW t \in Slots PROVE JobOK(t)'
  <2>1. CASE t = s
    <3>1. jobs[s].disturbed = FALSE => failures'[id] >= jobs[s].records + 1
      BY <1>1, <1>2, <1>4, <1>6 DEF JobOK
    <3> QED
      BY <1>2, <1>3, <1>5, <1>6, <2>1, <3>1 DEF JobOK
  <2>2. CASE t # s
    <3>1. /\ jobs'[t] = jobs[t] /\ JobOK(t) /\ jobs[t].id \in Identifiers
          /\ jobs[t].records \in 0..MaxAttempts
      BY <1>5, <2>2, JobFacts
    <3>2. failures'[jobs[t].id] >= failures[jobs[t].id] /\ failures'[jobs[t].id] \in 0..MaxAttempts
          /\ failures[jobs[t].id] \in 0..MaxAttempts
      BY <1>4, <1>6, <3>1
    <3> QED
      BY <1>2, <3>1, <3>2 DEF JobOK
  <2> QED
    BY <2>1, <2>2
<1>8. \A t \in Slots : jobs'[t].from = "card" => jobs[t].from = "card" /\ jobs'[t].step # "free"
  BY <1>3, <1>5 DEF IndInv, WaitInv
<1> QED
  BY <1>1, <1>5, <1>6, <1>7, <1>8, JobsKeep DEF JobsInv

LEMMA CheckLockKeeps == ASSUME IndInv, NEW s \in Slots, CheckLock(s) PROVE IndInv'
<1> DEFINE step == IF Locked(jobs[s].id) \/ jobs[s].records = MaxAttempts THEN "locked" ELSE "record"
           new == [jobs[s] EXCEPT !.step = step]
<1>1. /\ jobs[s].step = "check" /\ jobs' = [jobs EXCEPT ![s] = new]
      /\ UNCHANGED <<failures, UncheckedByJobs>>
  BY DEF CheckLock, IndInv, StoreInv
<1>2. /\ jobs[s] \in JobType /\ JobOK(s) /\ jobs[s].records \in 0..MaxAttempts
      /\ failures[jobs[s].id] \in 0..MaxAttempts /\ MaxAttempts \in Nat
  BY JobFacts
<1>3. /\ new \in JobType /\ new.step = step /\ step \in {"locked", "record"}
      /\ new.records = jobs[s].records /\ new.attempts = jobs[s].attempts
      /\ new.id = jobs[s].id /\ new.from = jobs[s].from /\ new.disturbed = jobs[s].disturbed
  BY <1>2 DEF JobType, Steps
<1>4. /\ step = "record" => jobs[s].records < MaxAttempts
      /\ jobs[s].records > 0
      /\ jobs[s].disturbed = FALSE => failures[jobs[s].id] >= jobs[s].records
      /\ step = "locked" /\ jobs[s].disturbed = FALSE => failures[jobs[s].id] = MaxAttempts
  BY <1>1, <1>2 DEF JobOK, Locked
<1>5. jobs'[s] = new /\ failures' = failures
  BY <1>1 DEF IndInv, StoreInv
<1>0. jobs[s].disturbed = FALSE => jobs[s].attempts >= jobs[s].records
  BY <1>2 DEF JobOK
<1> HIDE DEF new, step
<1>6. JobOK(s)'
  BY <1>0, <1>3, <1>4, <1>5 DEF JobOK
<1> QED
  BY <1>1, <1>3, <1>6, JobStepKeeps

LEMMA ReadLockKeeps == ASSUME IndInv, NEW s \in Slots, ReadLock(s) PROVE IndInv'
<1> DEFINE new == [jobs[s] EXCEPT !.step = "left", !.locked = Locked(jobs[s].id)]
<1>1. /\ jobs[s].step = "locked" /\ jobs' = [jobs EXCEPT ![s] = new]
      /\ UNCHANGED <<failures, UncheckedByJobs>>
  BY DEF ReadLock, IndInv, StoreInv
<1>2. jobs[s] \in JobType /\ JobOK(s) /\ Locked(jobs[s].id) \in BOOLEAN
  BY JobFacts
<1>3. /\ new \in JobType /\ new.step = "left" /\ new.records = jobs[s].records /\ new.attempts = jobs[s].attempts
      /\ new.locked = Locked(jobs[s].id)
      /\ new.id = jobs[s].id /\ new.from = jobs[s].from /\ new.disturbed = jobs[s].disturbed
  BY <1>2 DEF JobType, Steps
<1>4. jobs'[s] = new /\ failures' = failures
  BY <1>1 DEF IndInv, StoreInv
<1> HIDE DEF new
<1>5. JobOK(s)'
  BY <1>1, <1>2, <1>3, <1>4 DEF JobOK, Locked
<1> QED
  BY <1>1, <1>3, <1>5, JobStepKeeps

LEMMA ReadRemainingKeeps == ASSUME IndInv, NEW s \in Slots, ReadRemaining(s) PROVE IndInv'
<1> DEFINE new == [jobs[s] EXCEPT !.step = "done", !.left = Locked(jobs[s].id)]
<1>1. /\ jobs[s].step = "left" /\ jobs' = [jobs EXCEPT ![s] = new]
      /\ UNCHANGED <<failures, UncheckedByJobs>>
  BY DEF ReadRemaining, IndInv, StoreInv
<1>2. jobs[s] \in JobType /\ JobOK(s) /\ Locked(jobs[s].id) \in BOOLEAN
  BY JobFacts
<1>3. /\ new \in JobType /\ new.step = "done" /\ new.records = jobs[s].records /\ new.attempts = jobs[s].attempts
      /\ new.left = Locked(jobs[s].id) /\ new.locked = jobs[s].locked
      /\ new.id = jobs[s].id /\ new.from = jobs[s].from /\ new.disturbed = jobs[s].disturbed
  BY <1>2 DEF JobType, Steps
<1>4. jobs'[s] = new /\ failures' = failures
  BY <1>1 DEF IndInv, StoreInv
<1> HIDE DEF new
<1>5. JobOK(s)'
  BY <1>1, <1>2, <1>3, <1>4 DEF JobOK, Locked
<1> QED
  BY <1>1, <1>3, <1>5, JobStepKeeps

LEMMA StoreFailsKeeps == ASSUME IndInv, NEW s \in Slots, StoreFails(s) PROVE IndInv'
<1> DEFINE new == [jobs[s] EXCEPT !.step = "done", !.failed = TRUE]
<1>1. /\ jobs' = [jobs EXCEPT ![s] = new] /\ UNCHANGED <<failures, UncheckedByJobs>>
  BY DEF StoreFails, IndInv, StoreInv
<1>2. jobs[s] \in JobType /\ JobOK(s)
  BY JobFacts
<1>3. new \in JobType /\ new.step = "done" /\ new.failed = TRUE /\ new.from = jobs[s].from
      /\ new.disturbed = jobs[s].disturbed /\ new.attempts = jobs[s].attempts
      /\ new.records = jobs[s].records
  BY <1>2 DEF JobType, Steps
<1>4. jobs'[s] = new
  BY <1>1 DEF IndInv, StoreInv
<1> HIDE DEF new
<1>5. JobOK(s)'
  BY <1>2, <1>3, <1>4 DEF JobOK
<1> QED
  BY <1>1, <1>3, <1>5, JobStepKeeps

(* A request that takes a free slot, or leaves one, for another client.    *)
LEMMA OtherClientKeeps ==
  ASSUME IndInv, NEW s \in Slots, NEW id \in Identifiers, NEW step \in {"record", "reset"},
         OtherClient(s, id, step)
  PROVE  IndInv'
<1> DEFINE new == NewJob("nobody", id, step)
<1>1. jobs' = [jobs EXCEPT ![s] = new] /\ UNCHANGED <<failures, UncheckedByJobs>>
  BY DEF OtherClient
<1>2. /\ new \in JobType /\ new.step = step /\ new.from = "nobody" /\ new.id = id
      /\ new.records = 0 /\ new.attempts = 0 /\ new.disturbed = FALSE
  BY FreshTypes DEF NewJob, NoJob, JobType, Steps
<1>3. jobs'[s] = new /\ failures' = failures /\ failures[id] \in 0..MaxAttempts
      /\ MaxAttempts \in Nat \ {0}
  BY <1>1, TriggerAssumption DEF IndInv, StoreInv
<1> HIDE DEF new
<1>4. JobOK(s)'
  BY <1>2, <1>3 DEF JobOK
<1> QED
  BY <1>1, <1>2, <1>4, JobStepKeeps

LEMMA OtherDoneKeeps == ASSUME IndInv, NEW s \in Slots, OtherDone(s) PROVE IndInv'
<1>1. jobs' = [jobs EXCEPT ![s] = NoJob] /\ UNCHANGED <<failures, UncheckedByJobs>>
  BY DEF OtherDone
<1>2. NoJob \in JobType /\ NoJob.step = "free" /\ NoJob.from = "nobody"
      /\ NoJob.attempts = 0 /\ NoJob.records = 0
  BY FreshTypes DEF NoJob
<1>3. jobs'[s] = NoJob
  BY <1>1 DEF IndInv, StoreInv
<1>4. JobOK(s)'
  BY <1>2, <1>3 DEF JobOK
<1> QED
  BY <1>1, <1>2, <1>4, JobStepKeeps

(* Failures that are cleared disturb every request for the identifier.     *)
LEMMA ClearedFacts ==
  ASSUME IndInv, NEW id \in Identifiers, NEW t \in Slots
  PROVE  /\ Cleared(id) \in [Slots -> JobType]
         /\ Cleared(id)[t].step = jobs[t].step /\ Cleared(id)[t].from = jobs[t].from
         /\ Cleared(id)[t].id = jobs[t].id /\ Cleared(id)[t].records = jobs[t].records
         /\ Cleared(id)[t].failed = jobs[t].failed /\ Cleared(id)[t].attempts = jobs[t].attempts
         /\ Cleared(id)[t].locked = jobs[t].locked /\ Cleared(id)[t].left = jobs[t].left
         /\ jobs[t].id = id => Cleared(id)[t].disturbed = TRUE
         /\ jobs[t].id # id => Cleared(id)[t].disturbed = jobs[t].disturbed
<1>1. ASSUME NEW u \in Slots
      PROVE  jobs[u] \in JobType /\ [jobs[u] EXCEPT !.disturbed = TRUE] \in JobType
  <2>1. jobs[u] \in JobType
    BY DEF IndInv, StoreInv
  <2> QED
    BY <2>1 DEF JobType
<1>2. Cleared(id) \in [Slots -> JobType]
  BY <1>1 DEF Cleared
<1>3. jobs[t] \in JobType
  BY <1>1
<1>4. Cleared(id)[t] = IF jobs[t].id = id THEN [jobs[t] EXCEPT !.disturbed = TRUE] ELSE jobs[t]
  BY DEF Cleared
<1>5. CASE jobs[t].id = id
  BY <1>2, <1>3, <1>4, <1>5 DEF JobType
<1>6. CASE jobs[t].id # id
  BY <1>2, <1>3, <1>4, <1>6
<1> QED
  BY <1>5, <1>6

LEMMA ClearingKeeps ==
  ASSUME IndInv, NEW id \in Identifiers, NEW t \in Slots,
         failures' = [failures EXCEPT ![id] = 0], jobs'[t] = Cleared(id)[t]
  PROVE  JobOK(t)'
<1>1. JobOK(t) /\ jobs[t].id \in Identifiers
  BY JobFacts
<1>2. failures \in [Identifiers -> 0..MaxAttempts]
  BY DEF IndInv, StoreInv
<1>0. /\ jobs'[t].step = jobs[t].step /\ jobs'[t].from = jobs[t].from
      /\ jobs'[t].id = jobs[t].id /\ jobs'[t].records = jobs[t].records
      /\ jobs'[t].failed = jobs[t].failed /\ jobs'[t].attempts = jobs[t].attempts
      /\ jobs'[t].locked = jobs[t].locked /\ jobs'[t].left = jobs[t].left
      /\ jobs[t].id = id => jobs'[t].disturbed = TRUE
      /\ jobs[t].id # id => jobs'[t].disturbed = jobs[t].disturbed
  <2>1. /\ Cleared(id)[t].step = jobs[t].step /\ Cleared(id)[t].from = jobs[t].from
        /\ Cleared(id)[t].id = jobs[t].id /\ Cleared(id)[t].records = jobs[t].records
        /\ Cleared(id)[t].failed = jobs[t].failed /\ Cleared(id)[t].attempts = jobs[t].attempts
        /\ Cleared(id)[t].locked = jobs[t].locked /\ Cleared(id)[t].left = jobs[t].left
        /\ jobs[t].id = id => Cleared(id)[t].disturbed = TRUE
        /\ jobs[t].id # id => Cleared(id)[t].disturbed = jobs[t].disturbed
    BY ClearedFacts
  <2> QED
    BY <2>1, Zenon
<1>3. CASE jobs[t].id = id
  BY <1>0, <1>1, <1>3 DEF JobOK
<1>4. CASE jobs[t].id # id
  <2>1. failures'[jobs[t].id] = failures[jobs[t].id]
    BY <1>1, <1>2, <1>4
  <2> QED
    BY <1>0, <1>1, <1>4, <2>1 DEF JobOK
<1> QED
  BY <1>3, <1>4

LEMMA ExpireKeeps == ASSUME IndInv, NEW id \in Identifiers, Expire(id) PROVE IndInv'
<1>1. failures' = [failures EXCEPT ![id] = 0] /\ jobs' = Cleared(id) /\ UNCHANGED UncheckedByJobs
  BY DEF Expire
<1>2. failures' \in [Identifiers -> 0..MaxAttempts] /\ jobs' \in [Slots -> JobType]
  <2>1. Cleared(id) \in [Slots -> JobType]
    BY DEF Cleared, IndInv, StoreInv, JobType
  <2> QED
    BY <1>1, <2>1, TriggerAssumption DEF IndInv, StoreInv
<1>3. JobsInv'
  BY <1>1, ClearingKeeps DEF JobsInv
<1>4. \A t \in Slots : jobs'[t].from = "card" => jobs[t].from = "card" /\ jobs'[t].step # "free"
  BY <1>1, ClearedFacts DEF IndInv, WaitInv
<1> QED
  BY <1>1, <1>2, <1>3, <1>4, JobsKeep

LEMMA ResetFailuresKeeps == ASSUME IndInv, NEW s \in Slots, ResetFailures(s) PROVE IndInv'
<1> DEFINE id == jobs[s].id
           new == [Cleared(id)[s] EXCEPT !.step = "done"]
<1>0. id \in Identifiers /\ JobOK(s)
  BY JobFacts
<1>1. Cleared(id) \in [Slots -> JobType] /\ Cleared(id)[s] \in JobType
  BY <1>0, ClearedFacts
<1>2. /\ jobs[s].step = "reset" /\ failures' = [failures EXCEPT ![id] = 0]
      /\ jobs' = [Cleared(id) EXCEPT ![s] = new] /\ UNCHANGED UncheckedByJobs
  BY <1>1 DEF ResetFailures
<1>3. /\ new \in JobType /\ new.step = "done" /\ new.records = Cleared(id)[s].records
      /\ new.from = Cleared(id)[s].from /\ new.attempts \in Nat
  BY <1>1 DEF JobType, Steps
<1>4. new.records = 0 /\ new.from = "nobody"
  <2>1. Cleared(id)[s].records = jobs[s].records /\ Cleared(id)[s].from = jobs[s].from
    BY <1>0, ClearedFacts
  <2> QED
    BY <1>0, <1>2, <1>3, <2>1 DEF JobOK
<1> HIDE DEF new
<1>5. /\ failures' \in [Identifiers -> 0..MaxAttempts] /\ jobs' \in [Slots -> JobType]
      /\ jobs'[s] = new /\ \A t \in Slots : t # s => jobs'[t] = Cleared(id)[t]
  <2>1. failures \in [Identifiers -> 0..MaxAttempts] /\ 0 \in 0..MaxAttempts
    BY TriggerAssumption DEF IndInv, StoreInv
  <2>2. failures' \in [Identifiers -> 0..MaxAttempts]
    BY <1>0, <1>2, <2>1
  <2> QED
    BY <1>1, <1>2, <1>3, <2>2
<1>6. ASSUME NEW t \in Slots PROVE JobOK(t)'
  <2>1. CASE t = s
    BY <1>3, <1>4, <1>5, <2>1 DEF JobOK
  <2>2. CASE t # s
    BY <1>0, <1>2, <1>5, <2>2, ClearingKeeps
  <2> QED
    BY <2>1, <2>2
<1>7. \A t \in Slots : jobs'[t].from = "card" => jobs[t].from = "card" /\ jobs'[t].step # "free"
  <2>1. ASSUME NEW t \in Slots, t # s
        PROVE  jobs'[t].from = jobs[t].from /\ jobs'[t].step = jobs[t].step
    <3>1. Cleared(id)[t].from = jobs[t].from /\ Cleared(id)[t].step = jobs[t].step
      BY <1>0, ClearedFacts
    <3> QED
      BY <1>5, <2>1, <3>1
  <2> QED
    BY <1>4, <1>5, <2>1 DEF IndInv, WaitInv
<1> QED
  BY <1>2, <1>5, <1>6, <1>7, JobsKeep DEF JobsInv

-----------------------------------------------------------------------------
(* Steps of the cards.                                                     *)
LEMMA LimiterFacts ==
  IndInv => /\ limiter \in [used : 0..Limit, left : 0..Window]
            /\ limiter.used \in 0..Limit /\ limiter.left \in 0..Window
            /\ Limit \in Nat \ {0} /\ Window \in Nat \ {0} /\ Attempts \in Nat /\ Attempts > Limit
BY TriggerAssumption DEF IndInv, PageInv

LEMMA CountedFacts ==
  ASSUME IndInv, ~Limited
  PROVE  /\ Counted \in [used : 0..Limit, left : 0..Window]
         /\ limiter.left = 0 => Counted.used = 1 /\ Counted.left = Window
         /\ limiter.left > 0 => Counted.used = limiter.used + 1 /\ Counted.left = limiter.left
<1>1. CASE limiter.left = 0
  <2>1. Counted = [used |-> 1, left |-> Window]
    BY <1>1 DEF Counted
  <2> QED
    BY <1>1, <2>1, LimiterFacts
<1>2. CASE limiter.left > 0
  <2>1. Counted = [limiter EXCEPT !.used = @ + 1]
    BY <1>2 DEF Counted
  <2>2. limiter.used + 1 \in 0..Limit
    BY <1>2, LimiterFacts DEF Limited
  <2> QED
    BY <1>2, <2>1, <2>2, LimiterFacts
<1> QED
  BY <1>1, <1>2, LimiterFacts

(* What is known of a card and its run.                                    *)
LEMMA CardFacts ==
  ASSUME IndInv, NEW k \in Cards
  PROVE  /\ card[k] \in CardType /\ run[k] \in RunType /\ CardOK(k) /\ HammerOK(k)
         /\ card[k].pending \in BOOLEAN /\ card[k].open \in BOOLEAN /\ card[k].reused \in BOOLEAN
         /\ card[k].remaining \in 0..Window /\ card[k].result \in ResultType
         /\ card[k].result.retry \in Retries
         /\ run[k].calls \in 0..Attempts /\ run[k].email \in Emails \cup {""}
         /\ run[k].retry \in Retries /\ run[k].rolled \in BOOLEAN /\ run[k].open \in BOOLEAN
         /\ run[k].reply \in Replies
<1>1. card[k] \in CardType /\ run[k] \in RunType /\ CardOK(k) /\ HammerOK(k)
  BY DEF IndInv, PageInv, CardsInv
<1>2. card[k].result \in ResultType
  BY <1>1 DEF CardType
<1> QED
  BY <1>1, <1>2 DEF CardType, RunType, ResultType

(* The limiter is left alone, or counts one login more.                    *)
LimiterMoves == limiter' = limiter \/ (~Limited /\ limiter' = Counted)

LEMMA LimiterMovesFacts ==
  ASSUME IndInv, LimiterMoves
  PROVE  /\ limiter' \in [used : 0..Limit, left : 0..Window]
         /\ limiter'.used \in 0..Limit /\ limiter'.left \in 0..Window
         /\ limiter.left > 0 => limiter'.left = limiter.left /\ limiter'.used >= limiter.used
BY LimiterFacts, CountedFacts DEF LimiterMoves

LEMMA CardStepKeeps ==
  ASSUME IndInv, NEW k \in Cards, NEW c \in CardType, NEW r \in RunType,
         card' = [card EXCEPT ![k] = c], run' = [run EXCEPT ![k] = r], LimiterMoves,
         UNCHANGED <<deck, email, failures, status, diag>>,
         CardOK(k)', HammerOK(k)', jobs' \in [Slots -> JobType], JobsInv', WaitInv'
  PROVE  IndInv'
<1>1. card \in [Cards -> CardType] /\ run \in [Cards -> RunType]
  BY DEF IndInv, PageInv
<1>2. PageInv' /\ StoreInv'
  BY <1>1, LimiterMovesFacts DEF IndInv, PageInv, StoreInv
<1>3. ASSUME NEW j \in Cards PROVE CardOK(j)' /\ HammerOK(j)'
  <2>1. CASE j = k
    BY <2>1
  <2>2. CASE j # k
    <3>1. card'[j] = card[j] /\ run'[j] = run[j]
      BY <1>1, <2>2
    <3>2. CardOK(j)'
      BY <3>1, CardFacts, LimiterFacts, LimiterMovesFacts DEF CardOK
    <3>3. /\ HammerOK(j) /\ run[j].calls \in 0..Attempts
      BY CardFacts
    <3>4. /\ limiter.left \in 0..Window /\ limiter.used \in 0..Limit /\ Limit \in Nat
          /\ Window \in Nat /\ Attempts \in Nat
          /\ limiter'.left \in 0..Window /\ limiter'.used \in 0..Limit
          /\ limiter.left > 0 => limiter'.left = limiter.left /\ limiter'.used >= limiter.used
      BY LimiterFacts, LimiterMovesFacts
    <3>5. HammerOK(j)'
      <4>1. CASE limiter.left > 0
        BY <3>1, <3>3, <3>4, <4>1 DEF HammerOK
      <4>2. CASE ~(limiter.left > 0)
        BY <3>1, <3>3, <3>4, <4>2 DEF HammerOK
      <4> QED
        BY <4>1, <4>2
    <3> QED
      BY <3>2, <3>5
  <2> QED
    BY <2>1, <2>2
<1>4. BadgeInv'
  BY DEF IndInv, BadgeInv
<1> QED
  BY <1>2, <1>3, <1>4 DEF IndInv, CardsInv

(* The requests are left alone, and so is the lockout card.                *)
LEMMA JobsAsBefore ==
  ASSUME IndInv, NEW k \in Cards, k # "lockout", NEW c \in CardType,
         card' = [card EXCEPT ![k] = c], UNCHANGED <<deck, failures, diag, jobs>>
  PROVE  jobs' \in [Slots -> JobType] /\ JobsInv' /\ WaitInv'
<1>1. jobs' \in [Slots -> JobType] /\ JobsInv'
  BY DEF IndInv, StoreInv, JobsInv, JobOK
<1>2. card'["lockout"] = card["lockout"]
  BY DEF IndInv, PageInv
<1> QED
  BY <1>1, <1>2 DEF IndInv, WaitInv, OnAccount

(* The answer under way is not waited for any longer, ...                  *)
LEMMA OrphanedFacts ==
  ASSUME IndInv, jobs' = Orphaned("card"), UNCHANGED failures
  PROVE  jobs' \in [Slots -> JobType] /\ JobsInv' /\ WaitInv'
<1>1. ASSUME NEW s \in Slots
      PROVE  /\ jobs'[s] \in JobType /\ jobs'[s].from = "nobody" /\ JobOK(s)'
  <2>1. /\ jobs[s] \in JobType /\ JobOK(s) /\ jobs[s].from \in {"nobody", "card"}
    BY JobFacts
  <2>2. CASE jobs[s].from = "card"
    <3>1. jobs'[s] = [jobs[s] EXCEPT !.from = "nobody"]
      BY <2>2 DEF Orphaned
    <3>2. /\ jobs'[s] \in JobType /\ jobs'[s].from = "nobody" /\ jobs'[s].step = jobs[s].step
          /\ jobs'[s].id = jobs[s].id /\ jobs'[s].records = jobs[s].records
          /\ jobs'[s].attempts = jobs[s].attempts
      BY <2>1, <3>1 DEF JobType
    <3>3. /\ jobs'[s].failed = jobs[s].failed /\ jobs'[s].locked = jobs[s].locked
          /\ jobs'[s].left = jobs[s].left /\ jobs'[s].disturbed = jobs[s].disturbed
      BY <2>1, <3>1 DEF JobType
    <3>4. JobOK(s)'
      BY <2>1, <3>2, <3>3 DEF JobOK
    <3> QED
      BY <3>2, <3>4
  <2>3. CASE jobs[s].from = "nobody"
    <3>1. jobs'[s] = jobs[s]
      BY <2>3 DEF Orphaned
    <3> QED
      BY <2>1, <2>3, <3>1 DEF JobOK
  <2> QED
    BY <2>1, <2>2, <2>3
<1>2. jobs' = [s \in Slots |-> jobs'[s]]
  BY DEF Orphaned
<1> QED
  BY <1>1, <1>2 DEF JobsInv, WaitInv

(* ... or has been read.                                                   *)
LEMMA ReadFacts ==
  ASSUME IndInv, NEW s \in Slots, jobs[s].from = "card", jobs' = [jobs EXCEPT ![s] = NoJob],
         UNCHANGED failures
  PROVE  jobs' \in [Slots -> JobType] /\ JobsInv' /\ WaitInv'
<1>1. jobs \in [Slots -> JobType] /\ NoJob \in JobType
  BY FreshTypes DEF IndInv, StoreInv
<1>2. ASSUME NEW t \in Slots PROVE jobs'[t].from # "card" /\ JobOK(t)'
  <2>1. CASE t = s
    BY <1>1, <2>1 DEF NoJob, JobOK
  <2>2. CASE t # s
    <3>1. jobs'[t] = jobs[t] /\ JobOK(t)
      BY <1>1, <2>2, JobFacts
    <3> QED
      BY <2>2, <3>1 DEF JobOK, IndInv, WaitInv
  <2> QED
    BY <2>1, <2>2
<1> QED
  BY <1>1, <1>2 DEF JobsInv, WaitInv

(* A new request of the page at hand, which waits for no other.            *)
LEMMA AskedFacts ==
  ASSUME IndInv, NEW s \in Slots, NEW id \in Identifiers,
         jobs' = [jobs EXCEPT ![s] = NewJob("card", id, "record")], UNCHANGED <<deck, failures>>,
         \A t \in Slots : jobs[t].from # "card",
         OnAccount => "force" \in deck /\ diag'["force"].k = "busy",
         ~OnAccount => "lockout" \in deck /\ card'["lockout"].pending = TRUE
  PROVE  jobs' \in [Slots -> JobType] /\ JobsInv' /\ WaitInv'
<1> DEFINE new == NewJob("card", id, "record")
<1>1. /\ new \in JobType /\ new.step = "record" /\ new.id = id /\ new.records = 0
      /\ new.attempts = 0 /\ new.from = "card"
  BY FreshTypes DEF NewJob, NoJob, JobType, Steps
<1>2. /\ jobs \in [Slots -> JobType] /\ failures[id] \in 0..MaxAttempts /\ MaxAttempts \in Nat \ {0}
  BY TriggerAssumption DEF IndInv, StoreInv
<1> HIDE DEF new
<1>3. /\ jobs' \in [Slots -> JobType] /\ jobs'[s] = new
      /\ \A t \in Slots : t # s => jobs'[t] = jobs[t]
  BY <1>1, <1>2 DEF new
<1>4. ASSUME NEW t \in Slots PROVE JobOK(t)'
  <2>1. CASE t = s
    BY <1>1, <1>2, <1>3, <2>1 DEF JobOK
  <2>2. CASE t # s
    BY <1>3, <2>2, JobFacts DEF JobOK
  <2> QED
    BY <2>1, <2>2
<1>5. WaitInv'
  BY <1>1, <1>3 DEF WaitInv, OnAccount
<1> QED
  BY <1>3, <1>4, <1>5 DEF JobsInv

(* The page at hand is one of the two.                                     *)
LEMMA DeckFacts ==
  ASSUME IndInv
  PROVE  /\ \A k \in Cards : k \in deck => ~OnAccount
         /\ "lockout" \in deck /\ ~OnAccount => "lockout" \in Cards
         /\ "force" \in deck => "force" \in Diagnostics
BY DEF IndInv, PageInv, Cards, OnAccount, TriggerCards, AccountCards, Diagnostics

LEMMA FireKeeps == ASSUME IndInv, NEW k \in Cards, Fire(k) PROVE IndInv'
<1> DEFINE c == [card[k] EXCEPT !.pending = TRUE]
           r == [NoRun EXCEPT !.phase = "sent", !.email = email, !.calls = 1]
<1>1. /\ k \in deck /\ ~card[k].pending
      /\ card' = [card EXCEPT ![k] = c] /\ run' = [run EXCEPT ![k] = r]
      /\ UNCHANGED <<deck, email, limiter, failures, status, diag>>
  BY DEF Fire, accountVars, IndInv, PageInv
<1>2. /\ card[k] \in CardType /\ CardOK(k) /\ HammerOK(k) /\ email \in Emails
  BY CardFacts DEF IndInv, PageInv
<1>3. /\ c \in CardType /\ c.pending = TRUE /\ c.result = card[k].result
      /\ c.remaining = card[k].remaining /\ c.open = card[k].open /\ c.reused = card[k].reused
  BY <1>2 DEF CardType
<1>4. /\ r \in RunType /\ r.phase = "sent" /\ r.calls = 1 /\ r.reply = "none" /\ r.open = FALSE
  <2>1. 1 \in 0..Attempts
    BY TriggerAssumption
  <2> QED
    BY <1>2, <2>1, FreshTypes DEF NoRun, RunType
<1>5. card'[k] = c /\ run'[k] = r
  BY <1>1 DEF IndInv, PageInv
<1> HIDE DEF c, r
<1>6. CardOK(k)'
  BY <1>1, <1>2, <1>3, <1>4, <1>5 DEF CardOK
<1>7. HammerOK(k)'
  BY <1>1, <1>2, <1>3, <1>4, <1>5, LimiterFacts DEF HammerOK
<1>8. jobs' \in [Slots -> JobType] /\ JobsInv' /\ WaitInv'
  <2>1. CASE k = "lockout"
    <3>1. PICK s \in FreeSlots : jobs' = [jobs EXCEPT ![s] = NewJob("card", email, "record")]
      BY <2>1 DEF Fire
    <3>2. s \in Slots /\ email \in Identifiers /\ ~OnAccount
      BY <1>1, <1>2, DeckFacts DEF FreeSlots, Identifiers
    <3>3. \A t \in Slots : jobs[t].from # "card"
      BY <1>1, <2>1, <3>2 DEF IndInv, WaitInv
    <3> QED
      BY <1>1, <1>3, <1>5, <2>1, <3>1, <3>2, <3>3, AskedFacts
  <2>2. CASE k # "lockout"
    <3>1. UNCHANGED jobs
      BY <2>2 DEF Fire
    <3> QED
      BY <1>1, <1>3, <2>2, <3>1, JobsAsBefore
  <2> QED
    BY <2>1, <2>2
<1> QED
  BY <1>1, <1>3, <1>4, <1>6, <1>7, <1>8, CardStepKeeps DEF LimiterMoves

(* A step of the run of a card, which the card does not show yet.          *)
LEMMA RunStepKeeps ==
  ASSUME IndInv, NEW k \in Cards, k # "lockout", NEW r \in RunType,
         run' = [run EXCEPT ![k] = r], LimiterMoves,
         UNCHANGED <<deck, email, card, failures, jobs, status, diag>>,
         run[k].phase # "idle", r.phase # "idle", r.reply = "ok" => k = "hammer",
         r.open = TRUE => limiter'.left > 0 /\ (r.retry # None => r.retry >= limiter'.left),
         k = "hammer" /\ r.phase = "sent" /\ r.rolled = FALSE
           => limiter'.used + 1 >= r.calls /\ (r.calls > 1 => limiter'.left > 0),
         k = "hammer" /\ r.phase = "replied" /\ r.reply = "ok" /\ r.rolled = FALSE
           => limiter'.used >= r.calls /\ limiter'.left > 0
  PROVE  IndInv'
<1>1. /\ card[k] \in CardType /\ CardOK(k) /\ HammerOK(k)
      /\ limiter.left > 0 => limiter'.left = limiter.left
  BY CardFacts, LimiterMovesFacts
<1>2. card' = [card EXCEPT ![k] = card[k]]
  BY DEF IndInv, PageInv
<1>3. run'[k] = r /\ card'[k] = card[k]
  BY DEF IndInv, PageInv
<1>4. CardOK(k)'
  BY <1>1, <1>3 DEF CardOK
<1>5. HammerOK(k)'
  BY <1>1, <1>3 DEF HammerOK
<1>6. jobs' \in [Slots -> JobType] /\ JobsInv' /\ WaitInv'
  BY <1>1, <1>2, JobsAsBefore
<1> QED
  BY <1>1, <1>2, <1>4, <1>5, <1>6, CardStepKeeps

LEMMA ReplyFacts ==
  ASSUME IndInv, NEW k \in Cards, NEW reply \in Replies, NEW retry \in Retries,
         Reply(k, reply, retry)
  PROVE  /\ run' = [run EXCEPT ![k] = run'[k]] /\ run'[k] \in RunType
         /\ run'[k].phase = "replied" /\ run'[k].reply = reply /\ run'[k].retry = retry
         /\ run'[k].open = TRUE => reply = "limited"
         /\ run'[k].calls = run[k].calls /\ run'[k].rolled = run[k].rolled
<1> DEFINE r == [run[k] EXCEPT !.phase = "replied", !.reply = reply, !.retry = retry,
                               !.open = (reply = "limited")]
<1>1. run[k] \in RunType /\ run \in [Cards -> RunType]
  BY CardFacts DEF IndInv, PageInv
<1>2. run' = [run EXCEPT ![k] = r]
  BY <1>1 DEF Reply
<1>3. r \in RunType
  <2>1. (reply = "limited") \in BOOLEAN
    OBVIOUS
  <2> QED
    BY <1>1, <2>1 DEF RunType
<1>4. r.phase = "replied" /\ r.reply = reply /\ r.retry = retry /\ r.calls = run[k].calls
  BY <1>1 DEF RunType
<1>5. r.rolled = run[k].rolled /\ (r.open = TRUE => reply = "limited")
  BY <1>1 DEF RunType
<1> HIDE DEF r
<1>6. run'[k] = r
  BY <1>1, <1>2
<1> QED
  BY <1>2, <1>3, <1>4, <1>5, <1>6, Zenon

LEMMA ServeKeeps == ASSUME IndInv, NEW k \in Cards, Serve(k) PROVE IndInv'
<1>1. /\ run[k].phase = "sent" /\ k # "lockout"
      /\ UNCHANGED <<deck, email, card, failures, jobs, status, diag>>
  BY DEF Serve, accountVars
<1>2. /\ run[k] \in RunType /\ HammerOK(k) /\ run[k].calls \in 0..Attempts /\ run \in [Cards -> RunType]
  BY CardFacts DEF IndInv, PageInv
<1>4. CASE k \in LoginCards /\ Limited
  <2>1. UNCHANGED limiter
    BY <1>4 DEF Serve
  <2>2. PICK reply \in {"limited", "answered"}, retry \in {limiter.left, None} : Reply(k, reply, retry)
    BY <1>4 DEF Serve
  <2>3. reply \in Replies /\ retry \in Retries
    BY LimiterFacts DEF Replies, Retries
  <2> DEFINE r == run'[k]
  <2>4. /\ run' = [run EXCEPT ![k] = r] /\ r \in RunType
        /\ r.phase = "replied" /\ r.reply = reply /\ r.retry = retry
        /\ r.open = TRUE => reply = "limited"
        /\ r.calls = run[k].calls /\ r.rolled = run[k].rolled
    BY <2>2, <2>3, ReplyFacts
  <2> HIDE DEF r
  <2>5. limiter.left > 0 /\ (retry # None => retry >= limiter.left)
    BY <1>4, LimiterFacts DEF Limited
  <2> QED
    BY <1>1, <2>1, <2>4, <2>5, RunStepKeeps DEF LimiterMoves
<1>5. CASE ~(k \in LoginCards /\ Limited)
  <2>1. PICK reply \in IF k = "hammer" THEN {"ok", "refused"} ELSE {"answered"} : Reply(k, reply, None)
    BY <1>5 DEF Serve
  <2>2. limiter' = IF k \in LoginCards THEN Counted ELSE limiter
    BY <1>5 DEF Serve
  <2>3. reply \in Replies /\ None \in Retries /\ reply # "limited" /\ (reply = "ok" => k = "hammer")
    BY DEF Replies, Retries
  <2> DEFINE r == run'[k]
  <2>4. /\ run' = [run EXCEPT ![k] = r] /\ r \in RunType
        /\ r.phase = "replied" /\ r.reply = reply /\ r.retry = None
        /\ r.open = TRUE => reply = "limited"
        /\ r.calls = run[k].calls /\ r.rolled = run[k].rolled
    BY <2>1, <2>3, ReplyFacts
  <2> HIDE DEF r
  <2>5. LimiterMoves
    BY <1>5, <2>2 DEF LimiterMoves
  <2>6. k = "hammer" /\ r.rolled = FALSE => limiter'.used >= r.calls /\ limiter'.left > 0
    <3> SUFFICES ASSUME k = "hammer", r.rolled = FALSE
                 PROVE  limiter'.used >= r.calls /\ limiter'.left > 0
      OBVIOUS
    <3>1. ~Limited /\ limiter' = Counted
      BY <1>5, <2>2 DEF LoginCards
    <3>2. limiter.used + 1 >= run[k].calls /\ (run[k].calls > 1 => limiter.left > 0)
      BY <1>1, <1>2, <2>4 DEF HammerOK
    <3> QED
      BY <1>2, <2>4, <3>1, <3>2, CountedFacts, LimiterFacts
  <2> QED
    BY <1>1, <2>3, <2>4, <2>5, <2>6, RunStepKeeps
<1> QED
  BY <1>4, <1>5

LEMMA HammerAgainKeeps == ASSUME IndInv, NEW k \in Cards, HammerAgain(k) PROVE IndInv'
<1> DEFINE r == [run[k] EXCEPT !.phase = "sent", !.calls = run[k].calls + 1, !.reply = "none"]
<1>1. /\ run[k] \in RunType /\ HammerOK(k) /\ CardOK(k) /\ run[k].calls \in 0..Attempts
      /\ run \in [Cards -> RunType]
  BY CardFacts DEF IndInv, PageInv
<1>2. /\ run[k].phase = "replied" /\ k = "hammer" /\ run[k].reply = "ok" /\ run[k].calls < Attempts
      /\ UNCHANGED <<deck, email, card, limiter, failures, jobs, status, diag>>
  BY DEF HammerAgain, HammersOn, accountVars
<1>3. run' = [run EXCEPT ![k] = r]
  BY <1>1 DEF HammerAgain, RunType
<1>4. r \in RunType /\ r.phase = "sent" /\ r.calls = run[k].calls + 1 /\ r.reply = "none"
  <2>1. run[k].calls + 1 \in 0..Attempts
    BY <1>1, <1>2, TriggerAssumption
  <2> QED
    BY <1>1, <2>1 DEF RunType, Replies
<1>5. r.rolled = run[k].rolled /\ r.open = run[k].open /\ r.retry = run[k].retry
  BY <1>1 DEF RunType
<1> HIDE DEF r
<1>6. r.open = TRUE => limiter.left > 0 /\ (r.retry # None => r.retry >= limiter.left)
  BY <1>1, <1>5 DEF CardOK
<1>7. r.rolled = FALSE => limiter.used + 1 >= r.calls /\ limiter.left > 0
  <2> SUFFICES ASSUME r.rolled = FALSE PROVE limiter.used + 1 >= r.calls /\ limiter.left > 0
    OBVIOUS
  <2>1. limiter.used >= run[k].calls /\ limiter.left > 0
    BY <1>1, <1>2, <1>5 DEF HammerOK
  <2> QED
    BY <1>1, <1>4, <2>1, LimiterFacts
<1> QED
  BY <1>2, <1>3, <1>4, <1>6, <1>7, RunStepKeeps DEF LimiterMoves

(* A run ends.                                                             *)
LEMMA ShowingFacts ==
  ASSUME IndInv, NEW k \in Cards, NEW result \in ResultType, NEW open \in BOOLEAN
  PROVE  /\ Showing(k, result, open) \in CardType
         /\ Showing(k, result, open).pending = FALSE /\ Showing(k, result, open).open = open
         /\ Showing(k, result, open).result = result
         /\ result.retry # None /\ Showing(k, result, open).reused = FALSE
              => Showing(k, result, open).remaining = result.retry
<1> DEFINE count == IF result.retry = None THEN 0
                    ELSE IF Keeps(k, result) THEN card[k].remaining ELSE result.retry
           c == [pending |-> FALSE, result |-> result, remaining |-> count, open |-> open,
                 reused |-> Keeps(k, result)]
<1>1. Showing(k, result, open) = c
  BY DEF Showing, Shown
<1>2. count \in 0..Window
  <2>1. result.retry \in Retries
    BY DEF ResultType
  <2>2. card[k].remaining \in 0..Window
    BY CardFacts
  <2> QED
    BY <2>1, <2>2, TriggerAssumption DEF Retries
<1>3. Keeps(k, result) \in BOOLEAN
  BY DEF Keeps
<1>4. result.retry # None /\ Keeps(k, result) = FALSE => count = result.retry
  OBVIOUS
<1> HIDE DEF count
<1>5. c \in CardType
  BY <1>2, <1>3 DEF CardType
<1>6. c.pending = FALSE /\ c.open = open /\ c.result = result /\ c.remaining = count
  OBVIOUS
<1>7. c.reused = Keeps(k, result)
  OBVIOUS
<1> HIDE DEF c
<1>8. result.retry # None /\ c.reused = FALSE => c.remaining = result.retry
  BY <1>4, <1>6, <1>7
<1> QED
  BY <1>1, <1>5, <1>6, <1>8

LEMMA SettleKeeps ==
  ASSUME IndInv, NEW k \in Cards, NEW ending \in Endings, Settle(k, ending),
         ending = "exhausted" => run[k].rolled = TRUE,
         jobs' \in [Slots -> JobType], JobsInv', WaitInv'
  PROVE  IndInv'
<1> DEFINE result == [status |-> ending, retry |-> run[k].retry, rolled |-> run[k].rolled]
           c == Showing(k, result, run[k].open)
<1>1. /\ card' = [card EXCEPT ![k] = c] /\ run' = [run EXCEPT ![k] = NoRun]
      /\ UNCHANGED <<deck, email, limiter, failures, status, diag>>
  BY DEF Settle, accountVars
<1>2. /\ run[k].retry \in Retries /\ run[k].rolled \in BOOLEAN /\ run[k].open \in BOOLEAN /\ CardOK(k)
  BY CardFacts
<1>3. /\ result \in ResultType /\ result.status = ending /\ result.retry = run[k].retry
  BY <1>2 DEF ResultType
<1>4. result.rolled = run[k].rolled
  OBVIOUS
<1> HIDE DEF result
<1>5. /\ c \in CardType /\ c.pending = FALSE /\ c.open = run[k].open /\ c.result = result
      /\ result.retry # None /\ c.reused = FALSE => c.remaining = result.retry
  <2>1. k \in Cards /\ result \in ResultType /\ run[k].open \in BOOLEAN
    BY <1>2, <1>3
  <2>2. /\ Showing(k, result, run[k].open) \in CardType
        /\ Showing(k, result, run[k].open).pending = FALSE
        /\ Showing(k, result, run[k].open).open = run[k].open
        /\ Showing(k, result, run[k].open).result = result
        /\ result.retry # None /\ Showing(k, result, run[k].open).reused = FALSE
             => Showing(k, result, run[k].open).remaining = result.retry
    BY <2>1, ShowingFacts, Zenon
  <2> QED
    BY <2>2
<1> HIDE DEF c
<1>6. card'[k] = c /\ run'[k] = NoRun /\ NoRun \in RunType
  BY <1>1, FreshTypes DEF IndInv, PageInv
<1>7. CardOK(k)'
  BY <1>1, <1>2, <1>3, <1>5, <1>6, FreshTypes DEF CardOK
<1>8. HammerOK(k)'
  BY <1>1, <1>3, <1>4, <1>5, <1>6, FreshTypes DEF HammerOK
<1> QED
  BY <1>1, <1>5, <1>6, <1>7, <1>8, CardStepKeeps DEF LimiterMoves

(* A card other than the lockout card settles.                             *)
LEMMA SettleAsBefore ==
  ASSUME IndInv, NEW k \in Cards, k # "lockout", NEW ending, Settle(k, ending), UNCHANGED jobs
  PROVE  jobs' \in [Slots -> JobType] /\ JobsInv' /\ WaitInv'
<1>1. /\ jobs \in [Slots -> JobType] /\ card \in [Cards -> CardType]
      /\ UNCHANGED <<deck, failures, diag>>
  BY DEF Settle, accountVars, IndInv, PageInv, StoreInv
<1>2. JobsInv'
  BY <1>1 DEF IndInv, JobsInv, JobOK
<1>3. card'["lockout"] = card["lockout"]
  BY <1>1 DEF Settle
<1> QED
  BY <1>1, <1>2, <1>3 DEF IndInv, WaitInv, OnAccount

LEMMA AnsweredKeeps == ASSUME IndInv, NEW k \in Cards, Answered(k) PROVE IndInv'
<1> DEFINE ending == IF run[k].reply = "ok" THEN "exhausted" ELSE run[k].reply
<1>1. /\ run[k].phase = "replied" /\ ~HammersOn(k) /\ Settle(k, ending) /\ UNCHANGED jobs
  BY DEF Answered
<1>2. /\ CardOK(k) /\ HammerOK(k) /\ run[k].reply \in Replies /\ run[k].calls \in 0..Attempts
      /\ run[k].rolled \in BOOLEAN
  BY CardFacts
<1>3. k # "lockout" /\ ending \in Endings
  BY <1>1, <1>2 DEF CardOK, Replies, Endings
<1>4. ending = "exhausted" => run[k].rolled = TRUE
  <2> SUFFICES ASSUME ending = "exhausted", run[k].rolled = FALSE PROVE FALSE
    BY <1>2
  <2>1. run[k].reply = "ok" /\ k = "hammer"
    BY <1>2 DEF Replies, CardOK
  <2>2. limiter.used >= run[k].calls
    BY <1>1, <1>2, <2>1 DEF HammerOK
  <2>3. ~(run[k].calls < Attempts)
    BY <1>1, <2>1 DEF HammersOn
  <2> QED
    BY <1>2, <2>2, <2>3, LimiterFacts
<1> HIDE DEF ending
<1> QED
  BY <1>1, <1>3, <1>4, SettleAsBefore, SettleKeeps

LEMMA RejectedKeeps == ASSUME IndInv, NEW k \in Cards, Rejected(k) PROVE IndInv'
<1>1. Settle(k, "answered") /\ jobs' = IF k = "lockout" THEN Orphaned("card") ELSE jobs
  BY DEF Rejected
<1>2. jobs' \in [Slots -> JobType] /\ JobsInv' /\ WaitInv'
  <2>1. CASE k = "lockout"
    BY <1>1, <2>1, OrphanedFacts DEF Settle
  <2>2. CASE k # "lockout"
    BY <1>1, <2>2, SettleAsBefore
  <2> QED
    BY <2>1, <2>2
<1> QED
  BY <1>1, <1>2, SettleKeeps DEF Endings

LEMMA LockoutAnsweredKeeps == ASSUME IndInv, NEW s \in Slots, LockoutAnswered(s) PROVE IndInv'
<1>1. /\ ~OnAccount /\ jobs[s].from = "card" /\ Settle("lockout", "answered")
      /\ jobs' = [jobs EXCEPT ![s] = NoJob]
  BY DEF LockoutAnswered
<1>2. "lockout" \in Cards
  BY <1>1, DeckFacts DEF IndInv, WaitInv
<1>3. jobs' \in [Slots -> JobType] /\ JobsInv' /\ WaitInv'
  BY <1>1, ReadFacts DEF Settle
<1> QED
  BY <1>1, <1>2, <1>3, SettleKeeps DEF Endings

LEMMA HammerRejectedKeeps == ASSUME IndInv, NEW k \in Cards, HammerRejected(k) PROVE IndInv'
<1> DEFINE c == [card[k] EXCEPT !.pending = FALSE]
<1>1. /\ k # "lockout" /\ card' = [card EXCEPT ![k] = c] /\ run' = [run EXCEPT ![k] = NoRun]
      /\ UNCHANGED <<deck, email, limiter, failures, jobs, status, diag>>
  BY DEF HammerRejected, accountVars, IndInv, PageInv
<1>2. card[k] \in CardType /\ CardOK(k) /\ HammerOK(k) /\ NoRun \in RunType
  BY CardFacts, FreshTypes
<1>3. /\ c \in CardType /\ c.pending = FALSE /\ c.result = card[k].result
      /\ c.remaining = card[k].remaining /\ c.open = card[k].open /\ c.reused = card[k].reused
  BY <1>2 DEF CardType
<1>4. card'[k] = c /\ run'[k] = NoRun
  BY <1>1 DEF IndInv, PageInv
<1> HIDE DEF c
<1>5. CardOK(k)'
  BY <1>1, <1>2, <1>3, <1>4, FreshTypes DEF CardOK
<1>7. HammerOK(k)'
  BY <1>1, <1>2, <1>3, <1>4, FreshTypes DEF HammerOK
<1>6. jobs' \in [Slots -> JobType] /\ JobsInv' /\ WaitInv'
  BY <1>1, <1>3, JobsAsBefore
<1> QED
  BY <1>1, <1>2, <1>3, <1>5, <1>6, <1>7, CardStepKeeps DEF LimiterMoves

(* A second passes.                                                        *)
LEMMA TickFacts ==
  ASSUME IndInv, Tick, NEW k \in Cards
  PROVE  /\ card'[k] \in CardType /\ run'[k] \in RunType
         /\ card'[k].pending = card[k].pending /\ card'[k].result = card[k].result
         /\ card'[k].remaining = IF card[k].remaining > 0 THEN card[k].remaining - 1 ELSE 0
         /\ card'[k].open = TRUE => card[k].open = TRUE /\ limiter.left # 1
         /\ card'[k].reused = card[k].reused
         /\ run'[k].phase = run[k].phase /\ run'[k].reply = run[k].reply
         /\ run'[k].calls = run[k].calls /\ run'[k].retry = run[k].retry
         /\ run'[k].open = TRUE => run[k].open = TRUE /\ (run[k].phase = "idle" \/ limiter.left # 1)
         /\ run'[k].rolled = FALSE /\ run[k].phase # "idle"
              => run[k].rolled = FALSE /\ (limiter.left # 1 \/ k # "hammer")
<1> DEFINE ends == limiter.left = 1
           count == IF card[k].remaining > 0 THEN card[k].remaining - 1 ELSE 0
           shown == card[k].open /\ ~ends
           out == run[k].open /\ ~ends
           rolled == run[k].rolled \/ (ends /\ k = "hammer")
           c == [card[k] EXCEPT !.remaining = count, !.open = shown]
           r == [run[k] EXCEPT !.rolled = rolled, !.open = out]
<1>1. card'[k] = c
  BY DEF Tick
<1>2. run'[k] = IF run[k].phase = "idle" THEN run[k] ELSE r
  BY DEF Tick
<1>3. /\ card[k] \in CardType /\ run[k] \in RunType /\ card[k].remaining \in 0..Window
      /\ card[k].open \in BOOLEAN /\ run[k].open \in BOOLEAN /\ run[k].rolled \in BOOLEAN
      /\ Window \in Nat
  BY CardFacts, LimiterFacts
<1>4. count \in 0..Window
  BY <1>3
<1>5. /\ shown \in BOOLEAN /\ out \in BOOLEAN /\ rolled \in BOOLEAN
      /\ shown = TRUE => card[k].open = TRUE /\ ~ends
      /\ out = TRUE => run[k].open = TRUE /\ ~ends
      /\ rolled = FALSE => run[k].rolled = FALSE /\ (~ends \/ k # "hammer")
  BY <1>3, Zenon
<1> HIDE DEF count, shown, out, rolled
<1>6. c \in CardType /\ r \in RunType
  BY <1>3, <1>4, <1>5 DEF CardType, RunType
<1>7. /\ c.result = card[k].result /\ c.remaining = count
      /\ r.phase = run[k].phase /\ r.reply = run[k].reply /\ r.calls = run[k].calls
      /\ r.retry = run[k].retry
  BY <1>3 DEF CardType, RunType
<1>8. /\ c.pending = card[k].pending /\ c.open = shown /\ c.reused = card[k].reused
      /\ r.open = out /\ r.rolled = rolled
  BY <1>3 DEF CardType, RunType
<1> HIDE DEF c, r
<1>9. /\ card'[k] \in CardType /\ card'[k].pending = card[k].pending
      /\ card'[k].result = card[k].result /\ card'[k].reused = card[k].reused
      /\ card'[k].remaining = count
      /\ card'[k].open = TRUE => card[k].open = TRUE /\ ~ends
  BY <1>1, <1>5, <1>6, <1>7, <1>8, Zenon
<1>10. CASE run[k].phase = "idle"
  <2>1. run'[k] = run[k]
    BY <1>2, <1>10
  <2> QED
    BY <1>3, <1>9, <1>10, <2>1, Zenon DEF count, ends
<1>11. CASE run[k].phase # "idle"
  <2>1. run'[k] = r
    BY <1>2, <1>11
  <2> QED
    BY <1>5, <1>6, <1>7, <1>8, <1>9, <1>11, <2>1, Zenon DEF count, ends
<1> QED
  BY <1>10, <1>11

LEMMA TickKeeps == ASSUME IndInv, Tick PROVE IndInv'
<1>1. /\ UNCHANGED <<deck, email, failures, jobs, status, diag>>
      /\ limiter' = IF limiter.left <= 1 THEN [used |-> 0, left |-> 0]
                    ELSE [limiter EXCEPT !.left = @ - 1]
  BY DEF Tick, accountVars
<1>2. /\ limiter' \in [used : 0..Limit, left : 0..Window]
      /\ limiter.left > 1 => limiter'.left = limiter.left - 1 /\ limiter'.used = limiter.used
      /\ limiter.left <= 1 => limiter'.left = 0 /\ limiter'.used = 0
  <2>1. CASE limiter.left <= 1
    <3>1. limiter' = [used |-> 0, left |-> 0]
      BY <1>1, <2>1
    <3> QED
      BY <2>1, <3>1, LimiterFacts
  <2>2. CASE ~(limiter.left <= 1)
    <3>1. limiter' = [limiter EXCEPT !.left = @ - 1] /\ limiter.left - 1 \in 0..Window
      BY <1>1, <2>2, LimiterFacts
    <3> QED
      BY <2>2, <3>1, LimiterFacts
  <2> QED
    BY <2>1, <2>2
<1>3. card' \in [Cards -> CardType] /\ run' \in [Cards -> RunType]
  <2>1. card' = [k \in Cards |-> card'[k]] /\ run' = [k \in Cards |-> run'[k]]
    BY DEF Tick
  <2> QED
    BY <2>1, TickFacts
<1>4. PageInv' /\ StoreInv'
  BY <1>1, <1>2, <1>3 DEF IndInv, PageInv, StoreInv
<1>5. ASSUME NEW k \in Cards PROVE CardOK(k)' /\ HammerOK(k)'
  <2>1. /\ CardOK(k) /\ HammerOK(k) /\ card[k].remaining \in 0..Window
        /\ card[k].result.retry \in Retries /\ run[k].calls \in 0..Attempts /\ run[k].retry \in Retries
    BY CardFacts
  <2>2. /\ card'[k].result = card[k].result
        /\ card'[k].remaining = IF card[k].remaining > 0 THEN card[k].remaining - 1 ELSE 0
        /\ run'[k].phase = run[k].phase /\ run'[k].reply = run[k].reply
        /\ run'[k].calls = run[k].calls /\ run'[k].retry = run[k].retry
    BY TickFacts
  <2>3. /\ card'[k].pending = card[k].pending /\ card'[k].reused = card[k].reused
        /\ card'[k].open = TRUE => card[k].open = TRUE /\ limiter.left # 1
        /\ run'[k].open = TRUE => run[k].open = TRUE /\ (run[k].phase = "idle" \/ limiter.left # 1)
        /\ run'[k].rolled = FALSE /\ run[k].phase # "idle"
             => run[k].rolled = FALSE /\ (limiter.left # 1 \/ k # "hammer")
    BY TickFacts
  <2>4. /\ card'[k].pending = TRUE <=> run'[k].phase # "idle"
        /\ run'[k].reply = "ok" => k = "hammer"
        /\ run'[k].phase = "replied" => k # "lockout"
        /\ run'[k].phase = "idle" => ~(run'[k].open = TRUE)
    BY <2>1, <2>2, <2>3 DEF CardOK
  <2>5. ASSUME run'[k].open = TRUE
        PROVE  limiter'.left > 0 /\ (run'[k].retry # None => run'[k].retry >= limiter'.left)
    <3>1. /\ run[k].open = TRUE /\ run[k].phase # "idle" /\ limiter.left # 1 /\ limiter.left > 0
          /\ run[k].retry # None => run[k].retry >= limiter.left
      BY <2>1, <2>2, <2>3, <2>4, <2>5 DEF CardOK
    <3> QED
      BY <1>2, <2>1, <2>2, <3>1, LimiterFacts DEF Retries
  <2>6. ASSUME card'[k].open = TRUE
        PROVE  /\ limiter'.left > 0
               /\ card'[k].result.retry # None /\ card'[k].reused = FALSE
                    => card'[k].remaining >= limiter'.left
    <3>1. /\ limiter.left # 1 /\ limiter.left > 0
          /\ card'[k].result.retry # None /\ card'[k].reused = FALSE
               => card[k].remaining >= limiter.left
      BY <2>1, <2>2, <2>3, <2>6 DEF CardOK
    <3>2. card[k].remaining >= limiter.left => card'[k].remaining >= limiter'.left
      BY <1>2, <2>1, <2>2, <3>1, LimiterFacts
    <3> QED
      BY <1>2, <3>1, <3>2, LimiterFacts
  <2>7. CardOK(k)'
    BY <2>4, <2>5, <2>6 DEF CardOK
  <2>8. ASSUME k = "hammer", run'[k].phase # "idle", run'[k].rolled = FALSE
        PROVE  run[k].rolled = FALSE /\ limiter.left # 1
    BY <2>2, <2>3, <2>8
  <2>9. ASSUME k = "hammer", run'[k].phase = "sent", run'[k].rolled = FALSE
        PROVE  limiter'.used + 1 >= run'[k].calls /\ (run'[k].calls > 1 => limiter'.left > 0)
    <3>1. /\ limiter.left # 1 /\ limiter.used + 1 >= run[k].calls
          /\ run[k].calls > 1 => limiter.left > 0
      BY <2>1, <2>2, <2>8, <2>9 DEF HammerOK
    <3> QED
      BY <1>2, <2>1, <2>2, <3>1, LimiterFacts
  <2>10. ASSUME k = "hammer", run'[k].phase = "replied", run'[k].reply = "ok", run'[k].rolled = FALSE
         PROVE  limiter'.used >= run'[k].calls /\ limiter'.left > 0
    <3>1. limiter.left # 1 /\ limiter.used >= run[k].calls /\ limiter.left > 0
      BY <2>1, <2>2, <2>8, <2>10 DEF HammerOK
    <3> QED
      BY <1>2, <2>1, <2>2, <3>1, LimiterFacts
  <2>11. HammerOK(k)'
    BY <2>1, <2>2, <2>9, <2>10 DEF HammerOK
  <2> QED
    BY <2>7, <2>11
<1>6. JobsInv' /\ BadgeInv'
  BY <1>1 DEF IndInv, JobsInv, JobOK, BadgeInv
<1>7. WaitInv'
  <2>1. "lockout" \in Cards => card'["lockout"].pending = card["lockout"].pending
    BY TickFacts
  <2> QED
    BY <1>1, <2>1, DeckFacts DEF IndInv, WaitInv, OnAccount
<1> QED
  BY <1>4, <1>5, <1>6, <1>7 DEF IndInv, CardsInv

-----------------------------------------------------------------------------
(* Steps of the matrix.  They leave the cards alone.                       *)
LEMMA AccountKeeps ==
  ASSUME IndInv, UNCHANGED <<deck, email, card, run, limiter, failures>>,
         status' \in Statuses, diag' \in [Diagnostics -> DiagType], BadgeInv',
         jobs' \in [Slots -> JobType], JobsInv', WaitInv'
  PROVE  IndInv'
<1>1. PageInv' /\ StoreInv'
  BY DEF IndInv, PageInv, StoreInv
<1>2. CardsInv'
  BY DEF IndInv, CardsInv, CardOK, HammerOK
<1> QED
  BY <1>1, <1>2 DEF IndInv

(* A step that only edits the form or the inspector.                       *)
LEMMA FormKeeps ==
  ASSUME IndInv, email' \in Emails,
         UNCHANGED <<deck, card, run, limiter, failures, jobs, status, diag>>
  PROVE  IndInv'
<1>1. PageInv' /\ StoreInv'
  BY DEF IndInv, PageInv, StoreInv
<1>2. CardsInv'
  BY DEF IndInv, CardsInv, CardOK, HammerOK
<1>3. JobsInv' /\ WaitInv' /\ BadgeInv'
  BY DEF IndInv, JobsInv, JobOK, WaitInv, OnAccount, BadgeInv
<1> QED
  BY <1>1, <1>2, <1>3 DEF IndInv

(* An action of the matrix gets a value.                                   *)
LEMMA DiagFacts ==
  ASSUME IndInv, NEW d \in Diagnostics, NEW k \in {"busy", "ok", "error"}, NEW data \in DataType,
         diag' = [diag EXCEPT ![d] = [k |-> k, data |-> data]], UNCHANGED deck
  PROVE  /\ diag' \in [Diagnostics -> DiagType]
         /\ diag'[d].k = k /\ diag'[d].data = data
         /\ \A e \in Diagnostics : e # d => diag'[e] = diag[e]
         /\ d # "force" => BadgeInv'
<1> DEFINE new == [k |-> k, data |-> data]
<1>1. new \in DiagType /\ new.k = k /\ new.data = data
  BY DEF DiagType
<1>2. diag \in [Diagnostics -> DiagType] /\ diag' = [diag EXCEPT ![d] = new]
  BY DEF IndInv, StoreInv
<1> HIDE DEF new
<1>3. /\ diag' \in [Diagnostics -> DiagType] /\ diag'[d] = new
      /\ \A e \in Diagnostics : e # d => diag'[e] = diag[e]
  BY <1>1, <1>2
<1>4. d # "force" => BadgeInv'
  BY <1>3, DeckFacts DEF IndInv, BadgeInv
<1> QED
  BY <1>1, <1>3, <1>4

(* Any other action than the lockout card's leaves the requests alone.     *)
LEMMA DiagJobs ==
  ASSUME IndInv, "force" \in deck => diag'["force"] = diag["force"],
         UNCHANGED <<deck, card, failures, jobs>>
  PROVE  jobs' \in [Slots -> JobType] /\ JobsInv' /\ WaitInv'
BY DEF IndInv, StoreInv, JobsInv, JobOK, WaitInv, OnAccount

LEMMA RunKeeps == ASSUME IndInv, NEW d \in Diagnostics, Run(d) PROVE IndInv'
<1>1. /\ OnAccount /\ d \in deck /\ diag[d].k # "busy"
      /\ diag' = [diag EXCEPT ![d] = [k |-> "busy", data |-> Unknown]]
      /\ UNCHANGED <<deck, email, card, run, limiter, failures, status>>
  BY DEF Run, MatrixShown, triggerVars
<1>2. /\ diag' \in [Diagnostics -> DiagType] /\ diag'[d].k = "busy"
      /\ \A e \in Diagnostics : e # d => diag'[e] = diag[e]
      /\ d # "force" => BadgeInv'
  BY <1>1, FreshTypes, DiagFacts
<1>3. BadgeInv'
  BY <1>2 DEF BadgeInv
<1>4. jobs' \in [Slots -> JobType] /\ JobsInv' /\ WaitInv'
  <2>1. CASE d = "force"
    <3>1. PICK s \in FreeSlots : jobs' = [jobs EXCEPT ![s] = NewJob("card", Demo, "record")]
      BY <2>1 DEF Run
    <3>2. s \in Slots /\ Demo \in Identifiers
      BY DEF FreeSlots, Identifiers
    <3>3. \A t \in Slots : jobs[t].from # "card"
      BY <1>1, <2>1 DEF IndInv, WaitInv
    <3> QED
      BY <1>1, <1>2, <2>1, <3>1, <3>2, <3>3, AskedFacts
  <2>2. CASE d # "force"
    <3>1. UNCHANGED jobs
      BY <2>2 DEF Run
    <3>2. "force" \in deck => diag'["force"] = diag["force"]
      BY <1>2, <2>2, DeckFacts
    <3> QED
      BY <1>1, <3>1, <3>2, DiagJobs
  <2> QED
    BY <2>1, <2>2
<1> QED
  BY <1>1, <1>2, <1>3, <1>4, AccountKeeps DEF IndInv, PageInv

LEMMA RunAnsweredKeeps == ASSUME IndInv, NEW d \in Diagnostics, RunAnswered(d) PROVE IndInv'
<1>1. PICK k \in {"ok", "error"} : RunEnds(d, k, Unknown)
  BY DEF RunAnswered
<1>2. /\ d # "force" /\ UNCHANGED <<deck, email, card, run, limiter, failures, status, jobs>>
      /\ diag' = [diag EXCEPT ![d] = [k |-> k, data |-> Unknown]]
  BY <1>1 DEF RunAnswered, RunEnds, triggerVars
<1>3. /\ diag' \in [Diagnostics -> DiagType] /\ BadgeInv'
      /\ \A e \in Diagnostics : e # d => diag'[e] = diag[e]
  BY <1>2, FreshTypes, DiagFacts
<1>4. "force" \in deck => diag'["force"] = diag["force"]
  BY <1>2, <1>3, DeckFacts
<1>5. jobs' \in [Slots -> JobType] /\ JobsInv' /\ WaitInv'
  BY <1>2, <1>4, DiagJobs
<1> QED
  BY <1>2, <1>3, <1>5, AccountKeeps DEF IndInv, PageInv

LEMMA ForceAnsweredKeeps == ASSUME IndInv, NEW s \in Slots, ForceAnswered(s) PROVE IndInv'
<1> DEFINE data == [locked |-> jobs[s].locked, left |-> jobs[s].left, disturbed |-> jobs[s].disturbed]
<1>1. /\ OnAccount /\ jobs[s].step = "done" /\ jobs[s].from = "card"
      /\ jobs' = [jobs EXCEPT ![s] = NoJob]
      /\ UNCHANGED <<deck, email, card, run, limiter, failures, status>>
  BY DEF ForceAnswered, RunEnds, triggerVars
<1>2. "force" \in deck /\ "force" \in Diagnostics
  BY <1>1, DeckFacts DEF IndInv, WaitInv
<1>3. jobs[s] \in JobType /\ JobOK(s) /\ jobs[s].failed \in BOOLEAN /\ jobs[s].disturbed \in BOOLEAN
  BY JobFacts
<1>4. data \in DataType /\ data.left = jobs[s].left /\ data.disturbed = jobs[s].disturbed
  <2>1. data \in DataType
    BY <1>3 DEF JobType, DataType
  <2> QED
    BY <2>1
<1>5. diag' \in [Diagnostics -> DiagType] /\ BadgeInv'
  <2>1. CASE jobs[s].failed
    <3>1. diag' = [diag EXCEPT !["force"] = [k |-> "error", data |-> Unknown]]
      BY <2>1 DEF ForceAnswered, RunEnds
    <3>2. diag' \in [Diagnostics -> DiagType] /\ diag'["force"].k = "error"
      BY <1>1, <1>2, <3>1, FreshTypes, DiagFacts
    <3> QED
      BY <3>2 DEF BadgeInv
  <2>2. CASE ~jobs[s].failed
    <3>1. diag' = [diag EXCEPT !["force"] = [k |-> "ok", data |-> data]]
      BY <2>2 DEF ForceAnswered, RunEnds
    <3> HIDE DEF data
    <3>2. diag' \in [Diagnostics -> DiagType] /\ diag'["force"].data = data
      BY <1>1, <1>2, <1>4, <3>1, DiagFacts
    <3>3. jobs[s].records > 0
      BY <1>1, <1>3, <2>2 DEF JobOK
    <3>4. jobs[s].disturbed = TRUE \/ jobs[s].left = TRUE
      BY <1>1, <1>3, <2>2, <3>3 DEF JobOK
    <3>5. diag'["force"].data.left = TRUE \/ diag'["force"].data.disturbed = TRUE
      BY <1>4, <3>2, <3>4
    <3> QED
      BY <3>2, <3>5 DEF BadgeInv
  <2> QED
    BY <2>1, <2>2
<1>6. jobs' \in [Slots -> JobType] /\ JobsInv' /\ WaitInv'
  BY <1>1, ReadFacts
<1> QED
  BY <1>1, <1>5, <1>6, AccountKeeps DEF IndInv, PageInv

LEMMA ForceRejectedKeeps == ASSUME IndInv, ForceRejected PROVE IndInv'
<1>1. /\ "force" \in deck /\ jobs' = Orphaned("card")
      /\ diag' = [diag EXCEPT !["force"] = [k |-> "error", data |-> Unknown]]
      /\ UNCHANGED <<deck, email, card, run, limiter, failures, status>>
  BY DEF ForceRejected, RunEnds, triggerVars
<1>2. diag' \in [Diagnostics -> DiagType] /\ diag'["force"].k = "error"
  BY <1>1, FreshTypes, DeckFacts, DiagFacts
<1>3. BadgeInv'
  BY <1>2 DEF BadgeInv
<1>4. jobs' \in [Slots -> JobType] /\ JobsInv' /\ WaitInv'
  BY <1>1, OrphanedFacts
<1> QED
  BY <1>1, <1>2, <1>3, <1>4, AccountKeeps DEF IndInv, PageInv

LEMMA StatusChangesKeeps == ASSUME IndInv, NEW s \in Statuses, StatusChanges(s) PROVE IndInv'
<1>1. /\ status' = s /\ jobs' = Orphaned("card") /\ diag' = [d \in Diagnostics |-> Idle]
      /\ UNCHANGED <<deck, email, card, run, limiter, failures>>
  BY DEF StatusChanges, triggerVars
<1>2. diag' \in [Diagnostics -> DiagType]
  BY <1>1, FreshTypes
<1>3. BadgeInv'
  BY <1>1, DeckFacts DEF BadgeInv, Idle
<1>4. jobs' \in [Slots -> JobType] /\ JobsInv' /\ WaitInv'
  BY <1>1, OrphanedFacts
<1> QED
  BY <1>1, <1>2, <1>3, <1>4, AccountKeeps

-----------------------------------------------------------------------------
(* Every step preserves the invariant.                                     *)
LEMMA InvNext == ASSUME IndInv, [Next]_vars PROVE IndInv'
<1>1. ASSUME NEW e \in Emails, EditEmail(e) PROVE IndInv'
  BY <1>1, FormKeeps DEF EditEmail, accountVars
<1>2. ASSUME NEW k \in Cards, Fire(k) \/ CardStep(k) PROVE IndInv'
  BY <1>2, FireKeeps, ServeKeeps, AnsweredKeeps, HammerAgainKeeps, RejectedKeeps,
     HammerRejectedKeeps DEF CardStep
<1>3. CASE Tick
  BY <1>3, TickKeeps
<1>4. ASSUME NEW s \in Slots, JobStep(s) PROVE IndInv'
  BY <1>4, RecordFailureKeeps, CheckLockKeeps, ReadLockKeeps, ReadRemainingKeeps, StoreFailsKeeps,
     ResetFailuresKeeps, OtherDoneKeeps, LockoutAnsweredKeeps, ForceAnsweredKeeps DEF JobStep
<1>5. ASSUME NEW id \in Identifiers, Expire(id) PROVE IndInv'
  BY <1>5, ExpireKeeps
<1>6. ASSUME NEW s \in Slots, NEW id \in Identifiers, NEW step \in {"record", "reset"},
             OtherClient(s, id, step)
      PROVE  IndInv'
  BY <1>6, OtherClientKeeps
<1>7. ASSUME NEW d \in Diagnostics, Run(d) \/ RunAnswered(d) PROVE IndInv'
  BY <1>7, RunKeeps, RunAnsweredKeeps
<1>8. CASE ForceRejected
  BY <1>8, ForceRejectedKeeps
<1>9. email \in Emails
  BY DEF IndInv, PageInv
<1>10. ASSUME NEW t \in Tokens, EditToken(t) PROVE IndInv'
  BY <1>9, <1>10, FormKeeps DEF EditToken, triggerVars
<1>11. CASE Inspect \/ Inspected
  BY <1>9, <1>11, FormKeeps DEF Inspect, Inspected, triggerVars
<1>12. ASSUME NEW s \in Statuses, StatusChanges(s) PROVE IndInv'
  BY <1>12, StatusChangesKeeps
<1>13. CASE UNCHANGED vars
  BY <1>9, <1>13, FormKeeps DEF vars, triggerVars, accountVars
<1> QED
  BY <1>1, <1>2, <1>3, <1>4, <1>5, <1>6, <1>7, <1>8, <1>10, <1>11, <1>12, <1>13 DEF Next

LEMMA Inductive == Spec => []IndInv
<1>1. IndInv /\ [Next]_vars => IndInv'
  BY InvNext
<1> QED
  BY InvInit, <1>1, PTL DEF Spec

-----------------------------------------------------------------------------
(* The variables keep their types; a card is pending exactly while its run *)
(* is in flight, and waits for at most one lockout request.                *)
THEOREM TriggerTypeCorrect == Spec => []TypeOK
BY Inductive, InvImplies, PTL

(* A countdown that its own result started never tells the user to retry   *)
(* before the limiter would let a login through.  Nothing is claimed of    *)
(* one that a second 429 with the same seconds left running, which does    *)
(* end early (TriggerCard.tsx RetryCountdown).                             *)
THEOREM NeverEarly == Spec => []CountdownNeverEarly
BY Inductive, InvImplies, PTL

(* A hammer run, which makes more logins than a window lets through, ends  *)
(* without a 429 only when one ended on the way (hammerLogin).             *)
THEOREM HammerTrips == Spec => []HammerTripsLimit
BY Inductive, InvImplies, PTL

(* A lockout request locks, however many others drive the identifier,      *)
(* unless its failures are cleared in the meantime (force_lockout).        *)
THEOREM ForceLocks == Spec => []UndisturbedForceLocks
BY Inductive, InvImplies, PTL

=============================================================================
