---------------------------- MODULE TriggerCenter ----------------------------
(***************************************************************************)
(* The two pages that fire the system's features by hand, and the          *)
(* diagnostics routes behind them: the Trigger Center                      *)
(* (apps/web/app/(dashboard)/dashboard/trigger, components/trigger,        *)
(* lib/trigger-actions.ts, lib/audit-pivot.ts), the diagnostics matrix of  *)
(* the Account page (components/account), the token-inspector route and    *)
(* apps/api/src/diagnostics/routes.rs.                                     *)
(*                                                                         *)
(* Every card awaits a run of its own, so the answers of several cards     *)
(* come back in any order while the form is edited and time passes.  The   *)
(* login rate limit and the brute-force store are the library's: external. *)
(* The lockout routes make several calls of that store, and two of them    *)
(* interleave between any two calls.                                       *)
(***************************************************************************)
EXTENDS Integers, FiniteSets

CONSTANTS
  Emails,      \* what the credentials form may hold
  Decks,       \* bounds the cards used in one behaviour: sets of cards of one page
  Limit,       \* logins the limiter lets through in a window
  Window,      \* the limiter's window, in seconds
  Attempts,    \* logins of one hammer run
  MaxAttempts, \* failures that lock an identifier
  DevTooling,  \* not a production build
  Slots        \* bounds the lockout requests being served

TriggerCards == {"register", "login", "mfa", "rotate", "hammer", "lockout", "verify", "reset", "provoke"}
AccountCards == {"hash", "force", "hooks", "inspect"}

ASSUME TriggerAssumption ==
  /\ Emails # {}
  /\ \A deck \in Decks : deck \subseteq TriggerCards \/ deck \subseteq AccountCards
  /\ Limit \in Nat \ {0} /\ Window \in Nat \ {0} /\ MaxAttempts \in Nat \ {0}
  /\ Attempts \in Nat /\ Attempts > Limit
  /\ DevTooling \in BOOLEAN

None == -1
Cards == TriggerCards \cap UNION Decks
Diagnostics == (AccountCards \ {"inspect"}) \cap UNION Decks
Demo == "demo"             \* the identifier of the matrix's lockout card
Identifiers == Emails \cup {Demo}
LoginCards == {"login", "mfa", "hammer", "provoke"}
Tokens == {"blank", "forged", "signed"}
Statuses == {"loading", "unauthenticated", "authenticated"}

VARIABLES
  deck,      \* the cards that are used, and so the page at hand
  email,     \* the credentials form
  card,      \* per card: pending, the result, its countdown
  run,       \* per card: the run in flight
  facets,    \* the actor and event facets of the URL
  limiter,   \* logins used in the window, and its seconds left (0: no window)
  failures,  \* the brute-force store: failures per identifier, up to MaxAttempts
  jobs,      \* the lockout requests being served
  status,    \* the Account page's session status
  diag,      \* the matrix's one-shot actions
  inspector  \* the matrix's token inspector

triggerVars == <<email, card, run, facets>>
accountVars == <<status, diag, inspector>>
vars == <<deck, triggerVars, limiter, failures, jobs, accountVars>>

-----------------------------------------------------------------------------
(* A result is how the request ended, and the Retry-After it               *)
(* shows; rolled, a history, tells a window of the limiter ended in the    *)
(* meantime.  The countdown holds what is left on screen; open and reused  *)
(* are histories: the window the Retry-After is of has not ended, and the  *)
(* countdown went on through a result with the same seconds.               *)
NoResult == [status |-> "none", retry |-> None, rolled |-> FALSE]
FreshCard == [pending |-> FALSE, result |-> NoResult, remaining |-> 0, open |-> FALSE, reused |-> FALSE]

(* A run: the e-mail of the render it was fired from, the calls it made,   *)
(* and the reply to the last one.                                          *)
NoRun == [phase |-> "idle", email |-> "", calls |-> 0, reply |-> "none", retry |-> None,
          rolled |-> FALSE, open |-> FALSE]

(* The facet a card pivots by: only two features emit an audit event.      *)
Event(k) == CASE k = "register" -> "after_register"
              [] k = "login"    -> "after_login"
              [] OTHER          -> "null"

OnAccount == deck \subseteq AccountCards

(* What the Account page shows, and whether the matrix is on it.           *)
AccountShows ==
  CASE status = "loading"         -> {"skeleton"}
    [] status = "unauthenticated" -> {"sign in"}
    [] OTHER -> {"identity", "status badges"} \cup (IF DevTooling THEN {"matrix"} ELSE {"notice"})

MatrixShown == OnAccount /\ "matrix" \in AccountShows

-----------------------------------------------------------------------------
(* The limiter answers a login with what is left of the window once it is  *)
(* used up; the header and the body may both lack the seconds.             *)
Limited == limiter.left > 0 /\ limiter.used = Limit

Counted == IF limiter.left = 0 THEN [used |-> 1, left |-> Window]
           ELSE [limiter EXCEPT !.used = @ + 1]

(* The countdown keeps its interval while Retry-After stays the same.      *)
Keeps(k, result) == result.retry # None /\ result.retry = card[k].result.retry

Shown(k, result, open, remaining) ==
  [pending |-> FALSE, result |-> result, remaining |-> remaining, open |-> open,
   reused |-> Keeps(k, result)]

(* VARIANT: the effect restarts the interval without setting the count.    *)
ShowingUncounted(k, result, open) ==
  Shown(k, result, open,
        IF result.retry = None THEN 0
        ELSE IF card[k].result.retry = None THEN result.retry
        ELSE card[k].remaining)

Showing(k, result, open) ==
  Shown(k, result, open,
        IF result.retry = None THEN 0
        ELSE IF Keeps(k, result) THEN card[k].remaining
        ELSE result.retry)

PivotTo(actor, event) == facets' = [actor |-> actor, event |-> event]

-----------------------------------------------------------------------------
(* The cards.                                                              *)
EditEmail(e) ==
  /\ ~OnAccount /\ e # email
  /\ email' = e
  /\ UNCHANGED <<deck, card, run, facets, limiter, failures, jobs, accountVars>>

FreeSlots == {s \in Slots : jobs[s].step = "free"}

(* A lockout request: who waits for its answer, how many failures it       *)
(* recorded and what it found out; attempts is the count its last record   *)
(* returned, MaxAttempts for any beyond.  disturbed, a history, tells the  *)
(* identifier's failures were cleared since it began.                      *)
NoJob == [step |-> "free", from |-> "nobody", id |-> Demo, records |-> 0, attempts |-> 0,
          failed |-> FALSE, locked |-> FALSE, left |-> FALSE, disturbed |-> FALSE]
NewJob(from, id, step) == [NoJob EXCEPT !.step = step, !.from = from, !.id = id]

Fire(k) ==
  /\ k \in deck /\ ~card[k].pending
  /\ card' = [card EXCEPT ![k].pending = TRUE]
  /\ run' = [run EXCEPT ![k] = [NoRun EXCEPT !.phase = "sent", !.email = email, !.calls = 1]]
  /\ IF k = "lockout"
     THEN \E s \in FreeSlots : jobs' = [jobs EXCEPT ![s] = NewJob("card", email, "record")]
     ELSE UNCHANGED jobs
  /\ UNCHANGED <<deck, email, facets, limiter, failures, accountVars>>

Reply(k, reply, retry) ==
  run' = [run EXCEPT ![k].phase = "replied", ![k].reply = reply, ![k].retry = retry,
                     ![k].open = reply = "limited"]

(* The API's answer: a login is limited, or succeeds or is refused.  Only  *)
(* the hammer tells its answers apart.                                     *)
Serve(k) ==
  /\ run[k].phase = "sent" /\ k # "lockout"
  /\ \/ /\ k \in LoginCards /\ Limited
        /\ IF k = "hammer" THEN \E retry \in {limiter.left, None} : Reply(k, "limited", retry)
           ELSE Reply(k, "answered", None)
        /\ UNCHANGED limiter
     \/ /\ ~(k \in LoginCards /\ Limited)
        /\ \E reply \in IF k = "hammer" THEN {"ok", "refused"} ELSE {"answered"} : Reply(k, reply, None)
        /\ limiter' = IF k \in LoginCards THEN Counted ELSE limiter
  /\ UNCHANGED <<deck, email, card, facets, failures, jobs, accountVars>>

(* A run ends: the card shows its result and the facets name its request.  *)
Settle(k, ending) ==
  /\ card' = [card EXCEPT ![k] = Showing(k, [status |-> ending,
                                            retry |-> run[k].retry, rolled |-> run[k].rolled],
                                         run[k].open)]
  /\ run' = [run EXCEPT ![k] = NoRun]
  /\ PivotTo(run[k].email, Event(k))
  /\ UNCHANGED <<deck, email, limiter, failures, accountVars>>

(* VARIANT: the loop makes one attempt less.                               *)
HammersOnOnceLess(k) == k = "hammer" /\ run[k].reply = "ok" /\ run[k].calls + 1 < Attempts

HammersOn(k) == k = "hammer" /\ run[k].reply = "ok" /\ run[k].calls < Attempts

Answered(k) ==
  /\ run[k].phase = "replied" /\ ~HammersOn(k)
  /\ Settle(k, IF run[k].reply = "ok" THEN "exhausted" ELSE run[k].reply)
  /\ UNCHANGED jobs

(* The hammer's loop sends the next login.                                 *)
HammerAgain(k) ==
  /\ run[k].phase = "replied" /\ HammersOn(k)
  /\ run' = [run EXCEPT ![k].phase = "sent", ![k].calls = @ + 1, ![k].reply = "none"]
  /\ UNCHANGED <<deck, email, card, facets, limiter, failures, jobs, accountVars>>

(* The network fails: every run but the hammer's catches it.               *)
Orphaned(from) == [s \in Slots |-> IF jobs[s].from = from THEN [jobs[s] EXCEPT !.from = "nobody"]
                                   ELSE jobs[s]]

Rejected(k) ==
  /\ run[k].phase = "sent" /\ k # "hammer"
  /\ Settle(k, "answered")
  /\ jobs' = IF k = "lockout" THEN Orphaned("card") ELSE jobs

(* VARIANT: pending is cleared after the await, not in a finally block.    *)
HammerRejectedNoFinally(k) ==
  /\ run[k].phase = "sent" /\ k = "hammer"
  /\ run' = [run EXCEPT ![k] = NoRun]
  /\ UNCHANGED <<deck, email, card, facets, limiter, failures, jobs, accountVars>>

HammerRejected(k) ==
  /\ run[k].phase = "sent" /\ k = "hammer"
  /\ card' = [card EXCEPT ![k].pending = FALSE]
  /\ run' = [run EXCEPT ![k] = NoRun]
  /\ UNCHANGED <<deck, email, facets, limiter, failures, jobs, accountVars>>

(* A second passes: the countdowns on screen and the limiter's window.     *)
Tick ==
  LET ends == limiter.left = 1
  IN  /\ limiter.left > 0 \/ \E k \in Cards : card[k].remaining > 0
      /\ limiter' = IF limiter.left <= 1 THEN [used |-> 0, left |-> 0]
                    ELSE [limiter EXCEPT !.left = @ - 1]
      /\ card' = [k \in Cards |->
                    [card[k] EXCEPT !.remaining = IF @ > 0 THEN @ - 1 ELSE 0,
                                    !.open = @ /\ ~ends]]
      /\ run' = [k \in Cards |->
                   IF run[k].phase = "idle" THEN run[k]
                   ELSE [run[k] EXCEPT !.rolled = @ \/ (ends /\ k = "hammer"), !.open = @ /\ ~ends]]
      /\ UNCHANGED <<deck, email, facets, failures, jobs, accountVars>>

-----------------------------------------------------------------------------
(* The diagnostics routes, one call of the store at a time.                *)
Locked(id) == failures[id] = MaxAttempts

UncheckedByJobs == <<deck, triggerVars, limiter, accountVars>>

RecordFailure(s) ==
  LET count == IF Locked(jobs[s].id) THEN MaxAttempts ELSE failures[jobs[s].id] + 1
  IN  /\ jobs[s].step = "record"
      /\ failures' = [failures EXCEPT ![jobs[s].id] = count]
      /\ jobs' = [jobs EXCEPT ![s].step = "check", ![s].records = @ + 1, ![s].attempts = count]
      /\ UNCHANGED UncheckedByJobs

(* VARIANT: the loop runs one time less.                                   *)
CheckLockOnceLess(s) ==
  /\ jobs[s].step = "check"
  /\ jobs' = [jobs EXCEPT ![s].step =
                IF Locked(jobs[s].id) \/ jobs[s].records + 1 >= MaxAttempts THEN "locked" ELSE "record"]
  /\ UNCHANGED <<failures, UncheckedByJobs>>

CheckLock(s) ==
  /\ jobs[s].step = "check"
  /\ jobs' = [jobs EXCEPT ![s].step =
                IF Locked(jobs[s].id) \/ jobs[s].records = MaxAttempts THEN "locked" ELSE "record"]
  /\ UNCHANGED <<failures, UncheckedByJobs>>

ReadLock(s) ==
  /\ jobs[s].step = "locked"
  /\ jobs' = [jobs EXCEPT ![s] = [@ EXCEPT !.step = "left", !.locked = Locked(jobs[s].id)]]
  /\ UNCHANGED <<failures, UncheckedByJobs>>

ReadRemaining(s) ==
  /\ jobs[s].step = "left"
  /\ jobs' = [jobs EXCEPT ![s] = [@ EXCEPT !.step = "done", !.left = Locked(jobs[s].id)]]
  /\ UNCHANGED <<failures, UncheckedByJobs>>

(* The store cannot be reached: AppError.                                  *)
StoreFails(s) ==
  /\ jobs[s].step \in {"record", "check", "locked", "left", "reset"}
  /\ jobs' = [jobs EXCEPT ![s] = [@ EXCEPT !.step = "done", !.failed = TRUE]]
  /\ UNCHANGED <<failures, UncheckedByJobs>>

Cleared(id) == [t \in Slots |-> IF jobs[t].id = id THEN [jobs[t] EXCEPT !.disturbed = TRUE] ELSE jobs[t]]

ResetFailures(s) ==
  /\ jobs[s].step = "reset"
  /\ failures' = [failures EXCEPT ![jobs[s].id] = 0]
  /\ jobs' = [Cleared(jobs[s].id) EXCEPT ![s].step = "done"]
  /\ UNCHANGED UncheckedByJobs

(* The store forgets an identifier when its window is over.                *)
Expire(id) ==
  /\ failures[id] > 0
  /\ failures' = [failures EXCEPT ![id] = 0]
  /\ jobs' = Cleared(id)
  /\ UNCHANGED UncheckedByJobs

(* Another client's force-lockout or reset-lockout of an identifier the    *)
(* page is about (of the trigger page's, one), and its end.                *)
IdsAtHand == IF "force" \in deck THEN {Demo} 
             ELSE IF "lockout" \in deck THEN {CHOOSE e \in Emails : TRUE} ELSE {}

OtherClient(s, id, step) ==
  /\ jobs[s].step = "free" /\ id \in IdsAtHand
  /\ jobs' = [jobs EXCEPT ![s] = NewJob("nobody", id, step)]
  /\ UNCHANGED <<failures, UncheckedByJobs>>

OtherDone(s) ==
  /\ jobs[s].step = "done" /\ jobs[s].from = "nobody"
  /\ jobs' = [jobs EXCEPT ![s] = NoJob]
  /\ UNCHANGED <<failures, UncheckedByJobs>>

(* The Trigger Center's lockout card gets its answer.                      *)
LockoutAnswered(s) ==
  /\ ~OnAccount /\ jobs[s].step = "done" /\ jobs[s].from = "card"
  /\ Settle("lockout", "answered")
  /\ jobs' = [jobs EXCEPT ![s] = NoJob]

-----------------------------------------------------------------------------
(* The matrix: each action is idle, busy, failed or holds its data, which  *)
(* for the lockout card is what its request found out.                     *)
Unknown == [locked |-> FALSE, left |-> FALSE, disturbed |-> FALSE]
Idle == [k |-> "idle", data |-> Unknown]
FreshInspector == [token |-> "blank", sent |-> "none", verdict |-> "none", problem |-> FALSE]

Run(d) ==
  /\ MatrixShown /\ d \in deck /\ diag[d].k # "busy"
  /\ diag' = [diag EXCEPT ![d] = [k |-> "busy", data |-> Unknown]]
  /\ IF d = "force"
     THEN \E s \in FreeSlots : jobs' = [jobs EXCEPT ![s] = NewJob("card", Demo, "record")]
     ELSE UNCHANGED jobs
  /\ UNCHANGED <<deck, triggerVars, limiter, failures, status, inspector>>

RunEnds(d, k, data) ==
  /\ diag' = [diag EXCEPT ![d] = [k |-> k, data |-> data]]
  /\ UNCHANGED <<deck, triggerVars, limiter, failures, status, inspector>>

RunAnswered(d) ==
  /\ diag[d].k = "busy" /\ d # "force"
  /\ \E k \in {"ok", "error"} : RunEnds(d, k, Unknown)
  /\ UNCHANGED jobs

ForceAnswered(s) ==
  /\ OnAccount /\ jobs[s].step = "done" /\ jobs[s].from = "card"
  /\ IF jobs[s].failed THEN RunEnds("force", "error", Unknown)
     ELSE RunEnds("force", "ok", [locked |-> jobs[s].locked, left |-> jobs[s].left,
                                  disturbed |-> jobs[s].disturbed])
  /\ jobs' = [jobs EXCEPT ![s] = NoJob]

ForceRejected ==
  /\ "force" \in deck /\ diag["force"].k = "busy"
  /\ RunEnds("force", "error", Unknown)
  /\ jobs' = Orphaned("card")

(* The badge of the lockout card.                                          *)
LockoutBadge ==
  LET force == diag["force"]
  IN  IF "force" \notin deck \/ force.k # "ok" THEN "none"
      ELSE IF force.data.left THEN "locked, retry in"
      ELSE IF force.data.locked THEN "locked"
      ELSE "lockout triggered"

EditToken(t) ==
  /\ MatrixShown /\ "inspect" \in deck /\ t # inspector.token
  /\ inspector' = [inspector EXCEPT !.token = t]
  /\ UNCHANGED <<deck, triggerVars, limiter, failures, jobs, status, diag>>

Inspect ==
  /\ MatrixShown /\ "inspect" \in deck /\ inspector.sent = "none"
  /\ inspector' = [inspector EXCEPT
       !.verdict = "none", !.problem = inspector.token = "blank",
       !.sent = IF inspector.token = "blank" THEN "none" ELSE inspector.token]
  /\ UNCHANGED <<deck, triggerVars, limiter, failures, jobs, status, diag>>

(* The inspect-token route: what does not decode or verify is rejected,    *)
(* and so is a signed token when the secret is not configured.             *)
InspectRoute(t) ==
  IF ~DevTooling THEN {"404"}
  ELSE IF t = "signed" THEN {"valid", "rejected"} ELSE {"rejected"}

Inspected ==
  /\ inspector.sent # "none"
  /\ \E answer \in InspectRoute(inspector.sent) \cup {"network"} :
       inspector' = IF answer \in {"valid", "rejected"}
                    THEN [inspector EXCEPT !.sent = "none", !.verdict = answer]
                    ELSE [inspector EXCEPT !.sent = "none", !.problem = TRUE]
  /\ UNCHANGED <<deck, triggerVars, limiter, failures, jobs, status, diag>>

(* The session provider changes its mind: the matrix goes with the profile *)
(* and an answer under way finds nothing to update.                        *)
StatusChanges(s) ==
  /\ OnAccount /\ s # status
  /\ status' = s
  /\ diag' = [d \in Diagnostics |-> Idle]
  /\ inspector' = FreshInspector
  /\ jobs' = Orphaned("card")
  /\ UNCHANGED <<deck, triggerVars, limiter, failures>>

-----------------------------------------------------------------------------
Init ==
  /\ deck \in Decks
  /\ email = CHOOSE e \in Emails : TRUE
  /\ card = [k \in Cards |-> FreshCard]
  /\ run = [k \in Cards |-> NoRun]
  /\ facets = [actor |-> "null", event |-> "null"]
  /\ limiter = [used |-> 0, left |-> 0]
  /\ failures = [id \in Identifiers |-> 0]
  /\ jobs = [s \in Slots |-> NoJob]
  /\ status = "loading"
  /\ diag = [d \in Diagnostics |-> Idle]
  /\ inspector = FreshInspector

CardStep(k) == Serve(k) \/ Answered(k) \/ HammerAgain(k) \/ Rejected(k) \/ HammerRejected(k)

JobStep(s) ==
  \/ RecordFailure(s) \/ CheckLock(s) \/ ReadLock(s) \/ ReadRemaining(s)
  \/ StoreFails(s) \/ ResetFailures(s) \/ OtherDone(s) \/ LockoutAnswered(s) \/ ForceAnswered(s)

Next ==
  \/ \E e \in Emails : EditEmail(e)
  \/ \E k \in Cards : Fire(k) \/ CardStep(k)
  \/ Tick
  \/ \E s \in Slots : JobStep(s)
  \/ \E id \in Identifiers : Expire(id)
  \/ \E s \in Slots, id \in Identifiers, step \in {"record", "reset"} : OtherClient(s, id, step)
  \/ \E d \in Diagnostics : Run(d) \/ RunAnswered(d)
  \/ ForceRejected
  \/ \E t \in Tokens : EditToken(t)
  \/ Inspect \/ Inspected
  \/ \E s \in Statuses : StatusChanges(s)

Spec == Init /\ [][Next]_vars

-----------------------------------------------------------------------------
(* Properties                                                              *)

(* Type invariant: a card is pending exactly while its run is in flight,   *)
(* and waits for at most one lockout request.                              *)
TypeOK ==
  /\ deck \in Decks /\ email \in Emails /\ status \in Statuses
  /\ \A k \in Cards :
       /\ card[k].pending <=> run[k].phase # "idle"
       /\ card[k].remaining \in 0..Window
       /\ run[k].calls \in 0..Attempts
  /\ limiter.used \in 0..Limit /\ limiter.left \in 0..Window
  /\ failures \in [Identifiers -> 0..MaxAttempts]
  /\ \A s, t \in Slots : jobs[s].from = "card" /\ jobs[t].from = "card" => s = t
  /\ \A s \in Slots : jobs[s].records \in 0..MaxAttempts

(* A countdown never tells the user to retry before the limiter would let  *)
(* a login through, if the result on screen started it.  One that was      *)
(* started by an earlier 429 with the same seconds, and that the effect    *)
(* left running, is excepted: it does end early (TriggerCard.tsx           *)
(* RetryCountdown).                                                        *)
CountdownNeverEarly ==
  \A k \in Cards : card[k].open /\ card[k].result.retry # None /\ ~card[k].reused
                     => card[k].remaining >= limiter.left

(* The hammer trips the limit: a run whose logins all succeed can only end *)
(* without a 429 when a window of the limiter ended on the way             *)
(* (trigger-actions.ts hammerLogin).                                       *)
HammerTripsLimit ==
  \A k \in Cards : card[k].result.status = "exhausted" => card[k].result.rolled

(* A lockout request that met neither a reset nor the end of the window    *)
(* answers that the identifier is locked, how long, and a count that has   *)
(* every failure it recorded, however many others drive the same           *)
(* identifier, and the badge says so (diagnostics/routes.rs force_lockout).*)
UndisturbedForceLocks ==
  /\ \A s \in Slots :
       jobs[s].step = "done" /\ jobs[s].records > 0 /\ ~jobs[s].failed /\ ~jobs[s].disturbed
         => jobs[s].locked /\ jobs[s].left /\ jobs[s].attempts >= jobs[s].records
  /\ LockoutBadge \in {"locked", "lockout triggered"} => diag["force"].data.disturbed

=============================================================================
