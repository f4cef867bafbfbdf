# A model of rust-auth-example

The repository is an axum API (`apps/api`), a Next.js console (`apps/web`) and the glue that
makes an external authentication engine (the `bymax-auth-*` crates, the `@bymax-one/rust-auth`
packages) into an application. The engine signs tokens, keeps sessions, tickets and counters;
none of its code is here, so whatever it does appears in these modules as an *external* step,
modelled from how `apps/` uses it. What is here, and what is modelled, is the state the
application keeps around it and the concurrency that state lives in.

## Inventory

| Component | State | Operations | Talks to |
|---|---|---|---|
| Session-event fan-out (`realtime.rs`, `ws/mod.rs`) | one broadcast ring; per socket a receiver, a claims snapshot, a select loop | redeem, subscribe, upgrade, recv, lag, send, close | hooks (publish), browser tabs (frames), ticket store |
| Lifecycle hooks and audit writes (`hooks/audit.rs`) | none of their own | publish a session event, insert a row | fan-out, `audit_log` |
| Audit reads (`audit/routes.rs`) | per response a cursor and a fetched batch | list by keyset, stream with `Last-Event-ID`, aggregate | `audit_log`, console |
| User and platform repositories (`repository/`) | `users`, `platform_users` rows | create, create with OAuth, link, unconditional updates | engine, PostgreSQL constraints |
| OAuth policy and HTTP client (`oauth/`, `hooks/oauth_policy.rs`) | none | create / link / reject, exchange over TLS | engine, provider |
| API guards (`guards/mod.rs`) | none | decide from a token | every protected route |
| Edge gate (`apps/web/proxy.ts`) | none | pass, or redirect to one of two logins | every navigation of the console |
| Platform console (`app/platform`, `components/mfa` code input, `lib/platform-client.ts`) | login form and cells, list of sessions, one refresh in flight | sign in, challenge, navigate, revoke all, sign out | edge gate, engine, platform read API |
| Diagnostics (`diagnostics/routes.rs`) | counters in the engine's store | force, reset and read a lockout | Trigger Center, Account page |
| Trigger Center (`dashboard/trigger`, `components/trigger`, `lib/trigger-actions.ts`) | per card a run, a result, a countdown | fire, hammer, pivot to the audit | engine's routes and limiter, diagnostics |
| Account page and its diagnostics matrix (`components/account`) | session status, one-shot actions, a token inspector | run, edit, inspect | diagnostics |
| Overview, Invitations and OAuth panel (`(dashboard)/page.tsx`, `invitations`, `oauth`) | load state, invite form, the URL | load, invite, retry | aggregate, invitation routes |
| Shell, session badge, error messages (`components/shell`, `lib/error-messages.ts`) | overlay, tenant in the URL | navigate, switch, sign out | session provider |
| E-mail delivery (`email/`) | none | render, send, report failure | engine, provider |
| Boot and shutdown (`main.rs`, `app.rs`, `config/`, `engine/`) | settings, connection handles | validate, wire, serve, drain | everything |
| New-session alerts (`hooks/use-new-session-alerts.ts`, `lib/ws-ticket.ts`) | a socket, a cancelled flag | mint, connect, toast, clean up | fan-out, sessions page |
| Sessions page (`dashboard/sessions/page.tsx`) | list, status, the revocation in flight | load, revoke optimistically, roll back, sign out others | engine's session routes, alerts |
| Live tail hook (`hooks/use-audit-tail.ts`) | rows, follow mode, badge | toggle, follow, dispatch | audit reads |
| Audit Explorer (`dashboard/audit`, `components/audit`, `lib/audit-api.ts`) | a page of rows, tail rows, filter, scroll offset | load, toggle, filter, scroll | audit reads, live tail |
| MFA panels (`dashboard/security`, `platform/security`) | panel mode, draft secret, codes | enrol, verify, regenerate, disable | engine's MFA routes |
| Sign-in, reset and challenge pages (`app/(public)/auth`) | single-read slots, wizard steps | log in, challenge, verify, reset | engine |
| Browser clients (`lib/platform-client.ts`, `lib/auth-client.ts`, `lib/api.ts`) | one refresh in flight | fetch, refresh once, replay | engine |
| Next.js routes, root layout, providers (`app/api`, `app/layout.tsx`) | none | delegate | engine |
| Presentation (`components/ui`) | none beyond a render | render | |

How they interact, and what is hard:

* **Two writers, one hook.** `on_new_session` publishes on the ring and then inserts a row; each
  half can fail or go unheard without the other. *Correct* means an audit outage costs no alert.
* **A ring with overwriting.** Each socket reads at its own pace; one that falls
  `SESSION_EVENT_CAPACITY` behind jumps forward. *Correct* means nothing else is ever missed, and
  that the receiver exists before the 101 is on the wire.
* **One channel for everybody.** Every socket sees every user's events. *Correct* means the claims
  snapshot of the redeemed ticket filters them, whoever presented the ticket, and that one ticket
  opens one socket.
* **A table read by cursor while it is written.** Ids are drawn when an insert runs and become
  visible when it commits. *Correct* means a reader never repeats a row and knows exactly which
  rows it can miss; two documents promise more than that (see *Findings*).
* **Connections that drop with data in flight.** What the browser dispatched, what is on the wire
  and what the server fetched are three different things; only the first counts for resuming.
* **Look up, decide, write.** A provider callback is several statements with an audit write in
  between, and the update that links is by id alone. *Correct* means one account per address and
  identity, and an identity that an account loses only to somebody who was shown it before it was bound.
* **Awaits in the browser.** An unmount, a second click or a socket frame arrives between a
  request and its answer; optimistic updates are rolled back to a state that may be stale. A code
  input fires again with every edit of a full code. *Correct* means that what the screen asks the
  user to scan, save or submit is what the server will accept.
* **One cookie, two domains.** Dashboard and platform tokens share the access cookie, and three
  places (edge, layout, page) judge it one after the other. *Correct* means that nobody is told of an
  expired session who had none, and that no button is left dead, or free too soon, by an answer.
* **Counters under a loop.** A forced lockout and a burst of logins are loops of calls of a store
  that others use and whose windows end meanwhile. *Correct* means what they report still holds, or
  that something did interfere.
* **A window over a moving list.** The table renders a slice by the offset of the last scroll
  event while rows, filters and the browser's clamping move the real one.

`PROJECT.json` lists each hazard at the line where it bites, with the properties that cover it, or a
note that says why none does. Where the code does go wrong and a property has to except it, by a
history such as `overlapped`, `abandoned`, `uncertain`, `reused` or `disturbed`, the note says so, and
does not count the case as covered.

## Modules

| Module | Models | Extends / composes |
|---|---|---|
| `SessionAlerts` | abstract: what a subscriber of the alerts is promised | |
| `SessionFanout` | hooks' publish, tickets, browser hook, handshake, forward loop | instance of `SessionAlerts` (`Alerts`) |
| `SessionFanout_proofs` | its theorems | `SessionFanout` |
| `AuditLog` | the table, its sequence and the writers | |
| `AuditTail` | SSE stream, EventSource, `useAuditTail` | `AuditLog` |
| `AuditPaging` | keyset listing and a caller walking it | `AuditLog` |
| `AuditExplorer` | the Explorer's page, its tail rows and the windowed table, beside the walker | `AuditPaging` |
| `Audit_proofs` | the theorems of the audit modules | `AuditTail`, `AuditExplorer` |
| `SessionsPage` | the device manager: overlapping loads, revokes and rollbacks against the engine's session store | |
| `SessionsPage_proofs` | its theorems | `SessionsPage` |
| `AuthPages` | sign-in, registration, challenge, reset, verification and invitation pages of a tab | |
| `AuthPages_proofs` | its theorems | `AuthPages` |
| `AccountDirectory` | abstract: an identity has one account at a time, and callbacks are answered with it | |
| `OAuthAccounts` | the users table, provider callbacks with their policy, registrations, status changes | instance of `AccountDirectory` (`Directory`) |
| `MfaPanel` | both Security pages: enrolment, disabling, new recovery codes, the grid's copy button | |
| `Accounts_proofs` | the theorems of both | `OAuthAccounts`, `MfaPanel` |
| `PlatformConsole` | a tab on the platform console: edge gate, layout, login with code cells, sessions, users, the refreshing client | |
| `PlatformConsole_proofs` | its theorems | `PlatformConsole` |
| `TriggerCenter` | the Trigger Center's cards, the diagnostics matrix and the lockout routes behind both | |
| `TriggerCenter_proofs` | its theorems | `TriggerCenter` |
| `DashboardPages` | shell, Overview, Invitations and OAuth panel | |
| `DashboardPages_proofs` | its theorems | `DashboardPages` |
| `MC*` | the small instances | |

### SessionFanout

The state and where it lives:

* `Subject` gives each call of the hook the account whose session it is about: a call publishes one
  event, for an account that is fixed from outside. The insert that follows may fail or not, which
  nothing here depends on, so `RecordSession` has one outcome, `returned`.
* `hook`, `unheard`, `published`, `shut`: the calls of `AuditAuthHooks::on_new_session` and the
  tokio channel behind `AppState.session_events`. `published` keeps everything ever stored, so that
  properties can speak of history; `Oldest` is the first position the ring still holds. A `send`
  with no receiver stores nothing (`unheard`): a new receiver never sees events from before it.
* `ticket`, `owner`, `tab`: the ticket store and `useNewSessionAlerts`. A mount mints, and only a
  mount that was not cancelled meanwhile opens a socket (`OpenSocket`); a refusal degrades silently.
* `sock`, `url`, `claims`, `next`, `since`, `sent`, `away`: the server's side of a connection, in
  the order of `ws/mod.rs`: `dialing` - `redeemed` (33-50) - `subscribed` (51) - `connected` (the
  101, 52-53) - `tailing`/`sending` (106-143) - `ended`. `since` remembers how much had been
  published when the 101 went out. `Replayers` present a copy of a tab's URL.

Every branch of the `select!` is an action: `RecvEvent`, `RecvLagged`, `RecvClosed`, `PeerClosed`,
`SendText`, `SendTextFails`. A write to a peer that has left may succeed (it is buffered) or fail.
`Redeem` refuses an unknown or spent ticket, and may refuse a live one and leave it live, when the
store fails.

### AuditLog, AuditTail, AuditPaging

* `call`, `rowId`, `sequence`, `committed`: `record()` is one autocommitted INSERT; the statement
  draws an id (`Insert`), its transaction commits (`Commit`) or fails and the id is lost
  (`RecordFails`). `committed` is in order of visibility, so `Late(id)` can say that a row appeared
  after a row with a higher id. What is recorded is the event name; actor, IP and user agent
  only matter to a filter, which is the set `Wanted`.
* `last`, `batch`: the stream's cursor and what a poll fetched (`routes.rs` 202-268). The cursor
  moves before the event is yielded. A failed poll (`PollFails`) changes nothing.
* `source`, `lastEventId`, `wire`: the EventSource. A drop loses `wire` and `batch`; a refusal ends it.
* `rows`, `followingRef`, `badge` are what `useAuditTail` reads and queues in its handlers;
  `following`, `pending`, `shown` are what the last render showed. A handler reads the ref at once
  and queues its updates (`queued`); React renders them later (`Render`), so rows arrive between the
  two. Only the jump button is a click, whose own updates React renders at once (`PinByClick`).
* `opened` and `seenUpTo` are history: how many rows there were when the EventSource was made, and
  when the view last followed.
* `walk`, `cursor`, `pages`, `baseline`: a caller of `GET /audit/logs`, each page with a limit of
  its own, clamped to `1..MAX_LIMIT`; `hasMore` comes from a surplus row. A page is the set of its
  ids, which its ORDER BY lays out; `PagingIsExact` says that the pages of a finished walk have
  every row of its start and that each page lies below the one before it.

### AuditExplorer

* `reader` picks whose behaviour it is: the walker's of `AuditPaging` or the Explorer's. They share
  the table and its writers and nothing else, and run one at a time to keep the instance small.
* `loads`, `pageRows`, `tailRows`, `facet`: the page is fetched at mount and by Retry after an error; an
  answer replaces it whichever load it is of. `pageRows` is the set of the page's ids (it is shown
  newest first); `tailRows` is a sequence, since a row can be in it twice; what the table does
  depends on `Count`, how many of both the facet lets through. `Arrives` is what `AuditTail` says of an EventSource:
  rows in id order after `sent`, from the first one again when Live is switched off and on, so rows
  can be listed twice.
* `scrollTop` is the table's state, `offset` the container's own. The browser clamps `offset` when
  the content shrinks, starts at 0 when the container is mounted, and dispatches a scroll event
  (`scrolled`) later, from which `HandleScroll` sets `scrollTop` and leaves follow mode. `adrift` is
  history: the container was mounted anew since the last event. `ViewportIsRendered` excepts it,
  because there the code does go wrong (*Findings*).
* The follow effect runs after the commit that changed its dependencies: the commit owes it (`owed`)
  and `Pin` runs it. A scroll event may be handled in between, with the offset from before it.

### MfaPanel

* The two pages are copies; `panel` says which, and the actions that differ name it. A call is
  `sent`, served (`ok` or `refused`) or lost, and then answered to the panel, in any order.
* `setup`, `newCodes` and `factor`, the server's record, hold *numbers*: a secret and a set of codes are numbered in the
  order the server minted them, so that a property can say "the one in force".
* `status` is the dashboard's session: while it loads the page shows a skeleton and offers nothing,
  whatever its mode (`SessionStatus`). The platform page has no such session.
* `uncertain` and `overlapped` are history and name what the properties except: a lost answer, a
  failed `/me`, an enrolment cancelled while its code is checked; two calls with a code in flight.

### PlatformConsole

* `nav` is a navigation and how far it got: the edge (`proxy.ts`, which reads the domain of the
  cookie), the layout (which reads it again) and the page (whose own request is answered 401 or
  not). Between any two the cookie may expire or be overwritten by a dashboard sign-in.
* `calls` with `at`: a 401 makes a call wait (`waiting`); one `refreshing` serves all who wait, and
  each is replayed once (`replay`). `mine` tells whether the page that made it is still mounted; an
  answer without it sets no state, but still navigates.
* `values` are the cells; the code is handed up by every change that leaves them full
  (`pendingMfaCode`), and not taken back when one is cleared: what Verify then submits is not on
  screen, which no property excludes and no document denies.
* The single flight of the refresh is the library's (`createAuthFetch`), so it is modelled as its
  configuration in `lib/platform-client.ts` lets one expect, and nothing is claimed of it.

### TriggerCenter

* `deck` is the set of cards that are used, which bounds the instance; it also says which page is
  at hand. `run` is a card's request with the e-mail of its render, `card` what it shows.
* `limiter` and `failures` are the library's: a window that counts logins, and failures per
  identifier up to the threshold. A lockout request (`jobs`) makes one call of the store per step,
  as `force_lockout` does: record, check, ..., is it locked, how long. Its answer has the count that
  the last record returned (`attempts`), whether it is locked (`locked`) and for how long (`left`).
* `rolled`, `open`, `reused`, `disturbed` are history: the window ended during the run; the window of
  a Retry-After has not ended; the countdown went on through a result with the same seconds; the
  failures were cleared while the request was served. `CountdownNeverEarly` excepts a countdown that
  is `reused`: the effect depends on the seconds alone, so a second 429 with the same number does not
  restart it, and it ends before the window does (*Findings*).

### DashboardPages

* Loads are numbered, and each page remembers which one it shows (`of`). `due` is the first load
  that may answer what the page is due (since the sign-in, or since the last invitation);
  `overlapped` is history: two loads were in flight together.
* `lib/api.ts` and `lib/error-messages.ts` are operators over the kinds of bodies and codes.

### SessionsPage

* A request has a number, a kind (`load`, `revoke`, `others`), a phase (`sent`, then served or
  failed with or without effect, then answered) and the list that its handler captured. The engine
  serves it in one step, and the code past the `await` runs in a later one, in any order.
* The list, `status`, `revokingId`, the dialog and the busy flag are the page's `useState`s. The
  sign-out of the others is two requests (the bulk revoke, then a load) behind one flag.
* Other devices sign in and out at will (external); an alert of `SessionFanout` loads the list again.

### AuthPages

* `page`, `mount`, `going`: what is shown, which mount of it, where `router.push` is taking the
  tab. A link or Back replaces a move under way. `slot`, `held`: the two module variables that are
  cleared when read, and the `useState` that read one in its first render.
* `op`, `phase`, `from`, `who`, `gave`: a request, the mount that made it, the address it was made
  for and what its answer brought. The code past an `await` runs whether its page still exists or
  not: it fills a slot and pushes a route, but sets only the state of its own page (`Ours`).
* `busy`: `isSubmitting`, `isVerifyingRef` and `resendDisabledRef`. `ChallengePassed` keeps the
  guard over a second await (`refresh`), `ResendDone` over the cooldown.
* `taken` and `abandoned` are history: which mount read which proof, and whether a page was left
  while its request was out.

Fields are modelled where two steps read them: the e-mail of the code screen. The others are read
once, when their form is submitted, and are chosen there.

### OAuthAccounts

* `users`, `row`: the table, with the columns that its two unique indexes and the policy read. An
  account has the number of the request that inserted it, in place of the random id. The engine
  is taken to leave the status of a new account to its default, `active`.
* `asked`, `phase`, `found`, `decision`, `account`: a request. A callback is four steps of its own
  (`FindByOauthId`, `OnOauthLogin`, `RecordDecision`, then `CreateWithOauth` or `LinkOauth`), in the
  order that `docs/OVERVIEW.md` gives the engine; others run between any two. `found` is
  the row as it was then, status included: that is all the policy sees. An identity that has no
  account ends the look-up there, or else the engine goes on to a local account of the address that
  the provider has verified (`LocalMatches`): the documents have it both ways (*Findings*), so the
  model does, and its properties hold for either. The hook awaits the insert
  of an audit row between deciding and answering, whatever becomes of that insert.
* A statement that violates an index is a `conflict`, one that fails otherwise is `failed`
  (`map_sqlx_error`); either ends the request with nothing written.
* A link that would give an account the identity of another of the tenant is a conflict as well;
  otherwise it overwrites, and so two callbacks that were shown the same local account may bind it one
  after the other.
* `changed` and `bound` are history: the accounts whose status, or identity, changed since a
  callback's look-up.

## Runs

| Run | Question | Bounds |
|---|---|---|
| `session_fanout` | Do frames reach only their owner, one socket per ticket; is a cancelled mount cancelled, a departed receiver released, `SessionAlerts` implemented? | 2 users of one tenant, 3 sign-ins, 1 tab, 1 replayer, ring of 2, so that the third event overwrites the first and leaves the second |
| `audit_tail` | Does one EventSource miss only late rows; is the badge exact; does a row reach the screen of a tail that stays up? | 3 writes, batch of 2 (so a poll can be partial), 1 drop or toggle |
| `audit_tail_drop` | *finding*: no event is missed across a drop | 2 writes, 1 drop |
| `audit_explorer` | Does a finished walk give the rows of its start, each once and in order; are the rows in the viewport rendered; does follow mode stay at the end? | 4 writes for the walker with limits 0, 1, 3 and a maximum of 2; for the Explorer 2 rows, a page of 2, 2 arrivals, 2 loads, a viewport of one row |
| `oauth_accounts` | Does an identity move only to a callback that was shown the account, does an inactive sign-in need a race, is `AccountDirectory` implemented? | 3 requests, 2 tenants, 2 addresses, 2 identities |
| `sessions_page` | Is no button or skeleton left behind, is an undisturbed list true? | 2 other devices, 4 requests |
| `sessions_page_rollback` | *finding*: a failed revoke restores the row | 2 other devices, 3 requests |
| `auth_pages` | Is a proof used once, a guard freed, the session of an undisturbed tab the newest? | 1 account, 3 requests, 4 mounted pages |
| `mfa_panel` | Is the secret on screen the one the server waits for, are the saved codes in force, is there always a way on outside a skeleton? | both pages, 5 calls |
| `platform_console` | Is the full code on screen the one submitted, the expiry notice honest, a button busy just while its request is out? | 2 digits, 2 cells, 3 pages to start on, 3 calls |
| `trigger_center` | Is no countdown early that its result started, does the hammer trip the limit, does an undisturbed lockout lock? | 2 addresses, 5 decks, limit 2, window of 2 s, 3 attempts, threshold 2, 2 lockout requests at a time |
| `dashboard_pages` | Has every skeleton its load, is a report never older than what made it due? | 1 address, 5 calls |

`trigger_center` and `dashboard_pages` check for deadlock: their pages always offer something. The
other cfgs turn that check off: a system whose bounded numbers are used up, and whose user
does nothing more, has come to its regular end.

Why the bounds are enough: with three events and two slots a receiver that lags has one event that was
overwritten and one that was not, which a jump too far would lose; two users suffice for "somebody else's", two peers for "the same ticket twice"; three
rows give two that are out of order around one that is in place, and a batch that does not hold
all. Three requests are two that overlap and one that comes between them; four pages are the one
that made a request, two that are shown while it is out, and the one its answer leads to. Three
requests to the users table are two that race to insert and one that then meets the winner's row, in
its own tenant or another; tenants, addresses and identities are interchangeable, and each property
compares at most two. Accounts
are interchangeable in `auth_pages`, where no property compares them. Five calls of a Security page
are the one that reads the account, a setup, its verification and two that overlap. In the console two cells tell a
full code from a partial one, two digits the code on screen from one handed up before it, and three
calls are a sign-in, its challenge and, after Back, the next sign-in. A
limit of two and three attempts make the last login of a hammer run the one that is refused, and
two lockout requests with a threshold of two can fill the counter between them. A viewport of one
row with an overscan of one is smaller than the table as soon as it has four. The theorems lift all
the safety results to any values.

## Fairness

* Server tasks: the tokio runtime polls every task that is ready. A connection has one task at a
  time (the handler, then the upgraded one), so the handler, the receive branches and a failing
  write are one weak fairness per peer. A successful write is *not*: it may stall as long
  as its peer does. Nobody is obliged to sign in, mount, unmount or leave.
* Tail: the browser retries a lost connection (`Connect \/ Refuse`), dispatches what arrived, React
  renders what was queued, the stream task is polled, and the database is not out for ever, so that a poll succeeds eventually
  (`PollFails` is a stutter). Toggles, drops and inserts are never forced.
* Pages: a fetch settles (answered, refused or lost), the browser runs what awaits it, and timers
  go off. Nobody is obliged to click, type, follow a link or sign in elsewhere, and a push needs
  not arrive: a link may replace it.

## Theorems

`SessionFanout_proofs` proves, for any accounts, sign-ins, tabs, replayers and capacity, the
invariant `IndInv` and from it type correctness, `OnlyOwnSessions`, `OneSocketPerTicket`,
`NothingMissedAfterConnect`, `AlertSurvivesAuditOutage`, the action property
`NoSocketAfterUnmount` and that `SessionFanout` implements `SessionAlerts`. None of the
properties is inductive by itself: that a socket is sent own frames needs that the frame being
sent is own (`FrameInv`); that a ticket is used once needs that claims imply a spent ticket
(`TicketInv`); the refinement needs that frames are ascending positions behind the cursor
(`CursorInv`) and that what is behind the cursor is accounted for. Assumptions: the ring has at
least one slot (the constant is 256 in `realtime.rs`), accounts are records of subject and tenant,
every
call is about one of the accounts, and a replayer is not a tab.

`Audit_proofs` proves, for any calls, events, filter and batch size, `IndInv` of `AuditTail` and from it type
correctness, `TailAscends`, `TailMissesOnlyLateRows` and `BadgeIsExact`. The argument follows a row
from the table to the page: ids ascend from `lastEventId` over `wire` to `last` and on to `batch`
(`StreamInv`), everything behind the batch is on its way, received or late
(`StreamMissesOnlyLateRows`, which needs that ORDER BY ... LIMIT leaves no lower row out,
`LowestIsClosed`), and a commit either appends in order or makes a late row (`LogInv`).
That the badge of a render is exact needs that, with nothing queued, the state on screen is what the
ref and the queue last held (`QueueInv`).
Assumptions: the filter's events are events, and a batch holds at least one row.

It also proves `ExplorerInv`, for any limits of the walker, any page limit, row height, viewport and
overscan, and from it type correctness, `PagingIsExact`, `ViewportIsRendered` and
`FollowPinsToLatest`. Three arguments meet there.

* *The walk* (`WalkInv`): a row of the start was listed, or the cursor is above it, and nothing that
  was listed is below the cursor. A page keeps that because ORDER BY id DESC LIMIT n leaves no higher
  row out (`HighestIsClosed`), and because a page that has no surplus row has taken all there is
  (`HighestExhausts`), so that it may be the last (`PageCovers`). Rows that commit meanwhile never
  join the start, but may join a page.
* *The window* (`WindowCovers`): two quotients, rounded towards the overscan. It holds for an overscan
  of at least one row and, with the source's ROW_H, VIEWPORT and OVERSCAN abstracted, for every other
  geometry. What it takes is that the state the window is computed from is the container's own
  offset (`OffsetInv`), or the end of the list in follow mode.
* *Follow mode*: every step that changes the number of rows ends in `Renders`, which scrolls to the
  end when the effect's dependencies changed, or leaves a scroll event to come.

`SessionsPage_proofs` proves, for any devices and requests, `IndInv` and from it type correctness,
`OneSignOut`, `RevokingIsOut`, `SkeletonHasLoad` and `UndisturbedPageIsTrue`: a list that is false
was made so by overlapping requests and by nothing else.

`AuthPages_proofs` proves, for any accounts, requests and mounted pages, `IndInv` and from it type
correctness, `OneUseToken`, `GuardIsOwn`, `UndisturbedTokenIsNewest` and
`UndisturbedSessionIsNewest`. The steps are first sorted by what they do to the calls and the page
(`StepSorts`), and each part of the invariant is shown to survive each sort. A type already needs
more than types: that the code screen is shown on its page only rests on a request belonging to the
page of its mount (`CallInv`). That a proof is used once rests on the two slots holding proofs of
different kinds (`TokenInv`). The two "newest" properties rest on `UndisturbedInv`: as long as no
page was left with a request out, whatever is out is this page's, and the guard keeps a second
request of its kind from being made, so answers come in the order of the requests. Assumptions:
the empty field is no address, and at least one page is mounted.

`Accounts_proofs` proves, for any tenants, addresses, identities and requests, `IndInv` of
`OAuthAccounts` and from it type correctness, `OneAccountEach`, `DeniedOnlyByPolicy`, the action
properties `IdentityStays` and `InactiveOnlyByRace`, and that `OAuthAccounts` implements
`AccountDirectory`. Everything rests on `ColumnsStay`: no step changes the tenant or address of a
stored row, and only a link its identity. For `link_oauth`, which writes by id alone, the rest needs
that what a callback found is, when it writes, still an account of its identity or a local one of
its address, or was bound in between (`FoundInv`), and that in turn needs `ColumnsStay`. Uniqueness
is what the indexes are for; the theorem is that nothing goes around them, an update included.
Assumptions: a NULL identity is no identity, and `None` is no request.

For `MfaPanel`, with any number of calls, it proves `PanelInv` and from it type correctness,
`EnrolsPendingSecret`, `SavedCodesAreInForce`, `PanelIsNeverStuck` and the action property
`FactorFollowsPage`. The pages have no lock, so the
invariant says how far each call in flight may be from the mode the page is in (`CallFollowsMode`):

* a setup is out only in the mode "off", because the disabled button lets one run at a time, and its
  secret is the pending one until it is answered;
* a verification that was left behind by a Cancel, or a disable by the one before it, is out in a
  mode that did not send it. It changes nothing, since its code no longer fits the secret: a disable
  that was served left none, and a secret minted later is above every code sent so far (`MintInv`);
* at most one answer that turns the factor on or off is on its way, so a page is never moved twice;
* the codes on screen are in force, or the answer that takes them off or replaces them is on its
  way (`RekeyInv`). This part needs that no two code-bearing calls overlap, and shows that nothing
  else is needed but that no answer is lost.

The steps are grouped by what they do to the calls (`SendKeeps`, `RefusalKeeps`, one lemma for each
route the server carries out, one for each answer). The only assumption is which pages there are.

`PlatformConsole_proofs` proves, for any digits, cells and calls, `IndInv` and from it type
correctness, `ShownCodeIsPending` and `ExpiredOnlyAfterSession`. That a full code is the one handed
up needs that a form not shown holds no code (`CodeInv`): leaving the challenge unmounts its cells and
clears the code. That an expired session was one needs to be followed along a navigation (`KnownInv`):
the gate lets only a platform token through to the places that speak of it. On top of `IndInv` it
proves `BusyInv`, and from it `BusyIsExact`: a page's calls of one kind are one at most, and only while
that page is mounted, so that an answer with `mine` frees the flag that its own click set.

`TriggerCenter_proofs` proves, for any decks, limit, window, threshold and number of lockout
requests, `IndInv` and from it type correctness, `CountdownNeverEarly`, `HammerTripsLimit` and
`UndisturbedForceLocks`. The hammer's logins are counted in the window its run began in (`HammerOK`),
so with more attempts than the limit one is refused or the window ended. A lockout request that is
undisturbed finds, and counts, at least the failures it recorded itself (`JobOK`); others only add. A
countdown is covered as long as the result on screen started it (`CardOK`). Assumptions:
the hammer makes more logins than a window lets through, every deck is of one page, and limit,
window and threshold are at least one.

`DashboardPages_proofs` proves, for any addresses and calls, `IndInv` and from it type
correctness, `SkeletonHasLoad` and `ReportIsDue`. The latter needs that, while loads do not overlap,
what is in flight is due as well (`DueInv`).

Some theorems state properties that no run repeats, because the proof leaves nothing to a small
instance: `TailAscends`, `NothingMissedAfterConnect`, `AlertSurvivesAuditOutage`, `OneSignOut`,
`RevokingIsOut`, `SkeletonHasLoad` of the sessions page, `GuardIsOwn`, `UndisturbedTokenIsNewest`,
`OneAccountEach`, `DeniedOnlyByPolicy`, `FactorFollowsPage`.

Model-checked only: liveness (`SubscriptionReleased`, `VisibleRowIsDelivered`, `PageSettles`,
`GuardsAreFreed`), for which the prover has no rule (fairness and `ENABLED`). Every
invariant and every other action property that a passing run checks is a theorem.

## Findings

Two are shown by runs:

1. `docs/DASHBOARD.md` 286-287 promises that no event is missed across a drop. A row that commits
   after a row with a higher id is behind every later resume point (`audit_tail_drop`).
2. `sessions/page.test.tsx` 87 and `docs/DASHBOARD.md` 233 say that a failed revoke restores the
   row. It restores the whole list of its click (`sessions/page.tsx` 81), and with it rows that were
   revoked meanwhile (`sessions_page_rollback`).

The others are read from the code; the models have the code's behaviour, without a run of its own:

3. `audit/routes.rs` 202 says the stream is a tail of *new* rows. Toggling Live makes an
   EventSource without a last id, which is sent the whole trail again (219).
4. `AuditTable.tsx` 4-5 says that the visible window of rows renders. When a filter that left no row
   is lifted, the container starts at 0 and `scrollTop` stays: out of follow mode the slice rendered
   is the old one, until the table is scrolled (183-189).
5. `lib/api.ts` 10 says that a 4xx is never mistaken for success, and `accept-invitation/page.tsx`
   6-7 that a bad token shows an error. That page and `verify-email/page.tsx` use the raw
   `authFetch`, which does not throw, and go to the dashboard whatever came.
6. The code screen says for which address a code was sent (`forgot-password/page.tsx` 120-122). The
   field can be edited while the request is out, and the edited address is named and posted.
7. `app/platform/login/page.tsx` 34-35 and `app/platform/(protected)/layout.tsx` 36-37 say that a
   missing or invalid token leads to the session-expired notice. The edge gate is in front of both
   and redirects without a reason (`proxy.ts` 99-101).
8. `lib/trigger-actions.ts` 4-8 says that every wrapper catches what is thrown. `hammerLogin` (124)
   does not, and the card keeps the result of an earlier run.
9. `lib/error-messages.ts` 254-255 says that unknown codes fall back to a generic message. A code
   that names an inherited property, such as `toString`, does not (261).
10. `lib/api.ts` 62-63 says that an absent `error` never makes a throw. `{"error": null}` does (76).
11. `docs/OVERVIEW.md` 777-778 and `docs/tasks/phase-06-oauth-invitations.md` 343 say that a callback
    whose address matches a local account links it. `decide_oauth_login` ignores the profile
    (`oauth_policy.rs` 26-37) and takes its account for the one bound to the identity (18), nothing
    under `src/` looks an address up for it, and the tests that link seed an account that is bound
    already (`tests/oauth_policy_e2e.rs` 45). Unless the engine falls back to the address, which
    cannot be read here, such a callback is told to create and ends as a conflict.
12. `TriggerCard.test.tsx` 109 says that a re-fire with a fresh Retry-After resets the countdown. The
    effect depends on the seconds (`TriggerCard.tsx` 35-43), so a second 429 with the same number goes
    on with the old count and reaches 0 early.

## Plan

What is left, in the order of what can go wrong in it.

| Module | Models | Properties | Theorems |
|---|---|---|---|
| `Shutdown` | `main.rs`, with an open tail and open sockets | a drain ends; what may keep it from ending | |
| `Gate` | `guards/mod.rs` beside the edge gate of `PlatformConsole` | the edge never lets through what the API would refuse for the reason it checks | decisions agree |
| `Delivery`, `Boot` | `email/`, `config/`, `engine/` | a failed mail is reported and never blocks; settings that boot are consistent | |

`SessionFanout` and `SessionsPage` are to get a composition, so that an alert is the frame itself.

## Not modelled, and why

* `repository/platform_user.rs`, and the look-ups and single-column updates of `repository/user.rs`
  that `OAuthAccounts` leaves out: each is one statement whose callers are in the engine.
* The engine: not in the repository. Its routes, cookies, ticket store and session store are the
  external definitions of the modules, as permissive as the calling code must expect.
* `audit/routes.rs` 270-377, the aggregate: one SQL statement, with no state to interleave with.
* Seeds, migrations, scripts and deployment files: data and one-shot commands. The constraints
  and columns that matter to a module are part of it.
* The dashboard's HTTP client (`lib/auth-client.ts`): the same construction as the platform's,
  which `PlatformConsole` models; a second copy would say nothing new.
* The plain diagnostics routes (`hash_strength`, `sample_tokens`, `whoami`, the hooks count): they
  answer and change nothing, and are the plain answers of the matrix's actions.
* The detail dialog of the Explorer, the redaction of secrets, QR image and figures: layout of one
  response.
* Presentation, wording, telemetry and logs: nothing depends on them.
* Everything in the plan above, until its module exists.
