--------------------------- MODULE SessionFanout ---------------------------
(***************************************************************************)
(* The live new-session alert, end to end:                                 *)
(*                                                                         *)
(*   - the engine calls the on_new_session hook, which publishes a         *)
(*     SessionEvent on the process-wide broadcast channel and then inserts *)
(*     the audit row (apps/api/src/hooks/audit.rs);                        *)
(*   - a browser tab mints a single-use ticket, opens the WebSocket with   *)
(*     it, and toasts every frame (apps/web/hooks, apps/web/lib);          *)
(*   - GET /ws/example redeems the ticket, subscribes to the channel and   *)
(*     forwards the caller's own events (apps/api/src/ws/mod.rs).          *)
(*                                                                         *)
(* A frame or an event is named by its position in published: what a       *)
(* socket is sent is a sequence of positions.  The ticket store and the    *)
(* tokio broadcast channel are external, modelled from their use.          *)
(***************************************************************************)
EXTENDS Naturals, Sequences

CONSTANTS
  Accounts,    \* the accounts that sign in: records [sub, tenant]
  Logins,      \* calls of the on_new_session hook (bounds the events)
  Subject,     \* the account whose session a call is about
  Tabs,        \* mounts of the browser hook; each mints a ticket of its own
  Replayers,   \* parties that hold a copy of a tab's WebSocket URL
  NoTicket,    \* the URL of a connection that was never opened
  Capacity     \* SESSION_EVENT_CAPACITY

Peers == Tabs \cup Replayers

ASSUME CapacityAssumption == Capacity \in Nat \ {0}
ASSUME AccountsAssumption ==
  \A a \in Accounts : a = [sub |-> a.sub, tenant |-> a.tenant]
ASSUME SubjectAssumption == Subject \in [Logins -> Accounts]
ASSUME PeersAssumption == Tabs \cap Replayers = {} /\ NoTicket \notin Tabs

VARIABLES
  hook,        \* the hook call: idle, recording or returned
  unheard,     \* the calls whose send found no live receiver
  published,   \* every event the channel stored, oldest first
  shut,        \* every sender has been dropped (process shutdown)
  ticket,      \* the ticket a tab asked for, in the ticket store
  owner,       \* the account a ticket was minted for
  tab,         \* the browser hook: idle, minting, opened, degraded or gone
  sock,        \* the server's side of a connection
  url,         \* the ticket in a connection's URL
  claims,      \* the authorization snapshot a connection runs under
  next,        \* the receiver's cursor: the next position it reads
  since,       \* how many events were published when the 101 was returned
  sent,        \* the positions of the frames written to a socket
  away         \* the peer of a connection has gone

hookVars == <<hook, unheard, published, shut>>
tabVars  == <<ticket, owner, tab>>
sockVars == <<sock, url, claims, next, since, sent, away>>
vars     == <<hookVars, tabVars, sockVars>>

-----------------------------------------------------------------------------
(* The broadcast channel.                                                  *)

Live == {"subscribed", "connected", "tailing", "sending"}

Receivers == {p \in Peers : sock[p] \in Live}

Event(l, a) == [login |-> l, sub |-> a.sub, tenant |-> a.tenant]

(* The first position the ring still holds.                                *)
Oldest == IF Len(published) > Capacity THEN Len(published) - Capacity + 1 ELSE 1

(* send stores the event when somebody is subscribed and fails otherwise.  *)
Send(l, a) ==
  IF Receivers = {}
    THEN unheard' = unheard \cup {l} /\ UNCHANGED published
    ELSE published' = Append(published, Event(l, a)) /\ UNCHANGED unheard

-----------------------------------------------------------------------------
(* The publisher: AuditAuthHooks::on_new_session.                          *)

(* The frame is published first, and a send nobody hears is ignored.       *)
PublishSession(l, a) ==
  /\ hook[l] = "idle"
  /\ ~shut
  /\ Send(l, a)
  /\ hook' = [hook EXCEPT ![l] = "recording"]
  /\ UNCHANGED <<shut, tabVars, sockVars>>

(* Then the row is inserted, or fails to be: either way the call returns,  *)
(* and its error is the engine's to handle.                                *)
RecordSession(l) ==
  /\ hook[l] = "recording"
  /\ hook' = [hook EXCEPT ![l] = "returned"]
  /\ UNCHANGED <<unheard, published, shut, tabVars, sockVars>>

(* The senders live in the application state, in every running handler and *)
(* in the hooks: the channel closes when the last of them is dropped.      *)
DropSenders ==
  /\ ~shut
  /\ \A l \in Logins : hook[l] # "recording"
  /\ \A p \in Peers : sock[p] # "redeemed"
  /\ shut' = TRUE
  /\ UNCHANGED <<hook, unheard, published, tabVars, sockVars>>

-----------------------------------------------------------------------------
(* The browser: useNewSessionAlerts.                                       *)

Mount(t) ==
  /\ tab[t] = "idle"
  /\ tab' = [tab EXCEPT ![t] = "minting"]
  /\ ticket' = [ticket EXCEPT ![t] = "requested"]
  /\ UNCHANGED <<hookVars, owner, sockVars>>

(* POST /auth/ws-ticket, answered for whoever the cookie session is.       *)
MintTicket(t, a) ==
  /\ ticket[t] = "requested"
  /\ ~shut
  /\ ticket' = [ticket EXCEPT ![t] = "live"]
  /\ owner' = [owner EXCEPT ![t] = {a}]
  /\ UNCHANGED <<hookVars, tab, sockVars>>

MintRefused(t) ==
  /\ ticket[t] = "requested"
  /\ ticket' = [ticket EXCEPT ![t] = "refused"]
  /\ UNCHANGED <<hookVars, owner, tab, sockVars>>

TicketExpires(t) ==
  /\ ticket[t] = "live"
  /\ ticket' = [ticket EXCEPT ![t] = "spent"]
  /\ UNCHANGED <<hookVars, owner, tab, sockVars>>

(* A variant: connect() does not look at cancelled.                        *)
OpenSocketUncancelled(t) ==
  /\ tab[t] \in {"minting", "gone"}
  /\ sock[t] = "none"
  /\ ticket[t] \in {"live", "spent"}
  /\ tab' = [tab EXCEPT ![t] = IF @ = "gone" THEN "gone" ELSE "opened"]
  /\ sock' = [sock EXCEPT ![t] = "dialing"]
  /\ url' = [url EXCEPT ![t] = t]
  /\ UNCHANGED <<hookVars, ticket, owner, claims, next, since, sent, away>>

(* connect() resumes after the mint; an unmount meanwhile cancelled it.    *)
OpenSocket(t) ==
  /\ tab[t] = "minting"
  /\ ticket[t] \in {"live", "spent"}
  /\ tab' = [tab EXCEPT ![t] = "opened"]
  /\ sock' = [sock EXCEPT ![t] = "dialing"]
  /\ url' = [url EXCEPT ![t] = t]
  /\ UNCHANGED <<hookVars, ticket, owner, claims, next, since, sent, away>>

NoRealtime(t) ==
  /\ tab[t] = "minting"
  /\ ticket[t] = "refused"
  /\ tab' = [tab EXCEPT ![t] = "degraded"]
  /\ UNCHANGED <<hookVars, ticket, owner, sockVars>>

(* The effect's cleanup: cancelled = true, and the socket is closed.       *)
Unmount(t) ==
  /\ tab[t] \in {"minting", "opened", "degraded"}
  /\ tab' = [tab EXCEPT ![t] = "gone"]
  /\ away' = [away EXCEPT ![t] = (sock[t] # "none")]
  /\ UNCHANGED <<hookVars, ticket, owner, sock, url, claims, next, since, sent>>

(* A captured URL is replayed by somebody else.                            *)
Replay(r, t) ==
  /\ sock[r] = "none"
  /\ sock[t] # "none"
  /\ sock' = [sock EXCEPT ![r] = "dialing"]
  /\ url' = [url EXCEPT ![r] = t]
  /\ UNCHANGED <<hookVars, tabVars, claims, next, since, sent, away>>

(* The network, or the other side, drops the connection.                   *)
PeerLeaves(p) ==
  /\ sock[p] \notin {"none", "refused", "dropped", "ended"}
  /\ ~away[p]
  /\ away' = [away EXCEPT ![p] = TRUE]
  /\ UNCHANGED <<hookVars, tabVars, sock, url, claims, next, since, sent>>

-----------------------------------------------------------------------------
(* The handler: GET /ws/example.                                           *)

(* A variant: the ticket is looked up and not consumed.                    *)
RedeemWithoutSpending(p) ==
  /\ sock[p] = "dialing"
  /\ ~shut
  /\ ticket[url[p]] = "live"
  /\ claims' = [claims EXCEPT ![p] = owner[url[p]]]
  /\ sock' = [sock EXCEPT ![p] = "redeemed"]
  /\ UNCHANGED <<hookVars, tabVars, url, next, since, sent, away>>

(* redeem_ws_ticket, atomic in the store and first of all; the store may   *)
(* fail, and the ticket stay.                                              *)
Redeem(p) ==
  /\ sock[p] = "dialing"
  /\ ~shut
  /\ \/ /\ ticket[url[p]] = "live"
        /\ ticket' = [ticket EXCEPT ![url[p]] = "spent"]
        /\ claims' = [claims EXCEPT ![p] = owner[url[p]]]
        /\ sock' = [sock EXCEPT ![p] = "redeemed"]
     \/ /\ sock' = [sock EXCEPT ![p] = "refused"]
        /\ UNCHANGED <<ticket, claims>>
  /\ UNCHANGED <<hookVars, owner, tab, url, next, since, sent, away>>

(* A variant: the cursor starts on the last event stored.                  *)
SubscribeOffByOne(p) ==
  /\ sock[p] = "redeemed"
  /\ sock' = [sock EXCEPT ![p] = "subscribed"]
  /\ next' = [next EXCEPT ![p] = Len(published)]
  /\ UNCHANGED <<hookVars, tabVars, url, claims, since, sent, away>>

(* state.session_events.subscribe(): the cursor is past the last event.    *)
Subscribe(p) ==
  /\ sock[p] = "redeemed"
  /\ sock' = [sock EXCEPT ![p] = "subscribed"]
  /\ next' = [next EXCEPT ![p] = Len(published) + 1]
  /\ UNCHANGED <<hookVars, tabVars, url, claims, since, sent, away>>

(* The 101 goes out with the receiver captured by the upgrade callback...  *)
SwitchProtocols(p) ==
  /\ sock[p] = "subscribed"
  /\ sock' = [sock EXCEPT ![p] = "connected"]
  /\ since' = [since EXCEPT ![p] = Len(published)]
  /\ UNCHANGED <<hookVars, tabVars, url, claims, next, sent, away>>

(* ...or the peer left first, and the callback is dropped with it.         *)
UpgradeFails(p) ==
  /\ sock[p] = "subscribed"
  /\ away[p]
  /\ sock' = [sock EXCEPT ![p] = "dropped"]
  /\ UNCHANGED <<hookVars, tabVars, url, claims, next, since, sent, away>>

-----------------------------------------------------------------------------
(* The task: handle_socket and forward_session_events.                     *)

(* A variant: the receiver is created here, in the upgraded task.          *)
HandleSocketSubscribing(p) ==
  /\ sock[p] = "connected"
  /\ sock' = [sock EXCEPT ![p] = "tailing"]
  /\ next' = [next EXCEPT ![p] = Len(published) + 1]
  /\ UNCHANGED <<hookVars, tabVars, url, claims, since, sent, away>>

(* The upgrade callback runs.                                              *)
HandleSocket(p) ==
  /\ sock[p] = "connected"
  /\ sock' = [sock EXCEPT ![p] = "tailing"]
  /\ UNCHANGED <<hookVars, tabVars, url, claims, next, since, sent, away>>

(* A variant: only the tenant is compared.                                 *)
FrameForTenant(e, p) == \E c \in claims[p] : e.tenant = c.tenant

(* frame_for: a frame for the socket's own subject and tenant, else none.  *)
FrameFor(e, p) == \E c \in claims[p] : e.sub = c.sub /\ e.tenant = c.tenant

RecvEvent(p) ==
  /\ sock[p] = "tailing"
  /\ next[p] >= Oldest
  /\ next[p] <= Len(published)
  /\ next' = [next EXCEPT ![p] = @ + 1]
  /\ sock' = [sock EXCEPT ![p] =
                IF FrameFor(published[next[p]], p) THEN "sending" ELSE "tailing"]
  /\ UNCHANGED <<hookVars, tabVars, url, claims, since, sent, away>>

(* RecvError::Lagged moves the cursor to the oldest event still held.      *)
RecvLagged(p) ==
  /\ sock[p] = "tailing"
  /\ next[p] < Oldest
  /\ next' = [next EXCEPT ![p] = Oldest]
  /\ UNCHANGED <<hookVars, tabVars, sock, url, claims, since, sent, away>>

RecvClosed(p) ==
  /\ sock[p] = "tailing"
  /\ shut
  /\ next[p] > Len(published)
  /\ sock' = [sock EXCEPT ![p] = "ended"]
  /\ UNCHANGED <<hookVars, tabVars, url, claims, next, since, sent, away>>

(* The other branch of the select: sink.closed() resolves.                 *)
PeerClosed(p) ==
  /\ sock[p] = "tailing"
  /\ away[p]
  /\ sock' = [sock EXCEPT ![p] = "ended"]
  /\ UNCHANGED <<hookVars, tabVars, url, claims, next, since, sent, away>>

(* A write to a peer that has left may still be buffered without an error. *)
SendText(p) ==
  /\ sock[p] = "sending"
  /\ sent' = [sent EXCEPT ![p] = Append(@, next[p] - 1)]
  /\ sock' = [sock EXCEPT ![p] = "tailing"]
  /\ UNCHANGED <<hookVars, tabVars, url, claims, next, since, away>>

SendTextFails(p) ==
  /\ sock[p] = "sending"
  /\ away[p]
  /\ sock' = [sock EXCEPT ![p] = "ended"]
  /\ UNCHANGED <<hookVars, tabVars, url, claims, next, since, sent, away>>

-----------------------------------------------------------------------------
Init ==
  /\ hook = [l \in Logins |-> "idle"]
  /\ unheard = {}
  /\ published = <<>>
  /\ shut = FALSE
  /\ ticket = [t \in Tabs |-> "none"]
  /\ owner = [t \in Tabs |-> {}]
  /\ tab = [t \in Tabs |-> "idle"]
  /\ sock = [p \in Peers |-> "none"]
  /\ url = [p \in Peers |-> NoTicket]
  /\ claims = [p \in Peers |-> {}]
  /\ next = [p \in Peers |-> 1]
  /\ since = [p \in Peers |-> 0]
  /\ sent = [p \in Peers |-> <<>>]
  /\ away = [p \in Peers |-> FALSE]

Hooks == DropSenders \/ \E l \in Logins : RecordSession(l) \/ PublishSession(l, Subject[l])

Browser(t) ==
  \/ Mount(t)
  \/ \E a \in Accounts : MintTicket(t, a)
  \/ MintRefused(t)
  \/ TicketExpires(t)
  \/ OpenSocket(t)
  \/ NoRealtime(t)
  \/ Unmount(t)

Handler(p) == Redeem(p) \/ Subscribe(p) \/ SwitchProtocols(p) \/ UpgradeFails(p)

(* A variant: no closed() branch in the select.                            *)
RecvOnly(p) == RecvEvent(p) \/ RecvLagged(p) \/ RecvClosed(p)

Recv(p) == RecvEvent(p) \/ RecvLagged(p) \/ RecvClosed(p) \/ PeerClosed(p)

Task(p) == HandleSocket(p) \/ Recv(p) \/ SendText(p) \/ SendTextFails(p)

Next ==
  \/ Hooks
  \/ \E t \in Tabs : Browser(t) \/ \E r \in Replayers : Replay(r, t)
  \/ \E p \in Peers : PeerLeaves(p) \/ Handler(p) \/ Task(p)

(* The runtime polls every ready task: a handler that was called returns,  *)
(* a receiver that can proceed does, and a write to a departed peer ends.  *)
(* A write to a connected peer may stall as long as the peer does.         *)
Fairness ==
  \A p \in Peers : WF_vars(Handler(p) \/ HandleSocket(p) \/ Recv(p) \/ SendTextFails(p))

Spec == Init /\ [][Next]_vars

FairSpec == Spec /\ Fairness

-----------------------------------------------------------------------------
(* Properties.                                                             *)

EventType == [login : Logins, sub : {a.sub : a \in Accounts}, tenant : {a.tenant : a \in Accounts}]

(* Every variable keeps its type.                                          *)
TypeOK ==
  /\ hook \in [Logins -> {"idle", "recording", "returned"}]
  /\ unheard \subseteq Logins
  /\ published \in Seq(EventType)
  /\ shut \in BOOLEAN
  /\ ticket \in [Tabs -> {"none", "requested", "live", "spent", "refused"}]
  /\ owner \in [Tabs -> SUBSET Accounts]
  /\ tab \in [Tabs -> {"idle", "minting", "opened", "degraded", "gone"}]
  /\ sock \in [Peers -> {"none", "dialing", "refused", "redeemed", "dropped", "ended"} \cup Live]
  /\ url \in [Peers -> Tabs \cup {NoTicket}]
  /\ claims \in [Peers -> SUBSET Accounts]
  /\ next \in [Peers -> Nat \ {0}]
  /\ since \in [Peers -> Nat]
  /\ sent \in [Peers -> Seq(Nat)]
  /\ away \in [Peers -> BOOLEAN]

(* Whose session the event at a position is.                               *)
About(k) == [sub |-> published[k].sub, tenant |-> published[k].tenant]

(* A socket is only ever written frames about the account its ticket was   *)
(* minted for, whoever presented the ticket and whatever signed in since   *)
(* (realtime.rs: a socket never forwards another user's session).          *)
OnlyOwnSessions ==
  \A p \in Peers : \A i \in 1 .. Len(sent[p]) :
    url[p] \in Tabs /\ About(sent[p][i]) \in owner[url[p]]

(* One ticket opens at most one socket, however often its URL is presented *)
(* (ws/mod.rs: a captured URL cannot be replayed).                         *)
OneSocketPerTicket ==
  \A p, q \in Peers :
    (p # q /\ claims[p] # {} /\ claims[q] # {}) => url[p] # url[q]

(* What can have become of an event behind the receiver's cursor.          *)
Accounted(p, k) ==
  \/ About(k) \notin claims[p]
  \/ \E i \in 1 .. Len(sent[p]) : sent[p][i] = k
  \/ sock[p] = "sending" /\ k = next[p] - 1
  \/ k < Oldest

CaughtUp(p) ==
  sock[p] \in {"connected", "tailing", "sending"} =>
    \A k \in since[p] + 1 .. next[p] - 1 : Accounted(p, k)

(* An own event published after the 101 and already behind the receiver's  *)
(* cursor was written to the socket, is being written, or was overwritten  *)
(* in the ring before the receiver came to it (ws/mod.rs: a publish after  *)
(* connect reaches the socket, and a lagging one skips and keeps tailing). *)
NothingMissedAfterConnect == \A p \in Peers : CaughtUp(p)

(* Whatever becomes of the audit insert, the session's event was published *)
(* or there was nobody to hear it: an audit outage never costs an alert    *)
(* (hooks/audit.rs publishes first).                                       *)
AlertSurvivesAuditOutage ==
  \A l \in Logins : hook[l] = "returned" =>
    l \in unheard \/ \E k \in 1 .. Len(published) : published[k].login = l

(* A tab that was unmounted while its ticket was being minted never opens  *)
(* a connection afterwards (use-new-session-alerts.ts: cancelled).         *)
NoSocketAfterUnmount ==
  [][\A t \in Tabs : (tab[t] = "gone" /\ sock[t] = "none") => sock'[t] = "none"]_vars

(* The receiver of a connection whose peer has left is dropped in the end, *)
(* never leaked (ws/mod.rs: the task would block on recv forever).         *)
SubscriptionReleased ==
  \A p \in Peers : (away[p] /\ sock[p] \in Live) ~> sock[p] \notin Live

(* A connection whose 101 was returned reads for the account it redeemed.  *)
Reader(p) == IF sock[p] \in {"connected", "tailing", "sending", "ended"} THEN claims[p] ELSE {}

Alerts == INSTANCE SessionAlerts WITH
  published <- [k \in 1 .. Len(published) |-> About(k)],
  reader <- [p \in Peers |-> Reader(p)],
  feed <- sent

(* The tickets, the channel, the handshake and the tasks together keep the *)
(* promise of SessionAlerts: own events, in order, and none skipped that   *)
(* the ring still held (realtime.rs: missed frames are those of a socket   *)
(* that fell SESSION_EVENT_CAPACITY behind).                               *)
AlertSpec == Alerts!ASpec

-----------------------------------------------------------------------------
(* The inductive invariant behind the safety properties.                   *)

(* A ticket is asked for once, is in every URL that carries it, and is     *)
(* spent once a connection has claims, which are its owner's.              *)
TicketInv ==
  /\ \A t \in Tabs : tab[t] = "idle" => ticket[t] = "none"
  /\ \A t \in Tabs : tab[t] \in {"idle", "minting"} => sock[t] = "none"
  /\ \A p \in Peers : sock[p] # "none" => url[p] \in Tabs
  /\ \A p \in Peers : sock[p] \in {"none", "dialing", "refused"} => claims[p] = {}
  /\ \A p \in Peers : claims[p] # {} =>
       claims[p] = owner[url[p]] /\ ticket[url[p]] = "spent"

(* A minted ticket has one owner, and a redeemed connection has claims.    *)
ClaimsInv ==
  /\ \A t \in Tabs : ticket[t] \in {"live", "spent"} => \E a \in Accounts : owner[t] = {a}
  /\ \A p \in Peers : sock[p] \notin {"none", "dialing", "refused"} => claims[p] # {}

(* What was written, or is being written, is an event of the claims.       *)
OwnEvent(p, k) == k \in 1 .. Len(published) /\ About(k) \in claims[p]

OwnFrames(p) ==
  /\ \A i \in 1 .. Len(sent[p]) : OwnEvent(p, sent[p][i])
  /\ sock[p] = "sending" => OwnEvent(p, next[p] - 1)

FrameInv == \A p \in Peers : OwnFrames(p)

(* The cursor is at most one past the last event, and the frames written   *)
(* are ascending positions behind it.                                      *)
Behind(p) ==
  /\ next[p] <= Len(published) + 1
  /\ \A i \in 1 .. Len(sent[p]) :
       /\ sent[p][i] < next[p]
       /\ sock[p] = "sending" => sent[p][i] < next[p] - 1
       /\ \A j \in 1 .. i - 1 : sent[p][j] < sent[p][i]

CursorInv == \A p \in Peers : Behind(p)

(* Past the publish, a call's event is in the channel or was unheard.      *)
HookInv ==
  \A l \in Logins : hook[l] # "idle" =>
    l \in unheard \/ \E k \in 1 .. Len(published) : published[k].login = l

IndInv ==
  /\ TypeOK
  /\ TicketInv
  /\ OneSocketPerTicket
  /\ ClaimsInv
  /\ FrameInv
  /\ CursorInv
  /\ NothingMissedAfterConnect
  /\ HookInv
=============================================================================
