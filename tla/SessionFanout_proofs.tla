----------------------- MODULE SessionFanout_proofs -----------------------
(***************************************************************************)
(* Theorems of SessionFanout, for any number of accounts, sign-ins, tabs,  *)
(* replayed URLs and any ring capacity.                                    *)
(*                                                                         *)
(* Type correctness first; then the ticket invariant (who a socket's       *)
(* claims come from, and that a spent ticket stays spent), from which a    *)
(* socket's frames and the one-socket-per-ticket rule follow; then what    *)
(* happens between the receiver's cursor and the frames written.           *)
(***************************************************************************)
EXTENDS SessionFanout, SequenceTheorems, TLAPS

-----------------------------------------------------------------------------
(* An action's effect on types: every step of SessionFanout keeps TypeOK.  *)

(* An event about an account is well typed.                                *)
LEMMA EventInType ==
  ASSUME NEW l \in Logins, NEW a \in Accounts
  PROVE  Event(l, a) \in EventType
BY DEF Event, EventType

(* The process starts well typed.                                          *)
LEMMA TypeInit == Init => TypeOK
<1> SUFFICES ASSUME Init PROVE TypeOK
  OBVIOUS
<1>1. /\ hook \in [Logins -> {"idle", "recording", "returned"}]
      /\ unheard \subseteq Logins
      /\ shut \in BOOLEAN
  BY DEF Init
<1>2. /\ ticket \in [Tabs -> {"none", "requested", "live", "spent", "refused"}]
      /\ owner \in [Tabs -> SUBSET Accounts]
      /\ tab \in [Tabs -> {"idle", "minting", "opened", "degraded", "gone"}]
  BY DEF Init
<1>3. /\ sock \in [Peers -> {"none", "dialing", "refused", "redeemed", "dropped", "ended"} \cup Live]
      /\ url \in [Peers -> Tabs \cup {NoTicket}]
      /\ claims \in [Peers -> SUBSET Accounts]
  BY DEF Init
<1>4. /\ next \in [Peers -> Nat \ {0}]
      /\ since \in [Peers -> Nat]
      /\ sent \in [Peers -> Seq(Nat)]
      /\ away \in [Peers -> BOOLEAN]
  BY DEF Init
<1>5. published \in Seq(EventType)
  BY DEF Init
<1> QED
  BY <1>1, <1>2, <1>3, <1>4, <1>5 DEF TypeOK

(* Every step keeps the types.                                             *)
LEMMA TypeNext == TypeOK /\ TicketInv /\ [Next]_vars => TypeOK'
<1> SUFFICES ASSUME TypeOK, TicketInv, [Next]_vars PROVE TypeOK'
  OBVIOUS
<1> USE DEF hookVars, tabVars, sockVars
<1>1. ASSUME NEW l \in Logins, NEW a \in Accounts, PublishSession(l, a) PROVE TypeOK'
  <2>1. Event(l, a) \in EventType
    BY EventInType
  <2>2. published' \in Seq(EventType) /\ unheard' \subseteq Logins
    <3>1. Append(published, Event(l, a)) \in Seq(EventType)
      BY <2>1 DEF TypeOK
    <3> QED
      BY <1>1, <3>1 DEF PublishSession, Send, TypeOK
  <2> QED
    BY <1>1, <2>2 DEF PublishSession, TypeOK
<1>2. ASSUME NEW l \in Logins, RecordSession(l) PROVE TypeOK'
  BY <1>2 DEF RecordSession, TypeOK
<1>3. CASE DropSenders
  BY <1>3 DEF DropSenders, TypeOK
<1>4. ASSUME NEW t \in Tabs, Browser(t) PROVE TypeOK'
  <2>1. CASE Mount(t)
    BY <2>1 DEF Mount, TypeOK
  <2>2. ASSUME NEW a \in Accounts, MintTicket(t, a) PROVE TypeOK'
    BY <2>2 DEF MintTicket, TypeOK
  <2>3. CASE MintRefused(t) \/ TicketExpires(t)
    BY <2>3 DEF MintRefused, TicketExpires, TypeOK
  <2>4. CASE OpenSocket(t)
    BY <2>4 DEF OpenSocket, TypeOK, Peers
  <2>5. CASE NoRealtime(t)
    BY <2>5 DEF NoRealtime, TypeOK
  <2>6. CASE Unmount(t)
    BY <2>6 DEF Unmount, TypeOK
  <2> QED
    BY <1>4, <2>1, <2>2, <2>3, <2>4, <2>5, <2>6 DEF Browser
<1>5. ASSUME NEW t \in Tabs, NEW r \in Replayers, Replay(r, t) PROVE TypeOK'
  BY <1>5 DEF Replay, TypeOK, Peers
<1>6. ASSUME NEW p \in Peers, PeerLeaves(p) PROVE TypeOK'
  BY <1>6 DEF PeerLeaves, TypeOK
<1>7. ASSUME NEW p \in Peers, Handler(p) PROVE TypeOK'
  <2>1. CASE Redeem(p)
    <3>1. url[p] \in Tabs
      BY <2>1 DEF Redeem, TicketInv
    <3>2. CASE /\ ticket[url[p]] = "live"
               /\ ticket' = [ticket EXCEPT ![url[p]] = "spent"]
               /\ claims' = [claims EXCEPT ![p] = owner[url[p]]]
               /\ sock' = [sock EXCEPT ![p] = "redeemed"]
      <4>1. /\ ticket' = [ticket EXCEPT ![url[p]] = "spent"]
            /\ claims' = [claims EXCEPT ![p] = owner[url[p]]]
            /\ sock' = [sock EXCEPT ![p] = "redeemed"]
        BY <2>1, <3>2 DEF Redeem
      <4> QED
        BY <2>1, <3>1, <4>1 DEF Redeem, TypeOK
    <3>3. CASE sock' = [sock EXCEPT ![p] = "refused"] /\ UNCHANGED <<ticket, claims>>
      BY <2>1, <3>3 DEF Redeem, TypeOK
    <3> QED
      BY <2>1, <3>2, <3>3 DEF Redeem
  <2>2. CASE Subscribe(p)
    BY <2>2 DEF Subscribe, TypeOK, Live
  <2>3. CASE SwitchProtocols(p)
    BY <2>3 DEF SwitchProtocols, TypeOK, Live
  <2>4. CASE UpgradeFails(p)
    BY <2>4 DEF UpgradeFails, TypeOK, Live
  <2> QED
    BY <1>7, <2>1, <2>2, <2>3, <2>4 DEF Handler
<1>8. ASSUME NEW p \in Peers, Task(p) PROVE TypeOK'
  <2>1. CASE HandleSocket(p)
    BY <2>1 DEF HandleSocket, TypeOK, Live
  <2>2. CASE RecvEvent(p)
    BY <2>2 DEF RecvEvent, TypeOK, Live
  <2>3. CASE RecvLagged(p)
    <3>1. Oldest \in Nat \ {0}
      BY CapacityAssumption DEF Oldest, TypeOK
    <3> QED
      BY <2>3, <3>1 DEF RecvLagged, TypeOK
  <2>4. CASE RecvClosed(p) \/ PeerClosed(p) \/ SendTextFails(p)
    BY <2>4 DEF RecvClosed, PeerClosed, SendTextFails, TypeOK
  <2>5. CASE SendText(p)
    <3>1. next[p] - 1 \in Nat
      BY DEF TypeOK
    <3>2. Append(sent[p], next[p] - 1) \in Seq(Nat)
      BY <3>1 DEF TypeOK
    <3> QED
      BY <2>5, <3>2 DEF SendText, TypeOK, Live
  <2> QED
    BY <1>8, <2>1, <2>2, <2>3, <2>4, <2>5 DEF Task, Recv
<1>9. CASE UNCHANGED vars
  BY <1>9 DEF TypeOK, vars
<1> QED
  BY SubjectAssumption, <1>1, <1>2, <1>3, <1>4, <1>5, <1>6, <1>7, <1>8, <1>9 DEF Next, Hooks

-----------------------------------------------------------------------------
(* Tickets, URLs and claims.                                               *)

(* At start no ticket was asked for and no URL exists.                     *)
LEMMA TicketInit == Init => TicketInv /\ OneSocketPerTicket
BY DEF Init, TicketInv, OneSocketPerTicket, Peers

(* A ticket is redeemed at most once, for its own owner.                   *)
LEMMA TicketNext ==
  TypeOK /\ TicketInv /\ OneSocketPerTicket /\ [Next]_vars => TicketInv' /\ OneSocketPerTicket'
<1> SUFFICES ASSUME TypeOK, TicketInv, OneSocketPerTicket, [Next]_vars
             PROVE  TicketInv' /\ OneSocketPerTicket'
  OBVIOUS
<1> USE DEF hookVars, tabVars, sockVars, TicketInv, OneSocketPerTicket
<1>0. /\ Tabs \subseteq Peers
      /\ Replayers \subseteq Peers
      /\ Tabs \cap Replayers = {}
      /\ ticket \in [Tabs -> {"none", "requested", "live", "spent", "refused"}]
      /\ owner \in [Tabs -> SUBSET Accounts]
      /\ tab \in [Tabs -> {"idle", "minting", "opened", "degraded", "gone"}]
      /\ sock \in [Peers -> {"none", "dialing", "refused", "redeemed", "dropped", "ended"} \cup Live]
      /\ url \in [Peers -> Tabs \cup {NoTicket}]
      /\ claims \in [Peers -> SUBSET Accounts]
  BY PeersAssumption DEF Peers, TypeOK
<1>1. CASE Hooks
  BY <1>1 DEF Hooks, PublishSession, RecordSession, DropSenders
<1>2. ASSUME NEW t \in Tabs, Browser(t) PROVE TicketInv' /\ OneSocketPerTicket'
  <2>1. CASE Mount(t)
    BY <2>1, <1>0 DEF Mount
  <2>2. ASSUME NEW a \in Accounts, MintTicket(t, a) PROVE TicketInv' /\ OneSocketPerTicket'
    BY <2>2, <1>0 DEF MintTicket
  <2>3. CASE MintRefused(t) \/ TicketExpires(t)
    BY <2>3, <1>0 DEF MintRefused, TicketExpires
  <2>4. CASE OpenSocket(t)
    BY <2>4, <1>0 DEF OpenSocket
  <2>5. CASE NoRealtime(t) \/ Unmount(t)
    BY <2>5, <1>0 DEF NoRealtime, Unmount
  <2> QED
    BY <1>2, <2>1, <2>2, <2>3, <2>4, <2>5 DEF Browser
<1>3. ASSUME NEW t \in Tabs, NEW r \in Replayers, Replay(r, t)
      PROVE  TicketInv' /\ OneSocketPerTicket'
  BY <1>3, <1>0 DEF Replay
<1>4. ASSUME NEW p \in Peers, PeerLeaves(p) PROVE TicketInv' /\ OneSocketPerTicket'
  BY <1>4 DEF PeerLeaves
<1>5. ASSUME NEW p \in Peers, Handler(p) PROVE TicketInv' /\ OneSocketPerTicket'
  <2>1. CASE Redeem(p)
    <3>1. url[p] \in Tabs /\ claims[p] = {}
      BY <2>1 DEF Redeem
    <3>2. CASE /\ ticket[url[p]] = "live"
               /\ ticket' = [ticket EXCEPT ![url[p]] = "spent"]
               /\ claims' = [claims EXCEPT ![p] = owner[url[p]]]
               /\ sock' = [sock EXCEPT ![p] = "redeemed"]
      <4>1. /\ ticket' = [ticket EXCEPT ![url[p]] = "spent"]
            /\ claims' = [claims EXCEPT ![p] = owner[url[p]]]
            /\ sock' = [sock EXCEPT ![p] = "redeemed"]
            /\ UNCHANGED <<owner, tab, url>>
        BY <2>1, <3>2 DEF Redeem
      <4>2. \A q \in Peers : claims[q] # {} => url[q] # url[p]
        BY <3>2
      <4>3. OneSocketPerTicket'
        BY <3>1, <4>1, <4>2, <1>0
      <4>4. sock[p] = "dialing"
        BY <2>1 DEF Redeem
      <4> QED
        BY <3>1, <3>2, <4>1, <4>2, <4>3, <4>4, <1>0
    <3>3. CASE sock' = [sock EXCEPT ![p] = "refused"] /\ UNCHANGED <<ticket, claims>>
      BY <2>1, <3>1, <3>3, <1>0 DEF Redeem
    <3> QED
      BY <2>1, <3>2, <3>3 DEF Redeem
  <2>2. CASE Subscribe(p) \/ SwitchProtocols(p) \/ UpgradeFails(p)
    BY <2>2, <1>0 DEF Subscribe, SwitchProtocols, UpgradeFails
  <2> QED
    BY <1>5, <2>1, <2>2 DEF Handler
<1>6. ASSUME NEW p \in Peers, Task(p) PROVE TicketInv' /\ OneSocketPerTicket'
  <2>1. /\ sock[p] \in Live
        /\ sock' = [sock EXCEPT ![p] = sock'[p]]
        /\ sock'[p] \in Live \cup {"ended"}
        /\ UNCHANGED <<ticket, owner, tab, url, claims>>
    BY <1>6, <1>0 DEF Task, Recv, HandleSocket, RecvEvent, RecvLagged, RecvClosed, PeerClosed,
                      SendText, SendTextFails, Live
  <2> QED
    BY <2>1, <1>0 DEF Live
<1>7. CASE UNCHANGED vars
  BY <1>7 DEF vars
<1> QED
  BY <1>1, <1>2, <1>3, <1>4, <1>5, <1>6, <1>7 DEF Next

-----------------------------------------------------------------------------
(* What the channel stores.                                                *)

(* Only a publish touches published, and it only appends.                  *)
LEMMA PublishedGrows ==
  ASSUME TypeOK, [Next]_vars
  PROVE  /\ Len(published') \in Nat
         /\ Len(published) <= Len(published')
         /\ \A k \in 1 .. Len(published) : published'[k] = published[k]
<1> USE DEF hookVars, tabVars, sockVars
<1>1. ASSUME NEW l \in Logins, NEW a \in Accounts, PublishSession(l, a)
      PROVE  published' = published \/ published' = Append(published, Event(l, a))
  BY <1>1 DEF PublishSession, Send
<1>2. ASSUME NEW l \in Logins, NEW a \in Accounts, published' = Append(published, Event(l, a))
      PROVE  /\ Len(published') \in Nat
             /\ Len(published) <= Len(published')
             /\ \A k \in 1 .. Len(published) : published'[k] = published[k]
  <2>1. Event(l, a) \in EventType
    BY EventInType
  <2> QED
    BY <1>2, <2>1 DEF TypeOK
<1>3. \/ published' = published
      \/ \E l \in Logins, a \in Accounts : published' = Append(published, Event(l, a))
  <2>1. CASE Hooks
    BY SubjectAssumption, <2>1, <1>1 DEF Hooks, RecordSession, DropSenders
  <2>2. CASE \E t \in Tabs : Browser(t)
    BY <2>2 DEF Browser, Mount, MintTicket, MintRefused, TicketExpires, OpenSocket, NoRealtime, Unmount
  <2>3. CASE \E t \in Tabs, r \in Replayers : Replay(r, t)
    BY <2>3 DEF Replay
  <2>4. CASE \E p \in Peers : PeerLeaves(p) \/ Handler(p)
    BY <2>4 DEF PeerLeaves, Handler, Redeem, Subscribe, SwitchProtocols, UpgradeFails
  <2>5. CASE \E p \in Peers : Task(p)
    BY <2>5 DEF Task, Recv, HandleSocket, RecvEvent, RecvLagged, RecvClosed, PeerClosed, SendText, SendTextFails
  <2>6. CASE UNCHANGED vars
    BY <2>6 DEF vars
  <2> QED
    BY <2>1, <2>2, <2>3, <2>4, <2>5, <2>6 DEF Next
<1>4. CASE published' = published
  BY <1>4 DEF TypeOK
<1> QED
  BY <1>2, <1>3, <1>4

(* Whose session an event is does not change once it is stored.            *)
LEMMA AboutStable ==
  ASSUME TypeOK, [Next]_vars, NEW k \in 1 .. Len(published)
  PROVE  k \in 1 .. Len(published') /\ About(k)' = About(k)
BY PublishedGrows DEF About, TypeOK

(* A frame is built only for an event of the socket's own claims.          *)
LEMMA FrameForOwn ==
  ASSUME TypeOK, NEW p \in Peers, NEW k \in 1 .. Len(published)
  PROVE  FrameFor(published[k], p) <=> About(k) \in claims[p]
<1>1. claims[p] \subseteq Accounts
  BY DEF TypeOK
<1>2. ASSUME NEW c \in claims[p]
      PROVE  (published[k].sub = c.sub /\ published[k].tenant = c.tenant) <=> About(k) = c
  <2>1. c = [sub |-> c.sub, tenant |-> c.tenant]
    BY <1>1, AccountsAssumption
  <2> QED
    BY <2>1 DEF About
<1> QED
  BY <1>2 DEF FrameFor

-----------------------------------------------------------------------------
(* The steps that are not the server's: no claim, cursor or frame changes, *)
(* and a connection's state changes only when the connection is opened.    *)
Quiet ==
  \/ Hooks
  \/ \E t \in Tabs : Browser(t) \/ \E r \in Replayers : Replay(r, t)
  \/ \E p \in Peers : PeerLeaves(p)
  \/ UNCHANGED vars

(* Steps that leave the channel and the sockets alone keep what was        *)
(* written and what is behind the cursors.                                 *)
LEMMA QuietStep ==
  ASSUME TypeOK, TicketInv, Quiet
  PROVE  /\ sent' = sent
         /\ claims' = claims
         /\ next' = next
         /\ since' = since
         /\ \A p \in Peers : sock'[p] = sock[p] \/ (sock[p] = "none" /\ sock'[p] = "dialing")
<1> USE DEF hookVars, tabVars, sockVars
<1>0. sock \in [Peers -> {"none", "dialing", "refused", "redeemed", "dropped", "ended"} \cup Live]
  BY DEF TypeOK
<1>1. CASE Hooks
  BY <1>1 DEF Hooks, PublishSession, RecordSession, DropSenders
<1>2. CASE \E t \in Tabs : Browser(t)
  BY <1>2, <1>0 DEF Browser, Mount, MintTicket, MintRefused, TicketExpires, OpenSocket, NoRealtime, Unmount, TicketInv
<1>3. CASE \E t \in Tabs, r \in Replayers : Replay(r, t)
  BY <1>3, <1>0 DEF Replay
<1>4. CASE \E p \in Peers : PeerLeaves(p)
  BY <1>4 DEF PeerLeaves
<1>5. CASE UNCHANGED vars
  BY <1>5 DEF vars
<1> QED
  BY <1>1, <1>2, <1>3, <1>4, <1>5 DEF Quiet

-----------------------------------------------------------------------------
(* What is written to a socket.                                            *)

(* At start no frame was written.                                          *)
LEMMA FrameInit == Init => FrameInv
BY DEF Init, FrameInv, OwnFrames

(* Every step writes, or is about to write, own events only.               *)
LEMMA FrameNext == TypeOK /\ TicketInv /\ FrameInv /\ [Next]_vars => FrameInv'
<1> SUFFICES ASSUME TypeOK, TicketInv, FrameInv, [Next]_vars PROVE FrameInv'
  OBVIOUS
<1> USE DEF hookVars, tabVars, sockVars
<1>0. /\ sock \in [Peers -> {"none", "dialing", "refused", "redeemed", "dropped", "ended"} \cup Live]
      /\ claims \in [Peers -> SUBSET Accounts]
      /\ next \in [Peers -> Nat \ {0}]
      /\ sent \in [Peers -> Seq(Nat)]
      /\ Len(published) \in Nat
  BY DEF TypeOK
<1>1. ASSUME NEW p \in Peers, NEW k, OwnEvent(p, k), claims'[p] = claims[p]
      PROVE  OwnEvent(p, k)'
  BY <1>1, AboutStable DEF OwnEvent
<1>2. ASSUME NEW p \in Peers, sent'[p] = sent[p], claims'[p] = claims[p],
             sock'[p] = "sending" => sock[p] = "sending" /\ next'[p] = next[p]
      PROVE  OwnFrames(p)'
  <2>1. OwnFrames(p)
    BY DEF FrameInv
  <2>2. \A i \in 1 .. Len(sent'[p]) : OwnEvent(p, sent[p][i])'
    BY <2>1, <1>2, <1>1 DEF OwnFrames
  <2>3. sock'[p] = "sending" => OwnEvent(p, next[p] - 1)'
    BY <2>1, <1>2, <1>1 DEF OwnFrames
  <2> QED
    BY <2>2, <2>3, <1>2 DEF OwnFrames
<1>3. CASE Quiet
  BY <1>3, <1>2, QuietStep DEF FrameInv
<1>4. ASSUME NEW p \in Peers, Handler(p) PROVE FrameInv'
  <2>1. /\ sent' = sent /\ \A q \in Peers : q # p => claims'[q] = claims[q] /\ next'[q] = next[q]
        /\ \A q \in Peers : q # p => sock'[q] = sock[q]
        /\ sock'[p] # "sending"
        /\ claims'[p] = claims[p] \/ claims[p] = {}
    BY <1>4, <1>0 DEF Handler, Redeem, Subscribe, SwitchProtocols, UpgradeFails, TicketInv
  <2>2. OwnFrames(p)'
    <3>1. CASE claims'[p] = claims[p]
      BY <3>1, <2>1, <1>2
    <3>2. CASE claims[p] = {}
      <4>1. Len(sent[p]) \in Nat /\ \A i \in 1 .. Len(sent[p]) : FALSE
        BY <3>2, <1>0 DEF FrameInv, OwnFrames, OwnEvent
      <4> QED
        BY <4>1, <2>1 DEF OwnFrames
    <3> QED
      BY <3>1, <3>2, <2>1
  <2>3. ASSUME NEW q \in Peers, q # p PROVE OwnFrames(q)'
    BY <2>1, <2>3, <1>2
  <2> QED
    BY <2>2, <2>3 DEF FrameInv
<1>5. ASSUME NEW p \in Peers, Task(p) PROVE FrameInv'
  <2>1. /\ claims' = claims
        /\ \A q \in Peers : q # p => sent'[q] = sent[q] /\ next'[q] = next[q] /\ sock'[q] = sock[q]
    BY <1>5, <1>0 DEF Task, Recv, HandleSocket, RecvEvent, RecvLagged, RecvClosed, PeerClosed,
                      SendText, SendTextFails
  <2>2. ASSUME NEW q \in Peers, q # p PROVE OwnFrames(q)'
    BY <2>1, <2>2, <1>2
  <2>3. OwnFrames(p)'
    <3>1. CASE HandleSocket(p) \/ RecvClosed(p) \/ PeerClosed(p) \/ SendTextFails(p) \/ RecvLagged(p)
      BY <3>1, <1>0, <1>2 DEF HandleSocket, RecvClosed, PeerClosed, SendTextFails, RecvLagged
    <3>2. CASE RecvEvent(p)
      <4>1. /\ next[p] \in 1 .. Len(published)
            /\ next'[p] = next[p] + 1
            /\ sent' = sent
            /\ sock'[p] = "sending" => FrameFor(published[next[p]], p)
        BY <3>2, <1>0 DEF RecvEvent
      <4>2. sock'[p] = "sending" => OwnEvent(p, next[p] - 1)'
        <5>1. CASE sock'[p] = "sending"
          <6>1. OwnEvent(p, next[p])
            BY <4>1, <5>1, FrameForOwn DEF OwnEvent
          <6>2. next'[p] - 1 = next[p]
            BY <4>1, <1>0
          <6> QED
            BY <6>1, <6>2, <2>1, <1>1
        <5> QED
          BY <5>1
      <4>3. \A i \in 1 .. Len(sent'[p]) : OwnEvent(p, sent[p][i])'
        BY <4>1, <2>1, <1>1 DEF FrameInv, OwnFrames
      <4> QED
        BY <4>2, <4>3 DEF OwnFrames
    <3>3. CASE SendText(p)
      <4>1. /\ sent'[p] = Append(sent[p], next[p] - 1) /\ next' = next
            /\ sock[p] = "sending" /\ sock'[p] = "tailing"
        BY <3>3, <1>0 DEF SendText
      <4>2. OwnEvent(p, next[p] - 1) /\ next[p] - 1 \in Nat
        BY <4>1, <1>0 DEF FrameInv, OwnFrames
      <4>3. \A i \in 1 .. Len(sent'[p]) : OwnEvent(p, sent'[p][i])
        BY <4>1, <4>2, <1>0 DEF FrameInv, OwnFrames
      <4>4. \A i \in 1 .. Len(sent'[p]) : OwnEvent(p, sent[p][i])'
        BY <4>3, <2>1, <1>1
      <4> QED
        BY <4>1, <4>4 DEF OwnFrames
    <3> QED
      BY <1>5, <3>1, <3>2, <3>3 DEF Task, Recv
  <2> QED
    BY <2>2, <2>3 DEF FrameInv
<1> QED
  BY <1>3, <1>4, <1>5 DEF Next, Quiet

-----------------------------------------------------------------------------
(* Behind the cursor.                                                      *)

(* At start every cursor is on the first position.                         *)
LEMMA CursorInit == Init => CursorInv
BY DEF Init, CursorInv, Behind

(* Cursors only advance, and frames are written in order behind them.      *)
LEMMA CursorNext == TypeOK /\ TicketInv /\ CursorInv /\ [Next]_vars => CursorInv'
<1> SUFFICES ASSUME TypeOK, TicketInv, CursorInv, [Next]_vars PROVE CursorInv'
  OBVIOUS
<1> USE DEF hookVars, tabVars, sockVars
<1>0. /\ sock \in [Peers -> {"none", "dialing", "refused", "redeemed", "dropped", "ended"} \cup Live]
      /\ next \in [Peers -> Nat \ {0}]
      /\ sent \in [Peers -> Seq(Nat)]
      /\ Len(published) \in Nat
      /\ Len(published') \in Nat
      /\ Len(published) <= Len(published')
  BY PublishedGrows DEF TypeOK
<1>1. ASSUME NEW p \in Peers, sent'[p] = sent[p], next'[p] = next[p],
             sock'[p] = "sending" => sock[p] = "sending"
      PROVE  Behind(p)'
  BY <1>0, <1>1 DEF CursorInv, Behind
<1>2. CASE Quiet
  BY <1>2, <1>1, QuietStep DEF CursorInv
<1>3. ASSUME NEW p \in Peers, Handler(p) PROVE CursorInv'
  <2>1. /\ sent' = sent
        /\ published' = published
        /\ \A q \in Peers : q # p => next'[q] = next[q] /\ sock'[q] = sock[q]
        /\ sock'[p] # "sending"
        /\ next'[p] \in {next[p], Len(published) + 1}
    BY <1>3, <1>0 DEF Handler, Redeem, Subscribe, SwitchProtocols, UpgradeFails
  <2>2. Behind(p)'
    BY <2>1, <1>0 DEF CursorInv, Behind
  <2> QED
    BY <2>1, <2>2, <1>1 DEF CursorInv
<1>4. ASSUME NEW p \in Peers, Task(p) PROVE CursorInv'
  <2>1. /\ published' = published
        /\ \A q \in Peers : q # p => sent'[q] = sent[q] /\ next'[q] = next[q] /\ sock'[q] = sock[q]
    BY <1>4, <1>0 DEF Task, Recv, HandleSocket, RecvEvent, RecvLagged, RecvClosed, PeerClosed,
                      SendText, SendTextFails
  <2>2. Behind(p)
    BY DEF CursorInv
  <2>3. Behind(p)'
    <3>1. CASE HandleSocket(p) \/ RecvClosed(p) \/ PeerClosed(p) \/ SendTextFails(p)
      BY <3>1, <1>0, <1>1 DEF HandleSocket, RecvClosed, PeerClosed, SendTextFails
    <3>2. CASE RecvEvent(p)
      <4>1. /\ next[p] <= Len(published)
            /\ next'[p] = next[p] + 1
            /\ sent'[p] = sent[p]
        BY <3>2, <1>0 DEF RecvEvent
      <4> QED
        BY <2>1, <2>2, <4>1, <1>0 DEF Behind
    <3>3. CASE RecvLagged(p)
      <4>1. /\ next[p] < Oldest
            /\ next'[p] = Oldest
            /\ sent'[p] = sent[p]
            /\ sock'[p] # "sending"
        BY <3>3, <1>0 DEF RecvLagged
      <4>2. Oldest \in Nat /\ Oldest <= Len(published) + 1
        BY <1>0, CapacityAssumption DEF Oldest
      <4> QED
        BY <2>1, <2>2, <4>1, <4>2, <1>0 DEF Behind
    <3>4. CASE SendText(p)
      <4>1. /\ sent'[p] = Append(sent[p], next[p] - 1)
            /\ next'[p] = next[p]
            /\ sock[p] = "sending"
            /\ sock'[p] = "tailing"
        BY <3>4, <1>0 DEF SendText
      <4>2. next[p] - 1 \in Nat /\ Len(sent[p]) \in Nat
        BY <1>0
      <4>3. /\ Len(sent'[p]) = Len(sent[p]) + 1
            /\ \A i \in 1 .. Len(sent[p]) : sent'[p][i] = sent[p][i]
            /\ sent'[p][Len(sent[p]) + 1] = next[p] - 1
        BY <4>1, <4>2, <1>0
      <4>4. /\ next[p] <= Len(published) + 1
            /\ \A i \in 1 .. Len(sent[p]) : sent[p][i] \in Nat /\ sent[p][i] < next[p] - 1
            /\ \A i \in 1 .. Len(sent[p]) : \A j \in 1 .. i - 1 : sent[p][j] < sent[p][i]
        BY <2>2, <4>1, <1>0 DEF Behind
      <4>5. ASSUME NEW i \in 1 .. Len(sent'[p])
            PROVE  /\ sent'[p][i] < next'[p]
                   /\ \A j \in 1 .. i - 1 : sent'[p][j] < sent'[p][i]
        <5>1. CASE i \in 1 .. Len(sent[p])
          <6>1. sent'[p][i] = sent[p][i] /\ sent[p][i] \in Nat /\ sent[p][i] < next[p] - 1
            BY <5>1, <4>3, <4>4
          <6>2. \A j \in 1 .. i - 1 : j \in 1 .. Len(sent[p])
            BY <5>1, <4>2
          <6>3. \A j \in 1 .. i - 1 : sent'[p][j] < sent'[p][i]
            BY <5>1, <6>1, <6>2, <4>3, <4>4
          <6> QED
            BY <6>1, <6>3, <4>1, <1>0
        <5>2. CASE i = Len(sent[p]) + 1
          BY <5>2, <4>1, <4>2, <4>3, <4>4, <1>0
        <5> QED
          BY <5>1, <5>2, <4>2, <4>3
      <4> QED
        BY <2>1, <4>1, <4>4, <4>5 DEF Behind
    <3> QED
      BY <1>4, <3>1, <3>2, <3>3, <3>4 DEF Task, Recv
  <2> QED
    BY <2>1, <2>3, <1>1 DEF CursorInv
<1> QED
  BY <1>2, <1>3, <1>4 DEF Next, Quiet

(* At start nothing was published, so nothing was missed.                  *)
LEMMA CaughtUpInit == Init => NothingMissedAfterConnect
BY DEF Init, NothingMissedAfterConnect, CaughtUp

(* The oldest position the ring holds never goes back.                     *)
LEMMA OldestGrows ==
  ASSUME TypeOK, [Next]_vars
  PROVE  /\ Oldest \in Nat \ {0}
         /\ Oldest <= Len(published) + 1
         /\ Oldest' \in Nat
         /\ Oldest <= Oldest'
BY PublishedGrows, CapacityAssumption DEF Oldest, TypeOK

(* No step loses an own event that the ring still holds.                   *)
LEMMA CaughtUpNext ==
  TypeOK /\ TicketInv /\ CursorInv /\ NothingMissedAfterConnect /\ [Next]_vars
    => NothingMissedAfterConnect'
<1> SUFFICES ASSUME TypeOK, TicketInv, CursorInv, NothingMissedAfterConnect, [Next]_vars
             PROVE  NothingMissedAfterConnect'
  OBVIOUS
<1> USE DEF hookVars, tabVars, sockVars
<1>0. /\ sock \in [Peers -> {"none", "dialing", "refused", "redeemed", "dropped", "ended"} \cup Live]
      /\ next \in [Peers -> Nat \ {0}]
      /\ since \in [Peers -> Nat]
      /\ sent \in [Peers -> Seq(Nat)]
      /\ Len(published) \in Nat
      /\ \A p \in Peers : next[p] <= Len(published) + 1
  BY DEF TypeOK, CursorInv, Behind
<1>1. ASSUME NEW p \in Peers, NEW k \in 1 .. Len(published), Accounted(p, k),
             claims'[p] = claims[p], sent'[p] = sent[p], next'[p] = next[p],
             sock'[p] = sock[p]
      PROVE  Accounted(p, k)'
  BY <1>1, AboutStable, OldestGrows DEF Accounted
<1>2. ASSUME NEW p \in Peers, NEW k \in 1 .. Len(published), Accounted(p, k),
             claims'[p] = claims[p], sent'[p] = sent[p], sock[p] # "sending"
      PROVE  Accounted(p, k)'
  <2>1. CASE k < Oldest
    BY <2>1, OldestGrows DEF Accounted
  <2>2. CASE About(k) \notin claims[p]
    BY <2>2, <1>2, AboutStable DEF Accounted
  <2>3. CASE \E i \in 1 .. Len(sent[p]) : sent[p][i] = k
    BY <2>3, <1>2 DEF Accounted
  <2> QED
    BY <1>2, <2>1, <2>2, <2>3 DEF Accounted
<1>3. ASSUME NEW p \in Peers,
             claims'[p] = claims[p], sent'[p] = sent[p], next'[p] = next[p], since'[p] = since[p],
             sock'[p] = sock[p] \/ sock'[p] \notin {"connected", "tailing", "sending"}
      PROVE  CaughtUp(p)'
  <2>1. CASE sock'[p] \notin {"connected", "tailing", "sending"}
    BY <2>1 DEF CaughtUp
  <2>2. CASE sock'[p] = sock[p] /\ sock[p] \in {"connected", "tailing", "sending"}
    <3>1. \A k \in since[p] + 1 .. next[p] - 1 : k \in 1 .. Len(published) /\ Accounted(p, k)
      BY <2>2, <1>0 DEF NothingMissedAfterConnect, CaughtUp
    <3>2. \A k \in since[p] + 1 .. next[p] - 1 : Accounted(p, k)'
      BY <3>1, <2>2, <1>3, <1>1
    <3> QED
      BY <3>2, <1>3 DEF CaughtUp
  <2> QED
    BY <2>1, <2>2, <1>3
<1>4. CASE Quiet
  BY <1>4, <1>3, QuietStep DEF NothingMissedAfterConnect
<1>5. ASSUME NEW p \in Peers, Handler(p) PROVE NothingMissedAfterConnect'
  <2>1. \A q \in Peers : q # p =>
          /\ claims'[q] = claims[q] /\ sent'[q] = sent[q] /\ next'[q] = next[q]
          /\ since'[q] = since[q] /\ sock'[q] = sock[q]
    BY <1>5, <1>0 DEF Handler, Redeem, Subscribe, SwitchProtocols, UpgradeFails, TypeOK
  <2>2. CaughtUp(p)'
    <3>1. CASE SwitchProtocols(p)
      <4>1. since'[p] + 1 .. next'[p] - 1 = {}
        BY <3>1, <1>0 DEF SwitchProtocols
      <4> QED
        BY <4>1 DEF CaughtUp
    <3>2. CASE Redeem(p) \/ Subscribe(p) \/ UpgradeFails(p)
      BY <3>2, <1>0 DEF Redeem, Subscribe, UpgradeFails, CaughtUp
    <3> QED
      BY <1>5, <3>1, <3>2 DEF Handler
  <2> QED
    BY <2>1, <2>2, <1>3 DEF NothingMissedAfterConnect
<1>6. ASSUME NEW p \in Peers, Task(p) PROVE NothingMissedAfterConnect'
  <2>1. /\ claims' = claims /\ since' = since /\ published' = published
        /\ \A q \in Peers : q # p => sent'[q] = sent[q] /\ next'[q] = next[q] /\ sock'[q] = sock[q]
        /\ sock[p] \in {"connected", "tailing", "sending"}
    BY <1>6, <1>0 DEF Task, Recv, HandleSocket, RecvEvent, RecvLagged, RecvClosed, PeerClosed,
                      SendText, SendTextFails
  <2>2. \A k \in since[p] + 1 .. next[p] - 1 : k \in 1 .. Len(published) /\ Accounted(p, k)
    BY <2>1, <1>0 DEF NothingMissedAfterConnect, CaughtUp
  <2>3. CaughtUp(p)'
    <3>1. CASE RecvClosed(p) \/ PeerClosed(p) \/ SendTextFails(p)
      BY <3>1, <1>0 DEF RecvClosed, PeerClosed, SendTextFails, CaughtUp
    <3>2. CASE HandleSocket(p) \/ RecvLagged(p)
      <4>1. /\ sent' = sent
            /\ sock[p] # "sending" /\ sock'[p] # "sending"
            /\ next'[p] = next[p] \/ next'[p] = Oldest
        BY <3>2, <1>0 DEF HandleSocket, RecvLagged
      <4>2. ASSUME NEW k \in since[p] + 1 .. next'[p] - 1 PROVE Accounted(p, k)'
        <5>1. CASE k < Oldest
          BY <5>1, <1>0, OldestGrows DEF Accounted
        <5>2. CASE k \in since[p] + 1 .. next[p] - 1
          <6>1. k \in 1 .. Len(published) /\ Accounted(p, k)
            BY <5>2, <2>2
          <6> QED
            BY <6>1, <2>1, <4>1, <1>2
        <5> QED
          BY <5>1, <5>2, <4>1, <1>0, OldestGrows
      <4> QED
        BY <4>2, <2>1 DEF CaughtUp
    <3>3. CASE RecvEvent(p)
      <4>1. /\ sent' = sent
            /\ sock[p] # "sending"
            /\ next[p] \in 1 .. Len(published)
            /\ next'[p] = next[p] + 1
            /\ FrameFor(published[next[p]], p) => sock'[p] = "sending"
        BY <3>3, <1>0 DEF RecvEvent
      <4>2. ASSUME NEW k \in since[p] + 1 .. next'[p] - 1 PROVE Accounted(p, k)'
        <5>1. CASE k = next[p]
          <6>1. CASE About(k) \in claims[p]
            <7>1. sock'[p] = "sending"
              BY <6>1, <5>1, <4>1, FrameForOwn
            <7>2. k = next'[p] - 1
              BY <5>1, <4>1, <1>0
            <7> QED
              BY <7>1, <7>2 DEF Accounted
          <6>2. CASE About(k) \notin claims[p]
            BY <6>2, <5>1, <4>1, <2>1, AboutStable DEF Accounted
          <6> QED
            BY <6>1, <6>2
        <5>2. CASE k \in since[p] + 1 .. next[p] - 1
          <6>1. k \in 1 .. Len(published) /\ Accounted(p, k)
            BY <5>2, <2>2
          <6> QED
            BY <6>1, <2>1, <4>1, <1>2
        <5> QED
          BY <5>1, <5>2, <4>1, <1>0
      <4> QED
        BY <4>2, <2>1 DEF CaughtUp
    <3>4. CASE SendText(p)
      <4>1. /\ sent'[p] = Append(sent[p], next[p] - 1)
            /\ next'[p] = next[p]
            /\ next[p] - 1 \in Nat
        BY <3>4, <1>0 DEF SendText
      <4>2. /\ Len(sent'[p]) = Len(sent[p]) + 1
            /\ \A i \in 1 .. Len(sent[p]) : sent'[p][i] = sent[p][i]
            /\ sent'[p][Len(sent[p]) + 1] = next[p] - 1
            /\ Len(sent[p]) \in Nat
        BY <4>1, <1>0
      <4>3. ASSUME NEW k \in since[p] + 1 .. next[p] - 1 PROVE Accounted(p, k)'
        <5>1. About(k)' = About(k)
          BY <2>2, AboutStable
        <5>2. CASE \E i \in 1 .. Len(sent[p]) : sent[p][i] = k
          <6>1. \E i \in 1 .. Len(sent'[p]) : sent'[p][i] = k
            BY <5>2, <4>2
          <6> QED
            BY <6>1 DEF Accounted
        <5>3. CASE k = next[p] - 1
          <6>1. Len(sent'[p]) \in 1 .. Len(sent'[p]) /\ sent'[p][Len(sent'[p])] = k
            BY <5>3, <4>2
          <6> QED
            BY <6>1 DEF Accounted
        <5>4. CASE About(k) \notin claims[p] \/ k < Oldest
          BY <5>4, <5>1, <2>1, <1>0, OldestGrows DEF Accounted
        <5> QED
          BY <2>2, <5>2, <5>3, <5>4 DEF Accounted
      <4> QED
        BY <4>1, <4>3, <2>1 DEF CaughtUp
    <3> QED
      BY <1>6, <3>1, <3>2, <3>3, <3>4 DEF Task, Recv
  <2> QED
    BY <2>1, <2>3, <1>3, <1>0 DEF NothingMissedAfterConnect, TypeOK
<1> QED
  BY <1>4, <1>5, <1>6 DEF Next, Quiet

-----------------------------------------------------------------------------
(* A minted ticket has an owner, and a redeemed connection has claims.     *)

(* At start nothing was minted or redeemed.                                *)
LEMMA ClaimsInit == Init => ClaimsInv
BY DEF Init, ClaimsInv

(* A minted ticket keeps its one owner and a redeemed connection its       *)
(* claims.                                                                 *)
LEMMA ClaimsNext == TypeOK /\ TicketInv /\ ClaimsInv /\ [Next]_vars => ClaimsInv'
<1> SUFFICES ASSUME TypeOK, TicketInv, ClaimsInv, [Next]_vars PROVE ClaimsInv'
  OBVIOUS
<1> USE DEF hookVars, tabVars, sockVars, ClaimsInv
<1>0. /\ ticket \in [Tabs -> {"none", "requested", "live", "spent", "refused"}]
      /\ owner \in [Tabs -> SUBSET Accounts]
      /\ sock \in [Peers -> {"none", "dialing", "refused", "redeemed", "dropped", "ended"} \cup Live]
      /\ claims \in [Peers -> SUBSET Accounts]
  BY DEF TypeOK
<1>1. CASE Hooks
  BY <1>1 DEF Hooks, PublishSession, RecordSession, DropSenders
<1>2. ASSUME NEW t \in Tabs, Browser(t) PROVE ClaimsInv'
  <2>1. \A s \in Tabs : s # t => ticket'[s] = ticket[s] /\ owner'[s] = owner[s]
    BY <1>2, <1>0 DEF Browser, Mount, MintTicket, MintRefused, TicketExpires, OpenSocket, NoRealtime, Unmount
  <2>2. ticket'[t] \in {"live", "spent"} => \E a \in Accounts : owner'[t] = {a}
    BY <1>2, <1>0 DEF Browser, Mount, MintTicket, MintRefused, TicketExpires, OpenSocket, NoRealtime, Unmount
  <2>3. claims' = claims /\ \A p \in Peers : sock'[p] = sock[p] \/ sock'[p] = "dialing"
    BY <1>2, <1>0 DEF Browser, Mount, MintTicket, MintRefused, TicketExpires, OpenSocket, NoRealtime, Unmount
  <2> QED
    BY <2>1, <2>2, <2>3
<1>3. ASSUME NEW t \in Tabs, NEW r \in Replayers, Replay(r, t) PROVE ClaimsInv'
  BY <1>3, <1>0 DEF Replay
<1>4. ASSUME NEW p \in Peers, PeerLeaves(p) PROVE ClaimsInv'
  BY <1>4 DEF PeerLeaves
<1>5. ASSUME NEW p \in Peers, Handler(p) PROVE ClaimsInv'
  <2>1. CASE Redeem(p)
    <3>1. url[p] \in Tabs
      BY <2>1 DEF Redeem, TicketInv
    <3>2. CASE /\ ticket[url[p]] = "live"
               /\ ticket' = [ticket EXCEPT ![url[p]] = "spent"]
               /\ claims' = [claims EXCEPT ![p] = owner[url[p]]]
               /\ sock' = [sock EXCEPT ![p] = "redeemed"]
      <4>1. /\ ticket' = [ticket EXCEPT ![url[p]] = "spent"]
            /\ claims' = [claims EXCEPT ![p] = owner[url[p]]]
            /\ sock' = [sock EXCEPT ![p] = "redeemed"]
            /\ owner' = owner
        BY <2>1, <3>2 DEF Redeem
      <4>2. \E a \in Accounts : owner[url[p]] = {a}
        BY <3>1, <3>2
      <4>3. claims'[p] # {}
        BY <4>1, <4>2, <1>0
      <4> QED
        BY <3>1, <3>2, <4>1, <4>2, <4>3, <1>0
    <3>3. CASE sock' = [sock EXCEPT ![p] = "refused"] /\ UNCHANGED <<ticket, claims>>
      BY <2>1, <3>3, <1>0 DEF Redeem
    <3> QED
      BY <2>1, <3>2, <3>3 DEF Redeem
  <2>2. CASE Subscribe(p) \/ SwitchProtocols(p) \/ UpgradeFails(p)
    BY <2>2, <1>0 DEF Subscribe, SwitchProtocols, UpgradeFails
  <2> QED
    BY <1>5, <2>1, <2>2 DEF Handler
<1>6. ASSUME NEW p \in Peers, Task(p) PROVE ClaimsInv'
  <2>1. /\ sock[p] \in Live
        /\ \A q \in Peers : q # p => sock'[q] = sock[q]
        /\ UNCHANGED <<ticket, owner, claims>>
    BY <1>6, <1>0 DEF Task, Recv, HandleSocket, RecvEvent, RecvLagged, RecvClosed, PeerClosed,
                      SendText, SendTextFails, Live
  <2> QED
    BY <2>1, <1>0 DEF Live
<1>7. CASE UNCHANGED vars
  BY <1>7 DEF vars
<1> QED
  BY <1>1, <1>2, <1>3, <1>4, <1>5, <1>6, <1>7 DEF Next

-----------------------------------------------------------------------------
(* The hook: the event is out before the row is attempted.                 *)

(* At start no hook was called.                                            *)
LEMMA HookInit == Init => HookInv
BY DEF Init, HookInv

(* A call past its publish keeps its event or its silence.                 *)
LEMMA HookNext == TypeOK /\ HookInv /\ [Next]_vars => HookInv'
<1> SUFFICES ASSUME TypeOK, HookInv, [Next]_vars PROVE HookInv'
  OBVIOUS
<1> USE DEF hookVars, tabVars, sockVars
<1>0. hook \in [Logins -> {"idle", "recording", "returned"}] /\ Len(published) \in Nat
  BY DEF TypeOK
<1>1. ASSUME NEW m \in Logins, hook[m] # "idle", unheard \subseteq unheard'
      PROVE  m \in unheard' \/ \E k \in 1 .. Len(published') : published'[k].login = m
  BY <1>0, <1>1, PublishedGrows DEF HookInv
<1>2. ASSUME NEW l \in Logins, NEW a \in Accounts, PublishSession(l, a) PROVE HookInv'
  <2>1. unheard \subseteq unheard' /\ \A m \in Logins : m # l => hook'[m] = hook[m]
    BY <1>2, <1>0 DEF PublishSession, Send
  <2>2. l \in unheard' \/ \E k \in 1 .. Len(published') : published'[k].login = l
    <3>1. CASE Receivers = {}
      BY <1>2, <3>1 DEF PublishSession, Send
    <3>2. CASE Receivers # {}
      <4>1. published' = Append(published, Event(l, a))
        BY <1>2, <3>2 DEF PublishSession, Send
      <4>2. Len(published') = Len(published) + 1 /\ published'[Len(published) + 1] = Event(l, a)
        BY <4>1, EventInType DEF TypeOK
      <4>3. Event(l, a).login = l
        BY DEF Event
      <4> QED
        BY <4>2, <4>3, <1>0
    <3> QED
      BY <3>1, <3>2
  <2> QED
    BY <2>1, <2>2, <1>1 DEF HookInv
<1>3. CASE unheard' = unheard /\ \A m \in Logins : hook'[m] # "idle" => hook[m] # "idle"
  BY <1>3, <1>1 DEF HookInv
<1>4. ASSUME NEW l \in Logins, RecordSession(l) PROVE HookInv'
  BY <1>4, <1>3, <1>0 DEF RecordSession
<1>5. CASE DropSenders
  BY <1>5, <1>3 DEF DropSenders
<1>6. CASE \E t \in Tabs : Browser(t) \/ \E r \in Replayers : Replay(r, t)
  BY <1>6, <1>3 DEF Browser, Mount, MintTicket, MintRefused, TicketExpires, OpenSocket, NoRealtime, Unmount, Replay
<1>7. CASE \E p \in Peers : PeerLeaves(p) \/ Handler(p)
  BY <1>7, <1>3 DEF PeerLeaves, Handler, Redeem, Subscribe, SwitchProtocols, UpgradeFails
<1>8. CASE \E p \in Peers : Task(p)
  BY <1>8, <1>3 DEF Task, Recv, HandleSocket, RecvEvent, RecvLagged, RecvClosed, PeerClosed,
                    SendText, SendTextFails
<1>9. CASE UNCHANGED vars
  BY <1>9, <1>3 DEF vars
<1> QED
  BY SubjectAssumption, <1>2, <1>4, <1>5, <1>6, <1>7, <1>8, <1>9 DEF Next, Hooks

-----------------------------------------------------------------------------
(* The theorems.                                                           *)

(* The tickets, claims, cursors and hooks stay consistent: IndInv holds in *)
(* every reachable state, for every value of the constants.                *)
THEOREM Inductive == Spec => []IndInv
<1>1. Init => IndInv
  BY TypeInit, TicketInit, ClaimsInit, FrameInit, CursorInit, CaughtUpInit, HookInit DEF IndInv
<1>2. IndInv /\ [Next]_vars => IndInv'
  BY TypeNext, TicketNext, ClaimsNext, FrameNext, CursorNext, CaughtUpNext, HookNext DEF IndInv
<1> QED
  BY <1>1, <1>2, PTL DEF Spec

(* Every variable keeps its type.                                          *)
THEOREM TypeCorrect == Spec => []TypeOK
<1>1. IndInv => TypeOK
  BY DEF IndInv
<1> QED
  BY <1>1, Inductive, PTL

(* frame_for and the claims snapshot: a socket only carries frames about   *)
(* the account its ticket was minted for.                                  *)
THEOREM FramesAreOwn == Spec => []OnlyOwnSessions
<1>1. IndInv => OnlyOwnSessions
  <2> SUFFICES ASSUME IndInv, NEW p \in Peers, NEW i \in 1 .. Len(sent[p])
               PROVE  url[p] \in Tabs /\ About(sent[p][i]) \in owner[url[p]]
    BY DEF OnlyOwnSessions
  <2>1. About(sent[p][i]) \in claims[p]
    BY DEF IndInv, FrameInv, OwnFrames, OwnEvent
  <2>2. claims[p] = owner[url[p]] /\ sock[p] # "none"
    BY <2>1 DEF IndInv, TicketInv
  <2> QED
    BY <2>1, <2>2 DEF IndInv, TicketInv
<1> QED
  BY <1>1, Inductive, PTL

(* redeem_ws_ticket: one ticket, one socket, whoever presents the URL.     *)
THEOREM TicketsAreSingleUse == Spec => []OneSocketPerTicket
<1>1. IndInv => OneSocketPerTicket
  BY DEF IndInv
<1> QED
  BY <1>1, Inductive, PTL

(* subscribe before the 101: a publish after connect is written, being     *)
(* written, or was overwritten before the receiver read it.                *)
THEOREM NothingMissed == Spec => []NothingMissedAfterConnect
<1>1. IndInv => NothingMissedAfterConnect
  BY DEF IndInv
<1> QED
  BY <1>1, Inductive, PTL

(* on_new_session publishes before it records.                             *)
THEOREM OutageCostsNoAlert == Spec => []AlertSurvivesAuditOutage
<1>1. IndInv => AlertSurvivesAuditOutage
  BY DEF IndInv, HookInv, AlertSurvivesAuditOutage
<1> QED
  BY <1>1, Inductive, PTL

(* connect() after an unmount: the tab's connection stays unopened.        *)
THEOREM UnmountCancels == Spec => NoSocketAfterUnmount
<1>1. ASSUME IndInv, [Next]_vars, NEW t \in Tabs, tab[t] = "gone", sock[t] = "none"
      PROVE  sock'[t] = "none"
  <2> USE DEF hookVars, tabVars, sockVars
  <2>0. /\ t \in Peers /\ t \notin Replayers
        /\ sock \in [Peers -> {"none", "dialing", "refused", "redeemed", "dropped", "ended"} \cup Live]
    <3>1. t \in Peers /\ t \notin Replayers
      BY PeersAssumption DEF Peers
    <3> QED
      BY <1>1, <3>1 DEF IndInv, TypeOK
  <2>1. CASE \E s \in Tabs : Browser(s)
    BY <1>1, <2>0, <2>1 DEF Browser, Mount, MintTicket, MintRefused, TicketExpires, OpenSocket, NoRealtime, Unmount
  <2>2. CASE \E s \in Tabs, r \in Replayers : Replay(r, s)
    BY <1>1, <2>0, <2>2 DEF Replay
  <2>3. CASE Hooks \/ (\E p \in Peers : PeerLeaves(p)) \/ UNCHANGED vars
    BY <1>1, <2>0, <2>3 DEF Hooks, PublishSession, RecordSession, DropSenders, PeerLeaves, vars
  <2>4. CASE \E p \in Peers : Handler(p) \/ Task(p)
    BY <1>1, <2>0, <2>4 DEF Handler, Redeem, Subscribe, SwitchProtocols, UpgradeFails, Task, Recv, HandleSocket,
         RecvEvent, RecvLagged, RecvClosed, PeerClosed, SendText, SendTextFails
  <2> QED
    BY <1>1, <2>1, <2>2, <2>3, <2>4 DEF Next
<1>2. IndInv /\ [Next]_vars
        => [\A t \in Tabs : (tab[t] = "gone" /\ sock[t] = "none") => sock'[t] = "none"]_vars
  BY <1>1
<1> QED
  BY <1>2, Inductive, PTL DEF Spec, NoSocketAfterUnmount

-----------------------------------------------------------------------------
(* The refinement: every step of the detailed system is a step of          *)
(* SessionAlerts, or changes nothing it can see.                           *)
Seen == [k \in 1 .. Len(published) |-> About(k)]

Read == [p \in Peers |-> Reader(p)]

(* The initial states are initial states of SessionAlerts.                 *)
LEMMA AlertsInit == Init => Alerts!AInit
<1> SUFFICES ASSUME Init PROVE Alerts!AInit
  OBVIOUS
<1>1. Seen = <<>>
  BY DEF Init, Seen
<1>2. Read = [p \in Peers |-> {}]
  BY DEF Init, Read, Reader
<1> QED
  BY <1>1, <1>2 DEF Init, Alerts!AInit, Seen, Read

(* A step that publishes nothing leaves what was published as it was.      *)
LEMMA SeenStable ==
  ASSUME published' = published
  PROVE  Seen' = Seen
BY DEF Seen, About

(* A publish appends the account whose session it is.                      *)
LEMMA SeenAppends ==
  ASSUME TypeOK, NEW l \in Logins, NEW a \in Accounts,
         published' = Append(published, Event(l, a))
  PROVE  Seen' = Append(Seen, a)
<1> DEFINE n == Len(published)
<1>1. published \in Seq(EventType) /\ Event(l, a) \in EventType /\ n \in Nat
  BY EventInType DEF TypeOK
<1>2. /\ Len(published') = n + 1
      /\ \A k \in 1 .. n : published'[k] = published[k]
      /\ published'[n + 1] = Event(l, a)
  BY <1>1
<1>3. \A k \in 1 .. n : About(k)' = About(k)
  BY <1>2 DEF About
<1>4. [sub |-> Event(l, a).sub, tenant |-> Event(l, a).tenant] = a
  BY AccountsAssumption DEF Event
<1> DEFINE S == {About(k) : k \in 1 .. n} \cup {a}
<1>5. Seen \in Seq(S) /\ Len(Seen) = n
  BY <1>1 DEF Seen
<1>6. /\ Append(Seen, a) \in Seq(S)
      /\ Len(Append(Seen, a)) = n + 1
      /\ \A k \in 1 .. n : Append(Seen, a)[k] = About(k)
      /\ Append(Seen, a)[n + 1] = a
  <2>1. \A k \in 1 .. n : Seen[k] = About(k)
    BY DEF Seen
  <2> HIDE DEF n, S
  <2>2. a \in S
    BY DEF S
  <2> QED
    BY <1>5, <2>1, <2>2, AppendProperties
<1>7. /\ Seen' = [k \in 1 .. n + 1 |-> About(k)']
      /\ \A k \in 1 .. n + 1 : Seen'[k] = IF k <= n THEN About(k) ELSE a
  BY <1>1, <1>2, <1>3, <1>4 DEF Seen, About
<1>8. Seen' \in Seq(S) /\ Len(Seen') = n + 1
  BY <1>1, <1>7
<1>9. \A k \in 1 .. n + 1 : Seen'[k] = Append(Seen, a)[k]
  BY <1>1, <1>6, <1>7
<1> HIDE DEF n, S
<1> QED
  BY <1>6, <1>8, <1>9, SeqEqual

(* Every step is a step of SessionAlerts or a stutter.                     *)
LEMMA AlertsNext == IndInv /\ IndInv' /\ [Next]_vars => [Alerts!ANext]_(Alerts!avars)
<1> SUFFICES ASSUME IndInv, IndInv', [Next]_vars PROVE [Alerts!ANext]_(Alerts!avars)
  OBVIOUS
<1> USE DEF hookVars, tabVars, sockVars
<1>0. /\ TypeOK /\ TicketInv /\ ClaimsInv
      /\ sock \in [Peers -> {"none", "dialing", "refused", "redeemed", "dropped", "ended"} \cup Live]
      /\ claims \in [Peers -> SUBSET Accounts]
      /\ next \in [Peers -> Nat \ {0}]
      /\ since \in [Peers -> Nat]
      /\ sent \in [Peers -> Seq(Nat)]
      /\ published \in Seq(EventType)
  BY DEF IndInv, TypeOK
<1>1. CASE /\ published' = published
           /\ sent' = sent
           /\ since' = since
           /\ \A p \in Peers : Reader(p)' = Reader(p)
  <2>1. Seen' = Seen /\ Read' = Read
    BY <1>1, SeenStable DEF Read
  <2> QED
    BY <2>1, <1>1 DEF Alerts!avars, Seen, Read
<1>2. ASSUME NEW l \in Logins, NEW a \in Accounts, PublishSession(l, a)
      PROVE  [Alerts!ANext]_(Alerts!avars)
  <2>1. /\ sent' = sent /\ since' = since
        /\ \A p \in Peers : Reader(p)' = Reader(p)
        /\ published' = published \/ published' = Append(published, Event(l, a))
    BY <1>2 DEF PublishSession, Send, Reader
  <2>2. CASE published' = published
    BY <2>1, <2>2, <1>1
  <2>3. CASE published' = Append(published, Event(l, a))
    <3>1. Seen' = Append(Seen, a) /\ Read' = Read
      BY <2>1, <2>3, <1>0, SeenAppends DEF Read
    <3>2. Alerts!Publish
      BY <3>1, <2>1 DEF Alerts!Publish, Seen, Read
    <3> QED
      BY <3>2 DEF Alerts!ANext
  <2> QED
    BY <2>1, <2>2, <2>3
<1>3. CASE Quiet
  <2>1. ASSUME ~ \E l \in Logins, a \in Accounts : PublishSession(l, a)
        PROVE  published' = published
    BY SubjectAssumption, <1>3, <2>1 DEF Quiet, vars, Hooks, RecordSession, DropSenders, Browser, Mount, MintTicket, MintRefused,
                      TicketExpires, OpenSocket, NoRealtime, Unmount, Replay, PeerLeaves
  <2>2. \A p \in Peers : Reader(p)' = Reader(p)
    BY <1>3, <1>0, QuietStep DEF Reader
  <2> QED
    BY <1>3, <1>0, <1>1, <1>2, <2>1, <2>2, QuietStep
<1>4. ASSUME NEW p \in Peers, Redeem(p) \/ Subscribe(p) \/ UpgradeFails(p)
      PROVE  [Alerts!ANext]_(Alerts!avars)
  <2>1. published' = published /\ sent' = sent /\ since' = since
    BY <1>4 DEF Redeem, Subscribe, UpgradeFails
  <2>2. \A q \in Peers : q # p => sock'[q] = sock[q] /\ claims'[q] = claims[q]
    BY <1>4, <1>0 DEF Redeem, Subscribe, UpgradeFails
  <2>3. /\ sock[p] \notin {"connected", "tailing", "sending", "ended"}
        /\ sock'[p] \notin {"connected", "tailing", "sending", "ended"}
    BY <1>4, <1>0 DEF Redeem, Subscribe, UpgradeFails
  <2> QED
    BY <2>1, <2>2, <2>3, <1>1 DEF Reader
<1>5. ASSUME NEW p \in Peers, SwitchProtocols(p) PROVE Alerts!Open(p)
  <2>1. PICK a \in Accounts : claims[p] = {a}
    <3>1. sock[p] = "subscribed"
      BY <1>5 DEF SwitchProtocols
    <3>2. claims[p] # {} /\ url[p] \in Tabs
      BY <3>1, <1>0 DEF TicketInv, ClaimsInv
    <3>3. claims[p] = owner[url[p]] /\ ticket[url[p]] = "spent"
      BY <3>2, <1>0 DEF TicketInv
    <3> QED
      BY <3>2, <3>3, <1>0 DEF ClaimsInv
  <2>2. Read[p] = {} /\ Reader(p)' = {a}
    BY <1>5, <2>1, <1>0 DEF SwitchProtocols, Read, Reader
  <2>3. \A q \in Peers : q # p => Reader(q)' = Reader(q)
    BY <1>5, <1>0 DEF SwitchProtocols, Reader
  <2>4. Read' = [Read EXCEPT ![p] = {a}]
    BY <2>2, <2>3 DEF Read
  <2>5. since' = [since EXCEPT ![p] = Len(Seen)]
    <3>1. Len(Seen) = Len(published)
      BY <1>0 DEF Seen
    <3> QED
      BY <3>1, <1>5 DEF SwitchProtocols
  <2>6. Seen' = Seen /\ sent' = sent
    BY <1>5, SeenStable DEF SwitchProtocols
  <2> QED
    BY <2>2, <2>4, <2>5, <2>6 DEF Alerts!Open, Seen, Read
<1>6. ASSUME NEW p \in Peers, HandleSocket(p) \/ Recv(p) \/ SendTextFails(p)
      PROVE  [Alerts!ANext]_(Alerts!avars)
  <2>1. /\ published' = published /\ sent' = sent /\ since' = since /\ claims' = claims
        /\ \A q \in Peers : q # p => sock'[q] = sock[q]
        /\ sock[p] \in {"connected", "tailing", "sending"}
        /\ sock'[p] \in {"connected", "tailing", "sending", "ended"}
    BY <1>6, <1>0 DEF HandleSocket, Recv, RecvEvent, RecvLagged, RecvClosed, PeerClosed, SendTextFails
  <2> QED
    BY <2>1, <1>1 DEF Reader
<1>7. ASSUME NEW p \in Peers, SendText(p) PROVE Alerts!Forward(p)
  <2> DEFINE k == next[p] - 1
  <2>1. /\ sock[p] = "sending"
        /\ sent' = [sent EXCEPT ![p] = Append(@, k)]
        /\ published' = published /\ claims' = claims /\ since' = since
    BY <1>7 DEF SendText
  <2>2. k \in 1 .. Len(published) /\ About(k) \in claims[p]
    BY <2>1 DEF IndInv, FrameInv, OwnFrames, OwnEvent
  <2>3. Len(Seen) = Len(published) /\ (\A j \in 1 .. Len(published) : Seen[j] = About(j)) /\ Read[p] = claims[p]
    BY <2>1, <1>0 DEF Seen, Read, Reader
  <2> DEFINE last == IF sent[p] = <<>> THEN 0 ELSE sent[p][Len(sent[p])]
  <2>4. /\ \A i \in 1 .. Len(sent[p]) : sent[p][i] \in Nat /\ sent[p][i] < k /\ sent[p][i] <= last
        /\ last < k
    <3>1. /\ Len(sent[p]) \in Nat
          /\ \A i \in 1 .. Len(sent[p]) : sent[p][i] \in Nat /\ sent[p][i] < k
          /\ \A i \in 1 .. Len(sent[p]) : \A j \in 1 .. i - 1 : sent[p][j] < sent[p][i]
      <4>1. Behind(p)
        BY DEF IndInv, CursorInv
      <4>2. sent[p] \in Seq(Nat)
        BY <1>0
      <4> QED
        BY <2>1, <4>1, <4>2 DEF Behind
    <3>2. CASE sent[p] = <<>>
      BY <3>2, <3>1, <2>2
    <3>3. CASE sent[p] # <<>>
      <4>1. Len(sent[p]) \in 1 .. Len(sent[p])
        BY <3>3, <3>1, <1>0
      <4>2. \A i \in 1 .. Len(sent[p]) : i = Len(sent[p]) \/ i \in 1 .. Len(sent[p]) - 1
        BY <3>1
      <4> QED
        BY <3>1, <3>3, <4>1, <4>2
    <3> QED
      BY <3>2, <3>3
  <2>5. ASSUME NEW j \in 1 .. k - 1, j > last, j > since[p], About(j) \in claims[p]
        PROVE  j + Capacity <= Len(published)
    <3>1. j \in since[p] + 1 .. next[p] - 1 /\ j # k
      BY <2>2, <2>5, <1>0
    <3>2. Accounted(p, j)
      BY <2>1, <3>1 DEF IndInv, NothingMissedAfterConnect, CaughtUp
    <3>3. j < Oldest
      BY <2>4, <2>5, <3>1, <3>2 DEF Accounted
    <3> QED
      BY <3>1, <3>3, <1>0, CapacityAssumption DEF Oldest
  <2>6. Seen' = Seen /\ Read' = Read
    <3>1. \A q \in Peers : Reader(q)' = Reader(q)
      BY <1>7, <1>0 DEF SendText, Reader
    <3> QED
      BY <3>1, <2>1, SeenStable DEF Read
  <2>7. Alerts!Last(p) = last
    BY DEF Alerts!Last
  <2>8. /\ k \in 1 .. Len(Seen)
        /\ Seen[k] \in Read[p]
        /\ k > last
        /\ \A j \in 1 .. k - 1 : (j > last /\ j > since[p] /\ Seen[j] \in Read[p]) => j + Capacity <= Len(Seen)
    BY <2>2, <2>3, <2>4, <2>5, <1>0
  <2> HIDE DEF k, last
  <2> QED
    BY <2>1, <2>6, <2>7, <2>8 DEF Alerts!Forward, Alerts!Own, Alerts!Overwritten, Seen, Read
<1> QED
  BY <1>3, <1>4, <1>5, <1>6, <1>7 DEF Next, Quiet, Handler, Task, Alerts!ANext

(* The tickets, the channel and the tasks implement SessionAlerts.         *)
THEOREM Refinement == Spec => AlertSpec
BY Inductive, AlertsInit, AlertsNext, PTL DEF Spec, AlertSpec, Alerts!ASpec
=============================================================================
