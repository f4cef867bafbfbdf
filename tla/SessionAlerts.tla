--------------------------- MODULE SessionAlerts ---------------------------
(***************************************************************************)
(* What the live new-session alert promises, with no ticket, channel,      *)
(* handshake or task in sight: a subscriber that is open sees its own      *)
(* sessions' events, in the order they were published, and misses one only *)
(* when Capacity newer events have been published over it.                 *)
(*                                                                         *)
(* SessionFanout is shown to implement this module.                        *)
(***************************************************************************)
EXTENDS Naturals, Sequences

CONSTANTS
  Accounts,    \* the (sub, tenant) pairs a session belongs to
  Peers,       \* the subscribers
  Capacity     \* how many events stay readable

VARIABLES
  published,   \* the accounts whose sessions were published, oldest first
  reader,      \* the account a subscriber reads for, {} before it opens
  since,       \* how many events were published when the subscriber opened
  feed         \* the positions in published it was sent, in order

avars == <<published, reader, since, feed>>

Last(p) == IF feed[p] = <<>> THEN 0 ELSE feed[p][Len(feed[p])]

Own(p, k) == published[k] \in reader[p]

Overwritten(k) == k + Capacity <= Len(published)

AInit ==
  /\ published = <<>>
  /\ reader = [p \in Peers |-> {}]
  /\ since = [p \in Peers |-> 0]
  /\ feed = [p \in Peers |-> <<>>]

Publish ==
  /\ \E a \in Accounts : published' = Append(published, a)
  /\ UNCHANGED <<reader, since, feed>>

Open(p) ==
  /\ reader[p] = {}
  /\ \E a \in Accounts : reader' = [reader EXCEPT ![p] = {a}]
  /\ since' = [since EXCEPT ![p] = Len(published)]
  /\ UNCHANGED <<published, feed>>

(* The next event a subscriber is sent is its own, later than the last one,*)
(* and every own event skipped on the way has been overwritten.            *)
Forward(p) ==
  /\ \E k \in 1 .. Len(published) :
       /\ Own(p, k)
       /\ k > Last(p)
       /\ \A j \in 1 .. k - 1 :
            (j > Last(p) /\ j > since[p] /\ Own(p, j)) => Overwritten(j)
       /\ feed' = [feed EXCEPT ![p] = Append(@, k)]
  /\ UNCHANGED <<published, reader, since>>

ANext == Publish \/ \E p \in Peers : Open(p) \/ Forward(p)

ASpec == AInit /\ [][ANext]_avars
=============================================================================
