---------------------------- MODULE SessionsPage ----------------------------
(***************************************************************************)
(* The device manager (apps/web/app/(dashboard)/dashboard/sessions): the   *)
(* list of the account's sessions, a revoke that removes its row at once   *)
(* and puts the list back when it fails, "log out everywhere else", and    *)
(* the new-session alert that loads the list again.                        *)
(*                                                                         *)
(* Every request is a call of its own and several may be out at once: the  *)
(* server serves them, and their answers arrive, in any order.  The row of *)
(* the current device has no button (SessionsTable.tsx), so Devices are    *)
(* the other ones.  The engine's session store is external; the alerts     *)
(* come from SessionFanout, which says when one may be missed.             *)
(***************************************************************************)
EXTENDS Naturals, FiniteSets

CONSTANTS
  Devices,     \* the account's other devices, one session each
  MaxCalls,    \* the requests the page makes (bounds them)
  NoDevice     \* revokingId = null, and the target of a call without one

ASSUME NoDeviceAssumption == NoDevice \notin Devices
ASSUME MaxCallsAssumption == MaxCalls \in Nat \ {0}

(* Numbered in the order in which they are made.                           *)
Calls == 1 .. MaxCalls

VARIABLES
  session,     \* a device's session in the store: absent, active or ended
  alerts,      \* the sessions whose alert is on its way to the page
  view,        \* state.kind: loading, error or ready
  shown,       \* state.sessions, without the current device
  revokingId,  \* the id whose button is disabled
  dialog,      \* the confirmation of "log out everywhere else" is open
  signingOut,  \* signingOutOthers
  op,          \* what a call is: none, list, revoke, revokeAll or relist
  phase,       \* idle, sent, ok, failed or done
  target,      \* the session a revoke is for
  previous,    \* the list a revoke puts back
  answer,      \* the sessions a list was answered with
  told,        \* the sessions the page was told are revoked
  alerted,     \* the sessions the page was alerted to
  overlapped   \* two calls have been out at once

storeVars == <<session, alerts>>
viewVars  == <<view, shown, revokingId, dialog, signingOut>>
callVars  == <<op, phase, target, previous, answer>>
factVars  == <<told, alerted, overlapped>>
vars      == <<storeVars, viewVars, callVars, factVars>>

-----------------------------------------------------------------------------
Active == {d \in Devices : session[d] = "active"}

Lists == {"list", "relist"}

Out(c) == phase[c] \in {"sent", "ok", "failed"}

(* The next request leaves the page.                                       *)
Send(c, what) ==
  /\ phase[c] = "idle"
  /\ \A b \in 1 .. c - 1 : phase[b] # "idle"
  /\ phase' = [phase EXCEPT ![c] = "sent"]
  /\ op' = [op EXCEPT ![c] = what]
  /\ overlapped' = (overlapped \/ \E b \in Calls : Out(b))
  /\ UNCHANGED answer

(* A variant: the rows are kept beside the state.                          *)
LoadKeepingRows(c) ==
  /\ Send(c, "list")
  /\ view' = "loading"
  /\ UNCHANGED <<shown, target, previous>>

(* load(): the list is dropped for the loading state until the answer.     *)
Load(c) ==
  /\ Send(c, "list")
  /\ view' = "loading"
  /\ shown' = {}
  /\ UNCHANGED <<target, previous>>

-----------------------------------------------------------------------------
(* The session store.                                                      *)

SignIn(d) ==
  /\ session[d] = "absent"
  /\ session' = [session EXCEPT ![d] = "active"]
  /\ alerts' = alerts \cup {d}
  /\ UNCHANGED <<viewVars, callVars, factVars>>

(* It expires, is evicted, or logs out on its own device.                  *)
EndsElsewhere(d) ==
  /\ session[d] = "active"
  /\ session' = [session EXCEPT ![d] = "ended"]
  /\ UNCHANGED <<alerts, viewVars, callVars, factVars>>

Revoked(c) ==
  CASE op[c] = "revoke"    -> {target[c]}
    [] op[c] = "revokeAll" -> Devices
    [] OTHER               -> {}

(* The request takes effect.                                               *)
Effect(c) ==
  session' = [d \in Devices |->
                IF d \in Revoked(c) /\ session[d] = "active" THEN "ended" ELSE session[d]]

Serve(c) ==
  /\ phase[c] = "sent"
  /\ Effect(c)
  /\ answer' = [answer EXCEPT ![c] = IF op[c] \in Lists THEN Active ELSE {}]
  /\ phase' = [phase EXCEPT ![c] = "ok"]
  /\ UNCHANGED <<alerts, viewVars, op, target, previous, factVars>>

(* Refused, or lost on the way there or, having taken effect, on the way   *)
(* back.                                                                   *)
Fail(c) ==
  /\ phase[c] = "sent"
  /\ Effect(c) \/ UNCHANGED session
  /\ phase' = [phase EXCEPT ![c] = "failed"]
  /\ UNCHANGED <<alerts, viewVars, op, target, previous, answer, factVars>>

-----------------------------------------------------------------------------
(* What the user and the socket do to the page.                            *)

(* onNewSession: toast, then load().                                       *)
Alert(c, d) ==
  /\ d \in alerts
  /\ alerts' = alerts \ {d}
  /\ alerted' = alerted \cup {d}
  /\ Load(c)
  /\ UNCHANGED <<session, revokingId, dialog, signingOut, told>>

(* The button is there in the error state only; the dialog is modal.       *)
Retry(c) ==
  /\ view = "error"
  /\ ~dialog
  /\ Load(c)
  /\ UNCHANGED <<storeVars, revokingId, dialog, signingOut, told, alerted>>

(* A variant: the row stays until the next load.                           *)
HandleRevokeKeepingRow(c, d) ==
  /\ view = "ready"
  /\ ~dialog
  /\ d \in shown
  /\ revokingId # d
  /\ Send(c, "revoke")
  /\ target' = [target EXCEPT ![c] = d]
  /\ previous' = [previous EXCEPT ![c] = shown]
  /\ revokingId' = d
  /\ UNCHANGED <<storeVars, view, shown, dialog, signingOut, told, alerted>>

(* handleRevoke up to its await.                                           *)
HandleRevoke(c, d) ==
  /\ view = "ready"
  /\ ~dialog
  /\ d \in shown
  /\ revokingId # d
  /\ Send(c, "revoke")
  /\ target' = [target EXCEPT ![c] = d]
  /\ previous' = [previous EXCEPT ![c] = shown]
  /\ revokingId' = d
  /\ shown' = shown \ {d}
  /\ UNCHANGED <<storeVars, view, dialog, signingOut, told, alerted>>

OpenDialog ==
  /\ view = "ready"
  /\ ~dialog
  /\ ~signingOut
  /\ dialog' = TRUE
  /\ UNCHANGED <<storeVars, view, shown, revokingId, signingOut, callVars, factVars>>

CancelDialog ==
  /\ dialog
  /\ dialog' = FALSE
  /\ UNCHANGED <<storeVars, view, shown, revokingId, signingOut, callVars, factVars>>

(* handleSignOutOthers up to its first await, whatever the view is by now. *)
HandleSignOutOthers(c) ==
  /\ dialog
  /\ dialog' = FALSE
  /\ signingOut' = TRUE
  /\ Send(c, "revokeAll")
  /\ UNCHANGED <<storeVars, view, shown, revokingId, target, previous, told, alerted>>

-----------------------------------------------------------------------------
(* What the answers do to it.                                              *)

(* The call is over and what it held is dropped; a sign-out frees its      *)
(* button.                                                                 *)
Finish(c) ==
  /\ phase' = [phase EXCEPT ![c] = "done"]
  /\ target' = [target EXCEPT ![c] = NoDevice]
  /\ previous' = [previous EXCEPT ![c] = {}]
  /\ answer' = [answer EXCEPT ![c] = {}]
  /\ signingOut' = (signingOut /\ op[c] \notin {"relist", "revokeAll"})
  /\ UNCHANGED <<storeVars, dialog, op, alerted, overlapped>>

Listed(c) ==
  /\ op[c] \in Lists
  /\ phase[c] = "ok"
  /\ view' = "ready"
  /\ shown' = answer[c]
  /\ Finish(c)
  /\ UNCHANGED <<revokingId, told>>

ListFails(c) ==
  /\ op[c] \in Lists
  /\ phase[c] = "failed"
  /\ view' = "error"
  /\ shown' = {}
  /\ Finish(c)
  /\ UNCHANGED <<revokingId, told>>

RevokeDone(c) ==
  /\ op[c] = "revoke"
  /\ phase[c] = "ok"
  /\ told' = told \cup {target[c]}
  /\ revokingId' = NoDevice
  /\ Finish(c)
  /\ UNCHANGED <<view, shown>>

(* The list is put back as it was when the revoke was clicked.             *)
RevokeFails(c) ==
  /\ op[c] = "revoke"
  /\ phase[c] = "failed"
  /\ view' = "ready"
  /\ shown' = previous[c]
  /\ revokingId' = NoDevice
  /\ Finish(c)
  /\ UNCHANGED told

(* revokeAllOtherSessions returned: toast, and load() within the same try. *)
OthersSignedOut(c) ==
  /\ op[c] = "revokeAll"
  /\ phase[c] = "ok"
  /\ op' = [op EXCEPT ![c] = "relist"]
  /\ phase' = [phase EXCEPT ![c] = "sent"]
  /\ view' = "loading"
  /\ shown' = {}
  /\ UNCHANGED <<storeVars, revokingId, dialog, signingOut, target, previous, answer, factVars>>

(* A variant: no finally.                                                  *)
SignOutFailsBusy(c) ==
  /\ op[c] = "revokeAll"
  /\ phase[c] = "failed"
  /\ phase' = [phase EXCEPT ![c] = "done"]
  /\ UNCHANGED <<storeVars, viewVars, op, target, previous, answer, factVars>>

SignOutFails(c) ==
  /\ op[c] = "revokeAll"
  /\ phase[c] = "failed"
  /\ Finish(c)
  /\ UNCHANGED <<view, shown, revokingId, told>>

-----------------------------------------------------------------------------
(* The page mounts and its effect loads the list.                          *)
Init ==
  /\ session \in [Devices -> {"absent", "active"}]
  /\ alerts = {}
  /\ view = "loading"
  /\ shown = {}
  /\ revokingId = NoDevice
  /\ dialog = FALSE
  /\ signingOut = FALSE
  /\ op = [c \in Calls |-> IF c = 1 THEN "list" ELSE "none"]
  /\ phase = [c \in Calls |-> IF c = 1 THEN "sent" ELSE "idle"]
  /\ target = [c \in Calls |-> NoDevice]
  /\ previous = [c \in Calls |-> {}]
  /\ answer = [c \in Calls |-> {}]
  /\ told = {}
  /\ alerted = {}
  /\ overlapped = FALSE

Store(c) == Serve(c) \/ Fail(c)

Answer(c) == Listed(c) \/ ListFails(c) \/ RevokeDone(c) \/ RevokeFails(c) \/ OthersSignedOut(c) \/ SignOutFails(c)

User(c) == Retry(c) \/ HandleSignOutOthers(c) \/ \E d \in Devices : Alert(c, d) \/ HandleRevoke(c, d)

Next ==
  \/ \E d \in Devices : SignIn(d) \/ EndsElsewhere(d)
  \/ OpenDialog \/ CancelDialog
  \/ \E c \in Calls : User(c) \/ Store(c) \/ Answer(c)

Spec == Init /\ [][Next]_vars

(* A fetch settles, one way or the other, and the browser runs what awaits *)
(* it.  Nothing makes the user click or a device sign in.                  *)
Fairness == \A c \in Calls : WF_vars(Store(c)) /\ WF_vars(Answer(c))

FairSpec == Spec /\ Fairness

-----------------------------------------------------------------------------
(* Every variable keeps its type: as in LoadState, only a ready page has   *)
(* sessions.                                                               *)
TypeOK ==
  /\ session \in [Devices -> {"absent", "active", "ended"}]
  /\ alerts \subseteq Devices
  /\ view \in {"loading", "error", "ready"}
  /\ shown \subseteq Devices
  /\ view # "ready" => shown = {}
  /\ revokingId \in Devices \cup {NoDevice}
  /\ dialog \in BOOLEAN
  /\ signingOut \in BOOLEAN
  /\ op \in [Calls -> {"none", "list", "revoke", "revokeAll", "relist"}]
  /\ phase \in [Calls -> {"idle", "sent", "ok", "failed", "done"}]
  /\ target \in [Calls -> Devices \cup {NoDevice}]
  /\ previous \in [Calls -> SUBSET Devices]
  /\ answer \in [Calls -> SUBSET Devices]
  /\ told \subseteq Devices
  /\ alerted \subseteq Devices
  /\ overlapped \in BOOLEAN

SigningOut(c) == Out(c) /\ op[c] \in {"revokeAll", "relist"}

(* "Log out everywhere else" runs once at a time, and its button is busy   *)
(* exactly while it does: no answer of another call frees it early.        *)
OneSignOut ==
  /\ signingOut <=> \E c \in Calls : SigningOut(c)
  /\ \A b, c \in Calls : (SigningOut(b) /\ SigningOut(c)) => b = c

(* A row's disabled button belongs to a revoke that is out, so no button   *)
(* stays disabled once the revokes are answered, whichever fails.          *)
RevokingIsOut ==
  revokingId # NoDevice =>
    \E c \in Calls : Out(c) /\ op[c] = "revoke" /\ target[c] = revokingId

(* While the skeleton shows, a list is on its way: however loads, failures *)
(* and rollbacks interleave, the page is never left loading for ever.      *)
SkeletonHasLoad == view = "loading" => \E c \in Calls : Out(c) /\ op[c] \in Lists

Quiet == \A c \in Calls : ~Out(c)

(* As long as no two calls were out at once, a page at rest lists every    *)
(* active session it was alerted to, and none it was told is revoked.      *)
UndisturbedPageIsTrue ==
  (view = "ready" /\ Quiet /\ ~overlapped) =>
    /\ alerted \cap Active \subseteq shown
    /\ shown \cap told = {}

(* A started sign-out of the others ends and frees its button, and the     *)
(* skeleton gives way to a list or to the error.                           *)
PageSettles ==
  /\ signingOut ~> ~signingOut
  /\ view = "loading" ~> view # "loading"

(* What the page's test says: a failed revoke restores the row             *)
(* (sessions/page.test.tsx, "rolls back an optimistic revoke on failure"). *)
RollbackRestoresItsRow ==
  [][\A c \in Calls :
       (op[c] = "revoke" /\ phase[c] = "failed" /\ phase'[c] = "done")
         => shown' = shown \cup {target[c]}]_vars

-----------------------------------------------------------------------------
(* The inductive invariant behind the safety properties.                   *)

(* The confirmation is not open while the others are being signed out.     *)
DialogInv == dialog => ~signingOut

(* A revoke that is out has a device.                                      *)
Revoking(c) == Out(c) /\ op[c] = "revoke"

TargetInv == \A c \in Calls : Revoking(c) => target[c] \in Devices

(* The sessions that have existed.                                         *)
Known == {d \in Devices : session[d] # "absent"}

(* What the page has or is getting are sessions that have existed, and a   *)
(* revoke that was served or confirmed leaves none active.                 *)
KnownInv ==
  /\ alerts \cup alerted \cup shown \subseteq Known
  /\ \A c \in Calls : answer[c] \cup previous[c] \subseteq Known
  /\ \A c \in Calls : Revoking(c) => target[c] \in Known
  /\ \A c \in Calls : (Revoking(c) /\ phase[c] = "ok") => target[c] \notin Active
  /\ told \subseteq Known \ Active

(* A list of sessions with none missing and none left over.                *)
True(list) == alerted \cap Active \subseteq list /\ list \cap told = {}

(* While no two calls were out at once, the list on the page is true, a    *)
(* revoke holds a true list, and a list is answered with one.              *)
UndisturbedInv ==
  ~overlapped =>
    /\ \A b, c \in Calls : (Out(b) /\ Out(c)) => b = c
    /\ (view = "ready" /\ \A c \in Calls : ~Revoking(c)) => True(shown)
    /\ \A c \in Calls : Revoking(c) =>
         view = "ready" /\ True(previous[c]) /\ shown = previous[c] \ {target[c]}
    /\ \A c \in Calls : (op[c] \in Lists /\ phase[c] = "ok") => True(answer[c])

IndInv ==
  /\ TypeOK
  /\ OneSignOut
  /\ DialogInv
  /\ SkeletonHasLoad
  /\ TargetInv
  /\ RevokingIsOut
  /\ KnownInv
  /\ UndisturbedInv
=============================================================================
