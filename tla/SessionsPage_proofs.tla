------------------------- MODULE SessionsPage_proofs -------------------------
(***************************************************************************)
(* Proofs about SessionsPage for any number of devices and requests: its   *)
(* types, the single sign-out of the others, and that no skeleton and no   *)
(* disabled button is left without a request that will end it.             *)
(***************************************************************************)
EXTENDS SessionsPage, TLAPS

(* The page loads its first list with its types in order.                  *)
LEMMA TypeInit == Init => TypeOK
<1> SUFFICES ASSUME Init PROVE TypeOK
  OBVIOUS
<1>1. session \in [Devices -> {"absent", "active", "ended"}]
  BY DEF Init
<1>2. /\ op \in [Calls -> {"none", "list", "revoke", "revokeAll", "relist"}]
      /\ phase \in [Calls -> {"idle", "sent", "ok", "failed", "done"}]
  BY DEF Init
<1>3. /\ target \in [Calls -> Devices \cup {NoDevice}]
      /\ previous \in [Calls -> SUBSET Devices]
      /\ answer \in [Calls -> SUBSET Devices]
  BY DEF Init
<1> QED
  BY <1>1, <1>2, <1>3 DEF Init, TypeOK

(* A request that leaves keeps the types of the calls.                     *)
LEMMA SendTypes ==
  ASSUME TypeOK, NEW c \in Calls,
         NEW what \in {"list", "revoke", "revokeAll"}, Send(c, what)
  PROVE  /\ op' \in [Calls -> {"none", "list", "revoke", "revokeAll", "relist"}]
         /\ phase' \in [Calls -> {"idle", "sent", "ok", "failed", "done"}]
         /\ answer' \in [Calls -> SUBSET Devices]
         /\ overlapped' \in BOOLEAN
<1>1. overlapped' \in BOOLEAN
  BY Zenon DEF Send, TypeOK
<1> QED
  BY <1>1 DEF Send, TypeOK

(* A call that is over keeps them too.                                     *)
LEMMA FinishTypes ==
  ASSUME TypeOK, NEW c \in Calls, Finish(c)
  PROVE  /\ op' \in [Calls -> {"none", "list", "revoke", "revokeAll", "relist"}]
         /\ phase' \in [Calls -> {"idle", "sent", "ok", "failed", "done"}]
         /\ target' \in [Calls -> Devices \cup {NoDevice}]
         /\ previous' \in [Calls -> SUBSET Devices]
         /\ answer' \in [Calls -> SUBSET Devices]
         /\ signingOut' \in BOOLEAN
         /\ session' \in [Devices -> {"absent", "active", "ended"}]
         /\ alerts' \subseteq Devices
         /\ dialog' \in BOOLEAN
         /\ alerted' \subseteq Devices
         /\ overlapped' \in BOOLEAN
<1>1. signingOut' \in BOOLEAN
  BY Zenon DEF Finish, TypeOK
<1> QED
  BY <1>1 DEF Finish, TypeOK, storeVars

(* What a request does to the store keeps the type of the store.           *)
LEMMA EffectTypes ==
  ASSUME TypeOK, NEW c \in Calls, Effect(c) \/ UNCHANGED session
  PROVE  session' \in [Devices -> {"absent", "active", "ended"}]
<1>1. CASE UNCHANGED session
  BY <1>1 DEF TypeOK
<1>2. CASE Effect(c)
  <2>1. \A d \in Devices : session[d] \in {"absent", "active", "ended"}
    BY DEF TypeOK
  <2> QED
    BY <1>2, <2>1 DEF Effect
<1> QED
  BY <1>1, <1>2

(* Every step keeps the types, and the rows of a page that is not ready    *)
(* stay empty.                                                             *)
LEMMA TypeNext == TypeOK /\ TargetInv /\ [Next]_vars => TypeOK'
<1> SUFFICES ASSUME TypeOK, TargetInv, [Next]_vars PROVE TypeOK'
  OBVIOUS
<1> USE DEF storeVars, viewVars, callVars, factVars
<1>1. ASSUME NEW d \in Devices, SignIn(d) PROVE TypeOK'
  BY <1>1 DEF SignIn, TypeOK
<1>2. ASSUME NEW d \in Devices, EndsElsewhere(d) PROVE TypeOK'
  BY <1>2 DEF EndsElsewhere, TypeOK
<1>3. CASE OpenDialog
  BY <1>3 DEF OpenDialog, TypeOK
<1>4. CASE CancelDialog
  BY <1>4 DEF CancelDialog, TypeOK
<1>5. ASSUME NEW c \in Calls, NEW d \in Devices, Alert(c, d) PROVE TypeOK'
  <2>1. Send(c, "list")
    BY <1>5 DEF Alert, Load
  <2> QED
    BY <1>5, <2>1, SendTypes DEF Alert, Load, TypeOK
<1>6. ASSUME NEW c \in Calls, Retry(c) PROVE TypeOK'
  <2>1. Send(c, "list")
    BY <1>6 DEF Retry, Load
  <2> QED
    BY <1>6, <2>1, SendTypes DEF Retry, Load, TypeOK
<1>7. ASSUME NEW c \in Calls, NEW d \in Devices, HandleRevoke(c, d) PROVE TypeOK'
  <2>1. Send(c, "revoke")
    BY <1>7 DEF HandleRevoke
  <2> QED
    BY <1>7, <2>1, SendTypes DEF HandleRevoke, TypeOK
<1>8. ASSUME NEW c \in Calls, HandleSignOutOthers(c) PROVE TypeOK'
  <2>1. Send(c, "revokeAll")
    BY <1>8 DEF HandleSignOutOthers
  <2> QED
    BY <1>8, <2>1, SendTypes DEF HandleSignOutOthers, TypeOK
<1>9. ASSUME NEW c \in Calls, Serve(c) PROVE TypeOK'
  <2>1. session' \in [Devices -> {"absent", "active", "ended"}]
    BY <1>9, EffectTypes DEF Serve
  <2>2. Active \subseteq Devices
    BY DEF Active
  <2> QED
    BY <1>9, <2>1, <2>2 DEF Serve, TypeOK
<1>10. ASSUME NEW c \in Calls, Fail(c) PROVE TypeOK'
  <2>1. session' \in [Devices -> {"absent", "active", "ended"}]
    BY <1>10, EffectTypes DEF Fail
  <2> QED
    BY <1>10, <2>1 DEF Fail, TypeOK
<1>11. ASSUME NEW c \in Calls, Answer(c) PROVE TypeOK'
  <2>1. CASE Listed(c)
    BY <2>1, <1>11, FinishTypes DEF Listed, TypeOK
  <2>2. CASE ListFails(c)
    BY <2>2, <1>11, FinishTypes DEF ListFails, TypeOK
  <2>3. CASE RevokeDone(c)
    <3>1. target[c] \in Devices
      BY <2>3, <1>11 DEF RevokeDone, TargetInv, Revoking, Out
    <3> QED
      BY <2>3, <1>11, <3>1, FinishTypes DEF RevokeDone, TypeOK
  <2>4. CASE RevokeFails(c)
    BY <2>4, <1>11, FinishTypes DEF RevokeFails, TypeOK
  <2>5. CASE OthersSignedOut(c)
    BY <2>5 DEF OthersSignedOut, TypeOK
  <2>6. CASE SignOutFails(c)
    BY <2>6, <1>11, FinishTypes DEF SignOutFails, TypeOK
  <2> QED
    BY <1>11, <2>1, <2>2, <2>3, <2>4, <2>5, <2>6 DEF Answer
<1>12. CASE UNCHANGED vars
  BY <1>12 DEF vars, TypeOK
<1> QED
  BY <1>1, <1>2, <1>3, <1>4, <1>5, <1>6, <1>7, <1>8, <1>9, <1>10, <1>11, <1>12 DEF Next, User, Store

-----------------------------------------------------------------------------
(* A call that is sent was not out, is out, and is the only one to change. *)
LEMMA SendCalls ==
  ASSUME TypeOK, NEW c \in Calls, NEW what, Send(c, what)
  PROVE  /\ ~Out(c) /\ Out(c)' /\ op'[c] = what /\ phase'[c] = "sent"
         /\ \A b \in Calls : b # c => (Out(b)' <=> Out(b)) /\ op'[b] = op[b] /\ phase'[b] = phase[b]
  BY DEF Send, TypeOK, Out

(* A call that was served or lost is out as before.                        *)
LEMMA StoreCalls ==
  ASSUME TypeOK, NEW c \in Calls, Store(c)
  PROVE  /\ Out(c) /\ Out(c)' /\ phase'[c] \in {"ok", "failed"}
         /\ op' = op /\ target' = target /\ previous' = previous
         /\ \A b \in Calls : b # c => (Out(b)' <=> Out(b)) /\ phase'[b] = phase[b]
  BY DEF Store, Serve, Fail, TypeOK, Out

(* A call that is over was out and is not, and is the only one to change.  *)
LEMMA FinishCalls ==
  ASSUME TypeOK, NEW c \in Calls, Finish(c)
  PROVE  /\ ~Out(c)' /\ op' = op
         /\ \A b \in Calls : b # c =>
              /\ (Out(b)' <=> Out(b)) /\ phase'[b] = phase[b]
              /\ target'[b] = target[b] /\ previous'[b] = previous[b] /\ answer'[b] = answer[b]
  BY DEF Finish, TypeOK, Out

(* Steps of the store and of the dialog leave every call as it is.         *)
LEMMA CallsStill ==
  ASSUME UNCHANGED <<op, phase>>
  PROVE  \A c \in Calls : (Out(c)' <=> Out(c)) /\ (SigningOut(c)' <=> SigningOut(c))
  BY DEF Out, SigningOut

Busy == OneSignOut /\ DialogInv

(* The sign-out of the others runs once at a time.                         *)
LEMMA BusyNext == TypeOK /\ Busy /\ [Next]_vars => Busy'
<1> SUFFICES ASSUME TypeOK, Busy, [Next]_vars PROVE Busy'
  OBVIOUS
<1> USE DEF storeVars, viewVars, callVars, factVars
<1>1. ASSUME NEW d \in Devices, SignIn(d) \/ EndsElsewhere(d) PROVE Busy'
  BY <1>1, CallsStill DEF SignIn, EndsElsewhere, Busy, OneSignOut, DialogInv
<1>2. CASE OpenDialog \/ CancelDialog
  BY <1>2, CallsStill DEF OpenDialog, CancelDialog, Busy, OneSignOut, DialogInv
<1>3. ASSUME NEW c \in Calls, NEW what \in {"list", "revoke"}, Send(c, what), UNCHANGED <<signingOut, dialog>>
      PROVE  Busy'
  <2>1. \A b \in Calls : SigningOut(b)' <=> SigningOut(b)
    BY <1>3, SendCalls DEF SigningOut
  <2> QED
    BY <1>3, <2>1 DEF Busy, OneSignOut, DialogInv
<1>4. ASSUME NEW c \in Calls, HandleSignOutOthers(c) PROVE Busy'
  <2>1. Send(c, "revokeAll") /\ dialog /\ signingOut' = TRUE /\ dialog' = FALSE
    BY <1>4 DEF HandleSignOutOthers
  <2>2. \A b \in Calls : ~SigningOut(b)
    BY <2>1 DEF Busy, OneSignOut, DialogInv
  <2>3. \A b \in Calls : SigningOut(b)' <=> b = c
    BY <2>1, <2>2, SendCalls DEF SigningOut
  <2> QED
    BY <2>1, <2>3 DEF Busy, OneSignOut, DialogInv
<1>5. ASSUME NEW c \in Calls, Store(c) PROVE Busy'
  <2>1. \A b \in Calls : SigningOut(b)' <=> SigningOut(b)
    BY <1>5, StoreCalls DEF SigningOut
  <2>2. UNCHANGED <<signingOut, dialog>>
    BY <1>5 DEF Store, Serve, Fail
  <2> QED
    BY <2>1, <2>2 DEF Busy, OneSignOut, DialogInv
<1>6. ASSUME NEW c \in Calls, Out(c), Finish(c) PROVE Busy'
  <2>1. \A b \in Calls : SigningOut(b)' <=> (SigningOut(b) /\ b # c)
    BY <1>6, FinishCalls DEF SigningOut
  <2>2. signingOut' <=> (signingOut /\ ~SigningOut(c))
    BY <1>6 DEF Finish, SigningOut
  <2>3. dialog' = dialog
    BY <1>6 DEF Finish
  <2> QED
    BY <2>1, <2>2, <2>3 DEF Busy, OneSignOut, DialogInv
<1>7. ASSUME NEW c \in Calls, OthersSignedOut(c) PROVE Busy'
  <2>1. \A b \in Calls : SigningOut(b)' <=> SigningOut(b)
    BY <1>7 DEF OthersSignedOut, SigningOut, Out, TypeOK
  <2> QED
    BY <1>7, <2>1 DEF OthersSignedOut, Busy, OneSignOut, DialogInv
<1>8. CASE UNCHANGED vars
  BY <1>8, CallsStill DEF vars, Busy, OneSignOut, DialogInv
<1>9. ASSUME NEW c \in Calls, User(c) PROVE Busy'
  BY <1>9, <1>3, <1>4 DEF User, Retry, Alert, HandleRevoke, Load
<1>10. ASSUME NEW c \in Calls, Answer(c) PROVE Busy'
  BY <1>10, <1>6, <1>7 DEF Answer, Listed, ListFails, RevokeDone, RevokeFails, SignOutFails, Out
<1> QED
  BY <1>1, <1>2, <1>5, <1>8, <1>9, <1>10 DEF Next

(* While the skeleton shows, a list is out.                                *)
LEMMA SkeletonNext == TypeOK /\ SkeletonHasLoad /\ [Next]_vars => SkeletonHasLoad'
<1> SUFFICES ASSUME TypeOK, SkeletonHasLoad, [Next]_vars PROVE SkeletonHasLoad'
  OBVIOUS
<1> USE DEF storeVars, viewVars, callVars, factVars, Lists
<1>1. CASE UNCHANGED <<op, phase, view>>
  BY <1>1, CallsStill DEF SkeletonHasLoad
<1>2. ASSUME NEW c \in Calls, NEW what, Send(c, what), what = "list" \/ UNCHANGED view
      PROVE  SkeletonHasLoad'
  BY <1>2, SendCalls DEF SkeletonHasLoad
<1>3. ASSUME NEW c \in Calls, Store(c) PROVE SkeletonHasLoad'
  <2>1. UNCHANGED view
    BY <1>3 DEF Store, Serve, Fail
  <2> QED
    BY <1>3, <2>1, StoreCalls DEF SkeletonHasLoad
<1>4. ASSUME NEW c \in Calls, Finish(c), view' # "loading" \/ (view' = view /\ op[c] \notin Lists)
      PROVE  SkeletonHasLoad'
  BY <1>4, FinishCalls DEF SkeletonHasLoad
<1>5. ASSUME NEW c \in Calls, OthersSignedOut(c) PROVE SkeletonHasLoad'
  <2>1. Out(c)' /\ op'[c] = "relist"
    BY <1>5 DEF OthersSignedOut, Out, TypeOK
  <2> QED
    BY <2>1 DEF SkeletonHasLoad
<1>6. ASSUME NEW c \in Calls, User(c) PROVE SkeletonHasLoad'
  BY <1>6, <1>2 DEF User, Retry, Alert, HandleRevoke, HandleSignOutOthers, Load
<1>7. ASSUME NEW c \in Calls, Answer(c) PROVE SkeletonHasLoad'
  BY <1>7, <1>4, <1>5 DEF Answer, Listed, ListFails, RevokeDone, RevokeFails, SignOutFails
<1> QED
  BY <1>1, <1>3, <1>6, <1>7 DEF Next, SignIn, EndsElsewhere, OpenDialog, CancelDialog, vars

(* A revoke that is out keeps its device, and the disabled button is one's.*)
LEMMA RevokingNext ==
  TypeOK /\ TargetInv /\ RevokingIsOut /\ [Next]_vars => TargetInv' /\ RevokingIsOut'
<1> SUFFICES ASSUME TypeOK, TargetInv, RevokingIsOut, [Next]_vars PROVE TargetInv' /\ RevokingIsOut'
  OBVIOUS
<1> USE DEF storeVars, viewVars, callVars, factVars, Revoking
<1>1. CASE UNCHANGED <<op, phase, target, revokingId>>
  BY <1>1, CallsStill DEF TargetInv, RevokingIsOut
<1>2. ASSUME NEW c \in Calls, NEW what \in {"list", "revokeAll"}, Send(c, what), UNCHANGED <<target, revokingId>>
      PROVE  TargetInv' /\ RevokingIsOut'
  BY <1>2, SendCalls DEF TargetInv, RevokingIsOut
<1>3. ASSUME NEW c \in Calls, NEW d \in Devices, HandleRevoke(c, d) PROVE TargetInv' /\ RevokingIsOut'
  <2>1. Send(c, "revoke") /\ target' = [target EXCEPT ![c] = d] /\ revokingId' = d
    BY <1>3 DEF HandleRevoke
  <2>2. target'[c] = d /\ \A b \in Calls : b # c => target'[b] = target[b]
    BY <2>1 DEF TypeOK
  <2> QED
    BY <2>1, <2>2, SendCalls DEF TargetInv, RevokingIsOut
<1>4. ASSUME NEW c \in Calls, Store(c) PROVE TargetInv' /\ RevokingIsOut'
  <2>1. UNCHANGED revokingId
    BY <1>4 DEF Store, Serve, Fail
  <2> QED
    BY <1>4, <2>1, StoreCalls DEF TargetInv, RevokingIsOut
<1>5. ASSUME NEW c \in Calls, Finish(c), revokingId' = NoDevice \/ (op[c] # "revoke" /\ UNCHANGED revokingId)
      PROVE  TargetInv' /\ RevokingIsOut'
  BY <1>5, FinishCalls DEF TargetInv, RevokingIsOut
<1>6. ASSUME NEW c \in Calls, OthersSignedOut(c) PROVE TargetInv' /\ RevokingIsOut'
  <2>1. /\ op[c] # "revoke" /\ op'[c] # "revoke" /\ UNCHANGED <<target, revokingId>>
        /\ \A b \in Calls : b # c => (Out(b)' <=> Out(b)) /\ op'[b] = op[b]
    BY <1>6 DEF OthersSignedOut, Out, TypeOK
  <2> QED
    BY <2>1 DEF TargetInv, RevokingIsOut
<1>7. ASSUME NEW c \in Calls, User(c) PROVE TargetInv' /\ RevokingIsOut'
  BY <1>7, <1>2, <1>3 DEF User, Retry, Alert, HandleSignOutOthers, Load
<1>8. ASSUME NEW c \in Calls, Answer(c) PROVE TargetInv' /\ RevokingIsOut'
  BY <1>8, <1>5, <1>6 DEF Answer, Listed, ListFails, RevokeDone, RevokeFails, SignOutFails, Lists
<1> QED
  BY <1>1, <1>4, <1>7, <1>8 DEF Next, SignIn, EndsElsewhere, OpenDialog, CancelDialog, vars

-----------------------------------------------------------------------------
(* A session that existed has existed ever since, and only a sign-in makes *)
(* one active.                                                             *)
LEMMA StoreGrows ==
  ASSUME TypeOK, [Next]_vars
  PROVE  /\ Known \subseteq Known'
         /\ Active' \cap Known \subseteq Active
<1> USE DEF storeVars, viewVars, callVars, factVars, Known, Active
<1>1. CASE UNCHANGED session
  BY <1>1
<1>2. ASSUME NEW d \in Devices, SignIn(d) \/ EndsElsewhere(d)
      PROVE  Known \subseteq Known' /\ Active' \cap Known \subseteq Active
  BY <1>2 DEF SignIn, EndsElsewhere, TypeOK
<1>3. ASSUME NEW c \in Calls, Effect(c)
      PROVE  Known \subseteq Known' /\ Active' \cap Known \subseteq Active
  BY <1>3 DEF Effect
<1>4. ASSUME NEW c \in Calls, Store(c)
      PROVE  Known \subseteq Known' /\ Active' \cap Known \subseteq Active
  BY <1>4, <1>1, <1>3 DEF Store, Serve, Fail
<1>5. ASSUME NEW c \in Calls, User(c) \/ Answer(c) PROVE UNCHANGED session
  BY <1>5 DEF User, Retry, Alert, HandleRevoke, HandleSignOutOthers, Answer, Listed, ListFails,
              RevokeDone, RevokeFails, OthersSignedOut, SignOutFails, Finish
<1> QED
  BY <1>1, <1>2, <1>4, <1>5 DEF Next, OpenDialog, CancelDialog, vars

(* A served revoke leaves its session inactive.                            *)
LEMMA RevokeEnds ==
  ASSUME TypeOK, NEW c \in Calls, Effect(c), op[c] = "revoke"
  PROVE  target[c] \notin Active'
  BY DEF Effect, Revoked, Active

(* Sessions the page has, is getting or revoking have existed, and those   *)
(* whose revocation was served are not active.                             *)
LEMMA KnownNext == TypeOK /\ TargetInv /\ KnownInv /\ [Next]_vars => KnownInv'
<1> SUFFICES ASSUME TypeOK, TargetInv, KnownInv, [Next]_vars PROVE KnownInv'
  OBVIOUS
<1> USE DEF storeVars, viewVars, callVars, factVars, Revoking
<1>1. Known \subseteq Known' /\ Active' \cap Known \subseteq Active
  BY StoreGrows
<1>2. CASE UNCHANGED <<alerts, alerted, shown, told, callVars>>
  BY <1>1, <1>2, CallsStill DEF KnownInv
<1>3. ASSUME NEW d \in Devices, SignIn(d) PROVE KnownInv'
  <2>1. d \in Known'
    BY <1>3 DEF SignIn, Known, TypeOK
  <2> QED
    BY <1>1, <1>3, <2>1, CallsStill DEF SignIn, KnownInv
<1>4. ASSUME NEW c \in Calls, NEW what \in {"list", "revokeAll"}, Send(c, what),
             UNCHANGED <<target, previous, answer, told>>,
             alerts' \cup alerted' \cup shown' \subseteq alerts \cup alerted \cup shown
      PROVE  KnownInv'
  <2>1. \A b \in Calls : Revoking(b)' => Revoking(b) /\ phase'[b] = phase[b]
    BY <1>4, SendCalls
  <2> QED
    BY <1>1, <1>4, <2>1 DEF KnownInv
<1>5. ASSUME NEW c \in Calls, NEW d \in Devices, HandleRevoke(c, d) PROVE KnownInv'
  <2>1. /\ Send(c, "revoke") /\ target'[c] = d /\ previous'[c] = shown /\ d \in shown
        /\ \A b \in Calls : b # c => target'[b] = target[b] /\ previous'[b] = previous[b]
        /\ UNCHANGED <<alerts, alerted, told, answer>> /\ shown' \subseteq shown
    BY <1>5 DEF HandleRevoke, Send, TypeOK
  <2>2. /\ phase'[c] = "sent"
        /\ \A b \in Calls : b # c => (Revoking(b)' <=> Revoking(b)) /\ phase'[b] = phase[b]
    BY <2>1, SendCalls
  <2>3. alerts' \cup alerted' \cup shown' \subseteq Known'
    BY <1>1, <2>1 DEF KnownInv
  <2>4. \A b \in Calls : answer'[b] \cup previous'[b] \subseteq Known'
    BY <1>1, <2>1 DEF KnownInv
  <2>5. \A b \in Calls : Revoking(b)' => target'[b] \in Known'
    BY <1>1, <2>1, <2>2 DEF KnownInv
  <2>6. \A b \in Calls : Revoking(b)' /\ phase'[b] = "ok" => target'[b] \notin Active'
    BY <1>1, <2>1, <2>2 DEF KnownInv
  <2>7. told' \subseteq Known' \ Active'
    BY <1>1, <2>1 DEF KnownInv
  <2> QED
    BY <2>3, <2>4, <2>5, <2>6, <2>7 DEF KnownInv
<1>6. ASSUME NEW c \in Calls, Serve(c) PROVE KnownInv'
  <2>1. UNCHANGED <<alerts, alerted, shown, told, op, target, previous>> /\ Effect(c)
    BY <1>6 DEF Serve
  <2>2. Active \subseteq Known
    BY DEF Active, Known
  <2>3. \A b \in Calls : answer'[b] \subseteq answer[b] \cup Active
    BY <1>6 DEF Serve, TypeOK
  <2>4. \A b \in Calls : (Revoking(b)' <=> Revoking(b)) /\ (b # c => phase'[b] = phase[b])
    BY <1>6, StoreCalls DEF Store
  <2>5. op[c] = "revoke" => target[c] \notin Active'
    BY <2>1, RevokeEnds
  <2>6. \A b \in Calls : Revoking(b)' /\ phase'[b] = "ok" => target'[b] \notin Active'
    BY <1>1, <2>1, <2>4, <2>5 DEF KnownInv
  <2>7. \A b \in Calls : answer'[b] \cup previous'[b] \subseteq Known'
    BY <1>1, <2>1, <2>2, <2>3 DEF KnownInv
  <2> QED
    BY <1>1, <2>1, <2>4, <2>6, <2>7 DEF KnownInv
<1>7. ASSUME NEW c \in Calls, Fail(c) PROVE KnownInv'
  <2>1. UNCHANGED <<alerts, alerted, shown, told, op, target, previous, answer>>
    BY <1>7 DEF Fail
  <2>2. phase'[c] = "failed"
    BY <1>7 DEF Fail, TypeOK
  <2>3. \A b \in Calls : (Revoking(b)' <=> Revoking(b)) /\ (b # c => phase'[b] = phase[b])
    BY <1>7, StoreCalls DEF Store
  <2> QED
    BY <1>1, <2>1, <2>2, <2>3 DEF KnownInv
<1>8. ASSUME NEW c \in Calls, Finish(c), shown' \subseteq Known, told' \subseteq Known \ Active,
             UNCHANGED session
      PROVE  KnownInv'
  <2>1. UNCHANGED <<alerts, alerted>> /\ answer'[c] = {} /\ previous'[c] = {}
    BY <1>8 DEF Finish, TypeOK
  <2>2. Known' = Known /\ Active' = Active
    BY <1>8 DEF Known, Active
  <2>3. \A b \in Calls : Revoking(b)' => b # c /\ Revoking(b)
    BY <1>8, FinishCalls
  <2> QED
    BY <1>8, <2>1, <2>2, <2>3, FinishCalls DEF KnownInv
<1>9. ASSUME NEW c \in Calls, OthersSignedOut(c) PROVE KnownInv'
  <2>1. /\ UNCHANGED <<alerts, alerted, told, target, previous, answer>> /\ shown' = {}
        /\ \A b \in Calls : Revoking(b)' => Revoking(b) /\ phase'[b] = phase[b]
    BY <1>9 DEF OthersSignedOut, Out, TypeOK
  <2> QED
    BY <1>1, <2>1 DEF KnownInv
<1>10. ASSUME NEW c \in Calls, User(c) PROVE KnownInv'
  <2>1. CASE Retry(c)
    BY <2>1, <1>4 DEF Retry, Load, Send
  <2>2. ASSUME NEW d \in Devices, Alert(c, d) PROVE KnownInv'
    BY <2>2, <1>4 DEF Alert, Load, Send
  <2>3. CASE HandleSignOutOthers(c)
    BY <2>3, <1>4 DEF HandleSignOutOthers, Send
  <2> QED
    BY <1>10, <1>5, <2>1, <2>2, <2>3 DEF User
<1>11. ASSUME NEW c \in Calls, Answer(c) PROVE KnownInv'
  <2>1. CASE Listed(c)
    BY <2>1, <1>8 DEF Listed, Finish, KnownInv
  <2>2. CASE ListFails(c)
    BY <2>2, <1>8 DEF ListFails, Finish, KnownInv
  <2>3. CASE RevokeDone(c)
    BY <2>3, <1>8 DEF RevokeDone, Finish, KnownInv, Out
  <2>4. CASE RevokeFails(c)
    BY <2>4, <1>8 DEF RevokeFails, Finish, KnownInv
  <2>5. CASE SignOutFails(c)
    BY <2>5, <1>8 DEF SignOutFails, Finish, KnownInv
  <2> QED
    BY <1>11, <1>9, <2>1, <2>2, <2>3, <2>4, <2>5 DEF Answer
<1> QED
  BY <1>2, <1>3, <1>6, <1>7, <1>10, <1>11 DEF Next, Store, EndsElsewhere, OpenDialog, CancelDialog, vars

-----------------------------------------------------------------------------
(* A true list stays true while nothing is alerted or confirmed.           *)
LEMMA TrueStays ==
  ASSUME TypeOK, KnownInv, [Next]_vars, UNCHANGED <<alerted, told>>, NEW list, True(list)
  PROVE  True(list)'
<1>1. alerted \cap Active' \subseteq alerted \cap Active
  BY StoreGrows DEF KnownInv
<1> QED
  BY <1>1 DEF True

(* With no two calls out at once, lists stay true.                         *)
LEMMA UndisturbedNext ==
  TypeOK /\ TargetInv /\ KnownInv /\ UndisturbedInv /\ [Next]_vars => UndisturbedInv'
<1> SUFFICES ASSUME TypeOK, TargetInv, KnownInv, UndisturbedInv, [Next]_vars, ~overlapped'
             PROVE  UndisturbedInv'
  BY DEF UndisturbedInv
<1> USE DEF storeVars, viewVars, callVars, factVars, Lists, Revoking
<1>1. CASE UNCHANGED <<view, shown, callVars, factVars>>
  <2>1. \A list : True(list) => True(list)'
    BY <1>1, TrueStays
  <2> QED
    BY <1>1, <2>1, CallsStill DEF UndisturbedInv
<1>2. ASSUME NEW c \in Calls, NEW what, Send(c, what)
      PROVE  /\ ~overlapped /\ \A b \in Calls : ~Out(b)
             /\ \A b \in Calls : Out(b)' <=> b = c
  BY <1>2, SendCalls DEF Send
<1>3. ASSUME NEW c \in Calls, Load(c) PROVE UndisturbedInv'
  <2>1. Send(c, "list") /\ view' = "loading"
    BY <1>3 DEF Load
  <2>2. op'[c] = "list" /\ phase'[c] = "sent"
    BY <2>1, SendCalls
  <2>3. \A b \in Calls : phase'[b] = "ok" => Out(b)'
    BY DEF Out
  <2> QED
    BY <1>2, <2>1, <2>2, <2>3 DEF UndisturbedInv
<1>4. ASSUME NEW c \in Calls, HandleSignOutOthers(c) PROVE UndisturbedInv'
  <2>1. Send(c, "revokeAll") /\ UNCHANGED <<view, shown, alerted, told>>
    BY <1>4 DEF HandleSignOutOthers
  <2>2. op'[c] = "revokeAll" /\ phase'[c] = "sent"
    BY <2>1, SendCalls
  <2>3. \A b \in Calls : phase'[b] = "ok" => Out(b)'
    BY DEF Out
  <2>4. view = "ready" => True(shown)'
    BY <1>2, <2>1, TrueStays DEF UndisturbedInv
  <2>5. view' = "ready" => True(shown)'
    BY <2>1, <2>4
  <2>6. shown' = shown
    BY <2>1
  <2>7. view' = "ready" => (True(shown))'
    BY <2>5, <2>6 DEF True
  <2> QED
    BY <1>2, <2>1, <2>2, <2>3, <2>7 DEF UndisturbedInv
<1>5. ASSUME NEW c \in Calls, NEW d \in Devices, HandleRevoke(c, d) PROVE UndisturbedInv'
  <2>1. /\ Send(c, "revoke") /\ view = "ready" /\ UNCHANGED <<view, alerted, told>>
        /\ target'[c] = d /\ previous'[c] = shown /\ shown' = shown \ {d}
    BY <1>5 DEF HandleRevoke, TypeOK
  <2>2. op'[c] = "revoke" /\ phase'[c] = "sent"
    BY <2>1, SendCalls
  <2>3. \A b \in Calls : phase'[b] = "ok" => Out(b)'
    BY DEF Out
  <2>4. alerted \cap Active \subseteq shown /\ shown \cap told = {}
    BY <1>2, <2>1 DEF UndisturbedInv, True
  <2>5. alerted' \cap Active' \subseteq shown /\ shown \cap told' = {}
    BY <2>1, <2>4, StoreGrows DEF KnownInv
  <2>6. (True(previous[c]))'
    BY <2>1, <2>5 DEF True
  <2> QED
    BY <1>2, <2>1, <2>2, <2>3, <2>6 DEF UndisturbedInv
<1>6. ASSUME NEW c \in Calls, Store(c) PROVE UndisturbedInv'
  <2>1. /\ UNCHANGED <<view, shown, factVars, op, target, previous>> /\ ~overlapped
        /\ \A b \in Calls : Out(b)' <=> Out(b)
    BY <1>6, StoreCalls DEF Store, Serve, Fail
  <2>2. \A list : True(list) => True(list)'
    BY <2>1, TrueStays
  <2>3. \A b, e \in Calls : (Out(b)' /\ Out(e)') => b = e
    BY <2>1 DEF UndisturbedInv
  <2>4. (view' = "ready" /\ \A b \in Calls : ~Revoking(b)') => (True(shown))'
    <3>1. (view = "ready" /\ \A b \in Calls : ~Revoking(b)) => True(shown)'
      BY <2>1, <2>2 DEF UndisturbedInv
    <3> QED
      BY <2>1, <3>1 DEF True
  <2>5. \A b \in Calls : Revoking(b)' =>
          view' = "ready" /\ (True(previous[b]))' /\ shown' = previous'[b] \ {target'[b]}
    <3> SUFFICES ASSUME NEW b \in Calls, Revoking(b)'
                 PROVE  view' = "ready" /\ (True(previous[b]))' /\ shown' = previous'[b] \ {target'[b]}
      OBVIOUS
    <3>1. Revoking(b)
      BY <2>1
    <3>2. view = "ready" /\ True(previous[b]) /\ shown = previous[b] \ {target[b]}
      BY <2>1, <3>1 DEF UndisturbedInv
    <3>3. alerted' \cap Active' \subseteq alerted \cap Active
      BY <2>1, StoreGrows DEF KnownInv
    <3>4. (True(previous[b]))'
      BY <2>1, <3>2, <3>3 DEF True
    <3> QED
      BY <2>1, <3>2, <3>4
  <2>6. ASSUME NEW b \in Calls, op'[b] \in Lists, phase'[b] = "ok" PROVE (True(answer[b]))'
    <3>1. Out(b) /\ b = c
      BY <1>6, <2>1, <2>6, StoreCalls DEF Out, UndisturbedInv
    <3>2. Serve(c)
      BY <1>6, <2>6, <3>1 DEF Store, Fail, TypeOK
    <3>3. answer'[b] = Active
      BY <2>1, <2>6, <3>1, <3>2 DEF Serve, TypeOK
    <3>4. Active' \subseteq Active
      BY <3>2 DEF Serve, Effect, Active
    <3>5. Active \cap told = {}
      BY DEF KnownInv
    <3> QED
      BY <2>1, <3>3, <3>4, <3>5 DEF True
  <2> QED
    BY <2>3, <2>4, <2>5, <2>6 DEF UndisturbedInv
<1>7. ASSUME NEW c \in Calls, Out(c), Finish(c), view' = "ready" => (True(shown))' PROVE UndisturbedInv'
  <2>1. ~overlapped
    BY <1>7 DEF Finish
  <2>2. \A b \in Calls : ~Out(b)'
    BY <1>7, <2>1, FinishCalls DEF UndisturbedInv
  <2>3. \A b \in Calls : phase'[b] = "ok" => Out(b)'
    BY DEF Out
  <2> QED
    BY <1>7, <2>2, <2>3 DEF UndisturbedInv
<1>8. ASSUME NEW c \in Calls, Listed(c) PROVE UndisturbedInv'
  <2>1. ~overlapped /\ UNCHANGED <<alerted, told, session>> /\ shown' = answer[c]
    BY <1>8 DEF Listed, Finish
  <2>2. True(answer[c])
    BY <1>8, <2>1 DEF Listed, UndisturbedInv
  <2>3. (True(shown))'
    BY <2>1, <2>2 DEF True, Active
  <2> QED
    BY <1>7, <1>8, <2>3 DEF Listed, Out
<1>9. ASSUME NEW c \in Calls, ListFails(c) PROVE UndisturbedInv'
  BY <1>7, <1>9 DEF ListFails, Out
<1>10. ASSUME NEW c \in Calls, RevokeDone(c) PROVE UndisturbedInv'
  <2>1. /\ ~overlapped /\ UNCHANGED <<alerted, session, shown>> /\ told' = told \cup {target[c]}
        /\ Revoking(c) /\ phase[c] = "ok"
    BY <1>10 DEF RevokeDone, Finish, Out
  <2>2. True(previous[c]) /\ shown = previous[c] \ {target[c]}
    BY <2>1 DEF UndisturbedInv
  <2>3. target[c] \notin Active
    BY <2>1 DEF KnownInv
  <2>4. (True(shown))'
    BY <2>1, <2>2, <2>3 DEF True, Active
  <2> QED
    BY <1>7, <1>10, <2>4 DEF RevokeDone, Out
<1>11. ASSUME NEW c \in Calls, RevokeFails(c) PROVE UndisturbedInv'
  <2>1. ~overlapped /\ UNCHANGED <<alerted, session, told>> /\ shown' = previous[c] /\ Revoking(c)
    BY <1>11 DEF RevokeFails, Finish, Out
  <2>2. True(previous[c])
    BY <2>1 DEF UndisturbedInv
  <2>3. (True(shown))'
    BY <2>1, <2>2 DEF True, Active
  <2> QED
    BY <1>7, <1>11, <2>3 DEF RevokeFails, Out
<1>12. ASSUME NEW c \in Calls, SignOutFails(c) PROVE UndisturbedInv'
  <2>1. ~overlapped /\ UNCHANGED <<alerted, session, told, shown, view>> /\ Out(c) /\ op[c] = "revokeAll"
    BY <1>12 DEF SignOutFails, Finish, Out
  <2>2. \A b \in Calls : ~Revoking(b)
    BY <2>1 DEF UndisturbedInv
  <2>3. view = "ready" => True(shown)
    BY <2>1, <2>2 DEF UndisturbedInv
  <2>4. view' = "ready" => (True(shown))'
    BY <2>1, <2>3 DEF True, Active
  <2> QED
    BY <1>7, <1>12, <2>1, <2>4 DEF SignOutFails
<1>13. ASSUME NEW c \in Calls, OthersSignedOut(c) PROVE UndisturbedInv'
  <2>1. /\ ~overlapped /\ view' = "loading" /\ Out(c) /\ op'[c] = "relist" /\ phase'[c] = "sent"
        /\ \A b \in Calls : b # c => op'[b] = op[b] /\ phase'[b] = phase[b]
    BY <1>13 DEF OthersSignedOut, Out, TypeOK
  <2>2. \A b \in Calls : b # c => ~Out(b)
    BY <2>1 DEF UndisturbedInv
  <2>3. \A b \in Calls : b # c => ~Out(b)' /\ phase'[b] # "ok"
    BY <2>1, <2>2 DEF Out
  <2> QED
    BY <2>1, <2>3 DEF UndisturbedInv
<1>14. ASSUME NEW c \in Calls, User(c) PROVE UndisturbedInv'
  BY <1>14, <1>3, <1>4, <1>5 DEF User, Retry, Alert
<1>15. ASSUME NEW c \in Calls, Answer(c) PROVE UndisturbedInv'
  BY <1>15, <1>8, <1>9, <1>10, <1>11, <1>12, <1>13 DEF Answer
<1> QED
  BY <1>1, <1>6, <1>14, <1>15 DEF Next, SignIn, EndsElsewhere, OpenDialog, CancelDialog, vars

-----------------------------------------------------------------------------
(* The page loads its first list in IndInv.                                *)
LEMMA InvInit == Init => IndInv
<1> SUFFICES ASSUME Init PROVE IndInv
  OBVIOUS
<1>1. TypeOK
  BY TypeInit
<1>2. 1 \in Calls
  BY MaxCallsAssumption DEF Calls
<1>3. op[1] = "list" /\ phase[1] = "sent" /\ \A c \in Calls : c # 1 => phase[c] = "idle"
  BY <1>2 DEF Init
<1>4. OneSignOut /\ DialogInv
  BY <1>3 DEF Init, OneSignOut, DialogInv, SigningOut, Out
<1>5. SkeletonHasLoad
  BY <1>2, <1>3 DEF SkeletonHasLoad, Out, Lists
<1>6. TargetInv /\ RevokingIsOut
  BY <1>3 DEF Init, TargetInv, RevokingIsOut, Revoking, Out
<1>7. KnownInv
  BY <1>3 DEF Init, KnownInv, Revoking, Out
<1>8. UndisturbedInv
  BY <1>3 DEF Init, UndisturbedInv, Revoking, Out, Lists
<1> QED
  BY <1>1, <1>4, <1>5, <1>6, <1>7, <1>8 DEF IndInv

(* The requests, the buttons and the lists stay consistent: IndInv holds   *)
(* in every reachable state, for every number of devices and requests.     *)
THEOREM PageInductive == Spec => []IndInv
<1>1. IndInv /\ [Next]_vars => IndInv'
  BY TypeNext, BusyNext, SkeletonNext, RevokingNext, KnownNext, UndisturbedNext DEF IndInv, Busy
<1> QED
  BY <1>1, InvInit, PTL DEF Spec

(* Every variable keeps its type.                                          *)
THEOREM PageTypeCorrect == Spec => []TypeOK
<1>1. IndInv => TypeOK
  BY DEF IndInv
<1> QED
  BY <1>1, PageInductive, PTL

(* handleSignOutOthers runs once at a time and its finally frees exactly   *)
(* its own button.                                                         *)
THEOREM SignOutIsExclusive == Spec => []OneSignOut
<1>1. IndInv => OneSignOut
  BY DEF IndInv
<1> QED
  BY <1>1, PageInductive, PTL

(* handleRevoke's finally: no row's button is disabled without a revoke.   *)
THEOREM DisabledRowIsRevoking == Spec => []RevokingIsOut
<1>1. IndInv => RevokingIsOut
  BY DEF IndInv
<1> QED
  BY <1>1, PageInductive, PTL

(* load(): the skeleton never shows without a list that will replace it.   *)
THEOREM SkeletonIsLoading == Spec => []SkeletonHasLoad
<1>1. IndInv => SkeletonHasLoad
  BY DEF IndInv
<1> QED
  BY <1>1, PageInductive, PTL

(* Without overlapping requests a page at rest lists what it was alerted   *)
(* to and nothing it was told is revoked, whichever requests failed.       *)
THEOREM UndisturbedIsTrue == Spec => []UndisturbedPageIsTrue
<1>1. IndInv => UndisturbedPageIsTrue
  BY DEF IndInv, UndisturbedInv, UndisturbedPageIsTrue, Quiet, Revoking, True
<1> QED
  BY <1>1, PageInductive, PTL
=============================================================================
