-------------------------- MODULE AuthTokensProofs --------------------------
(***************************************************************************)
(* Proofs about AuthTokens, for any pairs, requests and lifetimes: what a  *)
(* change of the password has revoked is not refreshed, the lock on codes  *)
(* ends, in a session one token works, and every variable keeps its type.  *)
(*                                                                         *)
(* The reason for the first has two halves, which IInv keeps together:     *)
(* either revoke_before is still in Redis and the check finds the token    *)
(* older, or its lifetime is over and then so is that of every token it is *)
(* about.  LockInv and SInv, which add to it, are explained below.         *)
(***************************************************************************)
EXTENDS AuthTokens, FiniteSetTheorems, TLAPS

Req == [op : {"none", "register", "login", "google", "refresh", "logout", "change", "reset"},
        step : {"idle", "store", "unregister", "revoked", "active", "blacklist", "retire",
                "rollback", "deny", "logout", "deactivate", "code", "penalty", "spend",
                "update", "revoke"},
        old : Pairs \cup {None}, new : Pairs \cup {None},
        since : Nat \cup {None}, created : BOOLEAN]

Shape ==
    /\ req \in [Requests -> Req]
    /\ issued \in [Pairs -> Nat \cup {None}]
    /\ life \in [Pairs -> Nat] /\ \A t \in Pairs : life[t] <= LongLife
    /\ clock \in Nat /\ changedAt \in Nat \cup {None}

(* What a change of the password leaves in Redis.                          *)
RevocationOK ==
    changedAt # None =>
        /\ changedAt <= clock /\ revokeBefore # None
        /\ revokeBefore = [at |-> changedAt, until |-> changedAt + LongLife]

(* Where a refresh is, and what it has been checked for.                   *)
Passed == {"store", "blacklist", "retire"}
RefreshOK(r) ==
    req[r].op = "refresh" =>
        /\ req[r].old \in Pairs /\ issued[req[r].old] # None
        /\ req[r].since # None =>
            /\ changedAt # None /\ req[r].since <= changedAt
            /\ req[r].step = "active" =>
                  issued[req[r].old] >= req[r].since \/ ~Verified(req[r].old)
            /\ req[r].step \in Passed => issued[req[r].old] >= req[r].since

(* Only a refresh checks, and only some requests end in a new pair.        *)
Enterer(h) ==
    /\ h.step \in {"revoked", "active"} => h.op = "refresh"
    /\ h.step = "store" => h.op \in {"refresh", "register", "login", "google"}

IInv ==
    /\ Shape /\ RevocationOK
    /\ \A r \in Requests : RefreshOK(r) /\ Enterer(req[r])

Lives == LifeAssumption /\ NoneAssumption

-----------------------------------------------------------------------------

LEMMA IdleIsReq == Idle \in Req /\ Idle.op = "none" /\ Enterer(Idle)
  BY DEF Idle, Req, Enterer

LEMMA InitOK == ASSUME Lives PROVE Init => IInv
  <1> SUFFICES ASSUME Init PROVE IInv
    OBVIOUS
  <1>1. Shape
    BY IdleIsReq DEF Init, Shape, Lives, LifeAssumption, NoneAssumption
  <1>2. \A r \in Requests : req[r].op = "none" /\ Enterer(req[r])
    BY IdleIsReq DEF Init
  <1> QED
    BY <1>1, <1>2 DEF Init, IInv, RevocationOK, RefreshOK

(* One request moves, and what it is checked against stays.                *)
LEMMA OneMoves ==
  ASSUME IInv, NEW r \in Requests, NEW h \in Req, req' = [req EXCEPT ![r] = h],
         UNCHANGED <<claims, revokeBefore, clock, changedAt>>,
         h.op = "refresh" =>
             /\ req[r].op = "refresh" /\ h.old = req[r].old /\ h.since = req[r].since
             /\ h.step \in Passed \cup {"active"} => h.step = req[r].step
                                              \/ {h.step, req[r].step} \subseteq Passed,
         Enterer(h)
  PROVE  IInv'
  <1>1. UNCHANGED <<issued, life>>
    BY DEF claims
  <1>2. /\ req' \in [Requests -> Req] /\ req'[r] = h
        /\ \A q \in Requests \ {r} : req'[q] = req[q]
    BY DEF IInv, Shape
  <1>3. Shape' /\ RevocationOK'
    BY <1>1, <1>2 DEF IInv, Shape, RevocationOK
  <1>4. RefreshOK(r)' /\ Enterer(req[r])'
    <2>1. RefreshOK(r)
      BY DEF IInv
    <2> QED
      BY <1>1, <1>2, <2>1 DEF RefreshOK, Verified, Expires, Passed, Enterer
  <1>5. ASSUME NEW q \in Requests \ {r} PROVE RefreshOK(q)' /\ Enterer(req[q])'
    <2>1. RefreshOK(q) /\ Enterer(req[q])
      BY DEF IInv
    <2> QED
      BY <1>1, <1>2, <2>1 DEF RefreshOK, Verified, Expires, Enterer
  <1> QED
    BY <1>3, <1>4, <1>5 DEF IInv

LEMMA LeavesOK ==
  ASSUME IInv, NEW r \in Requests, Leaves(r),
         UNCHANGED <<claims, revokeBefore, clock, changedAt>>
  PROVE  IInv'
  BY IdleIsReq, OneMoves DEF Leaves

Step == {"idle", "store", "unregister", "revoked", "active", "blacklist", "retire",
         "rollback", "deny", "logout", "deactivate", "code", "penalty", "spend",
         "update", "revoke"}

LEMMA GoesOK ==
  ASSUME IInv, NEW r \in Requests, NEW s \in Step, Goes(r, s),
         UNCHANGED <<claims, revokeBefore, clock, changedAt>>,
         s \notin {"revoked", "active", "store"}, s \in Passed => req[r].step \in Passed
  PROVE  IInv'
  <1> DEFINE h == [req[r] EXCEPT !.step = s]
  <1>1. req[r] \in Req
    BY DEF IInv, Shape
  <1>2. h \in Req /\ h.step = s /\ h.op = req[r].op /\ h.old = req[r].old
        /\ h.since = req[r].since
    BY <1>1 DEF Req, Step
  <1>3. req' = [req EXCEPT ![r] = h]
    BY DEF Goes
  <1>4. Enterer(h)
    BY <1>2 DEF Enterer
  <1> HIDE DEF h
  <1> QED
    BY <1>2, <1>3, <1>4, OneMoves DEF Passed

(* A request begins that is not a refresh.                                 *)
LEMMA BeginsOK ==
  ASSUME IInv, NEW r \in Requests, NEW h \in Req, Begins(r, h), h.op # "refresh", Enterer(h),
         UNCHANGED <<claims, revokeBefore, clock, changedAt>>
  PROVE  IInv'
  BY OneMoves DEF Begins

LEMMA NobodyMoves ==
  ASSUME IInv, UNCHANGED <<req, claims, revokeBefore, clock, changedAt>>
  PROVE  IInv'
  BY DEF IInv, Shape, RevocationOK, RefreshOK, Enterer, Verified, Expires, claims

-----------------------------------------------------------------------------
(* Refresh.                                                                *)

(* The request remembers the last change of the password.                  *)
LEMMA RefreshBeginsOK ==
  ASSUME IInv, NEW r \in Requests, NEW t \in Pairs, RefreshBegins(r, t)
  PROVE  IInv'
  <1> DEFINE h == [Idle EXCEPT !.op = "refresh", !.step = "revoked",
                               !.old = t, !.since = changedAt]
  <1>1. UNCHANGED <<issued, life, revokeBefore, clock, changedAt>>
    BY DEF RefreshBegins, Crosses, store, claims, marks
  <1>2. h \in Req /\ h.op = "refresh" /\ h.step = "revoked" /\ h.old = t /\ h.since = changedAt
    BY DEF Idle, Req, IInv, Shape
  <1>3. req' = [req EXCEPT ![r] = h] /\ issued[t] # None
    BY DEF RefreshBegins, Begins, Verified
  <1> HIDE DEF h
  <1>4. /\ req' \in [Requests -> Req] /\ req'[r] = h
        /\ \A q \in Requests \ {r} : req'[q] = req[q]
    BY <1>2, <1>3 DEF IInv, Shape
  <1>5. Shape' /\ RevocationOK'
    BY <1>1, <1>4 DEF IInv, Shape, RevocationOK
  <1>6. RefreshOK(r)' /\ Enterer(req[r])'
    BY <1>1, <1>2, <1>3, <1>4 DEF RefreshOK, Passed, IInv, Shape, Enterer
  <1>7. ASSUME NEW q \in Requests \ {r} PROVE RefreshOK(q)' /\ Enterer(req[q])'
    BY <1>1, <1>4 DEF IInv, RefreshOK, Verified, Expires, Enterer
  <1> QED
    BY <1>5, <1>6, <1>7 DEF IInv

(* The step of a request is set to s, and this is right.                   *)
LEMMA StepIs ==
  ASSUME IInv, NEW r \in Requests, NEW s \in Step, Goes(r, s),
         UNCHANGED <<claims, revokeBefore, clock, changedAt>>,
         req[r].op = "refresh" /\ req[r].since # None =>
             /\ s = "active" => issued[req[r].old] >= req[r].since \/ ~Verified(req[r].old)
             /\ s \in Passed => issued[req[r].old] >= req[r].since,
         s \in {"active", "store"} => req[r].op = "refresh", s # "revoked"
  PROVE  IInv'
  <1>1. UNCHANGED <<issued, life>>
    BY DEF claims
  <1>2. /\ req' \in [Requests -> Req]
        /\ req'[r].step = s /\ req'[r].op = req[r].op /\ req'[r].old = req[r].old
        /\ req'[r].since = req[r].since
        /\ \A q \in Requests \ {r} : req'[q] = req[q]
    BY DEF Goes, IInv, Shape, Req, Step
  <1>3. Shape' /\ RevocationOK'
    BY <1>1, <1>2 DEF IInv, Shape, RevocationOK
  <1>4. RefreshOK(r)' /\ Enterer(req[r])'
    BY <1>1, <1>2 DEF IInv, RefreshOK, Verified, Expires, Enterer
  <1>5. ASSUME NEW q \in Requests \ {r} PROVE RefreshOK(q)' /\ Enterer(req[q])'
    BY <1>1, <1>2 DEF IInv, RefreshOK, Verified, Expires, Enterer
  <1> QED
    BY <1>3, <1>4, <1>5 DEF IInv

(* A token that was issued before a change whose mark has gone is over.    *)
LEMMA RevokedOrOver ==
  ASSUME Lives, Shape, RevocationOK, changedAt # None, NEW t \in Pairs, issued[t] # None,
         ~Revoked(t)
  PROVE  issued[t] >= changedAt \/ ~Verified(t)
  <1>1. /\ issued[t] \in Nat /\ life[t] \in Nat /\ life[t] <= LongLife
        /\ clock \in Nat /\ changedAt \in Nat /\ LongLife \in Nat
    BY DEF Shape, Lives, LifeAssumption, NoneAssumption
  <1>2. revokeBefore # None /\ revokeBefore = [at |-> changedAt, until |-> changedAt + LongLife]
    BY DEF RevocationOK
  <1>3. revokeBefore.at = changedAt /\ revokeBefore.until = changedAt + LongLife
    BY <1>2
  <1> QED
    BY <1>1, <1>2, <1>3 DEF Revoked, Verified, Expires

LEMMA CheckRevokedOK ==
  ASSUME Lives, IInv, NEW r \in Requests, CheckRevoked(r)
  PROVE  IInv'
  <1>1. UNCHANGED <<claims, revokeBefore, clock, changedAt>> /\ Shape /\ RevocationOK
    BY DEF CheckRevoked, store, marks, history, IInv
  <1>2. CASE Leaves(r)
    BY <1>1, <1>2, LeavesOK
  <1>3. CASE ~Revoked(req[r].old) /\ Goes(r, "active")
    <2>1. RefreshOK(r) /\ req[r] \in Req
      BY <1>1 DEF IInv, Shape
    <2>2. ASSUME req[r].op = "refresh", req[r].since # None
          PROVE  issued[req[r].old] >= req[r].since \/ ~Verified(req[r].old)
      <3>1. PICK t \in Pairs : req[r].old = t /\ issued[t] # None
        BY <2>1, <2>2 DEF RefreshOK
      <3>2. changedAt \in Nat /\ req[r].since \in Nat /\ req[r].since <= changedAt
        BY <1>1, <2>1, <2>2 DEF RefreshOK, Shape, Req
      <3>3. issued[t] \in Nat
        BY <1>1, <3>1 DEF Shape
      <3>4. issued[t] >= changedAt \/ ~Verified(t)
        BY <1>1, <1>3, <2>1, <2>2, <3>1, RevokedOrOver DEF RefreshOK
      <3> QED
        BY <3>1, <3>2, <3>3, <3>4
    <2>3. req[r].op = "refresh"
      BY DEF IInv, Enterer, CheckRevoked
    <2> QED
      BY <1>1, <1>3, <2>2, <2>3, StepIs DEF Step, Passed
  <1> QED
    BY <1>2, <1>3 DEF CheckRevoked

LEMMA CheckActiveOK ==
  ASSUME IInv, NEW r \in Requests, CheckActive(r)
  PROVE  IInv'
  <1>1. UNCHANGED <<claims, revokeBefore, clock, changedAt>>
    BY DEF CheckActive, store, marks, history
  <1>2. CASE Leaves(r)
    BY <1>1, <1>2, LeavesOK
  <1>3. CASE Verified(req[r].old) /\ Goes(r, "store")
    <2>1. RefreshOK(r) /\ req[r].step = "active" /\ req[r].op = "refresh"
      BY DEF IInv, CheckActive, Enterer
    <2> QED
      BY <1>1, <1>3, <2>1, StepIs DEF Step, Passed, RefreshOK
  <1> QED
    BY <1>2, <1>3 DEF CheckActive

(* A new token is not one that a refresh is about.                         *)
LEMMA StoreTokenOK ==
  ASSUME Lives, IInv, NEW r \in Requests, NEW t \in Pairs, StoreToken(r, t)
  PROVE  IInv'
  <1>1. /\ issued[t] = None /\ issued' = [issued EXCEPT ![t] = clock]
        /\ UNCHANGED <<clock, revokeBefore, changedAt>>
    BY DEF StoreToken
  <1>2. PICK l \in LivesFor(r) : life' = [life EXCEPT ![t] = l]
    BY DEF StoreToken
  <1>3. req[r].step = "store" /\ Shape /\ RefreshOK(r) /\ req[r] \in Req
    BY DEF StoreToken, IInv, Shape
  <1>4. l \in Nat /\ l <= LongLife
    <2>1. ShortLife \in Nat /\ LongLife \in Nat /\ ShortLife <= LongLife
      BY DEF Lives, LifeAssumption
    <2>2. CASE req[r].op = "refresh"
      <3>1. req[r].old \in Pairs /\ l = life[req[r].old]
        BY <1>2, <1>3, <2>2 DEF RefreshOK, LivesFor
      <3> QED
        BY <1>3, <3>1 DEF Shape
    <2>3. CASE req[r].op \in {"register", "login", "google"}
      BY <1>2, <2>1, <2>3 DEF LivesFor
    <2> QED
      BY <1>3, <2>2, <2>3 DEF IInv, Enterer
  <1>5. /\ issued' \in [Pairs -> Nat \cup {None}] /\ life' \in [Pairs -> Nat]
        /\ \A u \in Pairs : life'[u] <= LongLife
        /\ \A u \in Pairs : issued[u] # None => issued'[u] = issued[u] /\ life'[u] = life[u]
    BY <1>1, <1>2, <1>3, <1>4 DEF Shape
  <1>6. \/ req' = [req EXCEPT ![r] = Idle]
        \/ req[r].op = "refresh" /\ req' = [req EXCEPT ![r].step = "blacklist", ![r].new = t]
    BY DEF StoreToken, Leaves
  <1>7. PICK h \in Req :
          /\ req' = [req EXCEPT ![r] = h]
          /\ h.op = "refresh" => /\ req[r].op = "refresh" /\ h.old = req[r].old
                                 /\ h.since = req[r].since /\ h.step = "blacklist"
          /\ Enterer(h)
    <2>1. CASE req' = [req EXCEPT ![r] = Idle]
      BY <2>1, IdleIsReq
    <2>2. CASE req[r].op = "refresh" /\ req' = [req EXCEPT ![r].step = "blacklist", ![r].new = t]
      <3> DEFINE h == [req[r] EXCEPT !.step = "blacklist", !.new = t]
      <3>1. h \in Req /\ h.step = "blacklist" /\ h.op = req[r].op /\ h.old = req[r].old
            /\ h.since = req[r].since
        BY <1>3 DEF Req
      <3>2. req' = [req EXCEPT ![r] = h]
        BY <1>3, <2>2 DEF Shape
      <3>3. Enterer(h)
        BY <3>1 DEF Enterer
      <3> HIDE DEF h
      <3> QED
        BY <2>2, <3>1, <3>2, <3>3
    <2> QED
      BY <1>6, <2>1, <2>2
  <1>8. /\ req' \in [Requests -> Req] /\ req'[r] = h
        /\ \A q \in Requests \ {r} : req'[q] = req[q]
    BY <1>3, <1>7 DEF Shape
  <1>9. Shape' /\ RevocationOK'
    BY <1>1, <1>5, <1>8 DEF IInv, Shape, RevocationOK
  <1>10. RefreshOK(r)' /\ Enterer(req[r])'
    BY <1>1, <1>3, <1>5, <1>7, <1>8 DEF RefreshOK, Passed, Enterer
  <1>11. ASSUME NEW q \in Requests \ {r} PROVE RefreshOK(q)' /\ Enterer(req[q])'
    <2>1. RefreshOK(q) /\ Enterer(req[q])
      BY DEF IInv
    <2> QED
      BY <1>1, <1>5, <1>8, <2>1 DEF RefreshOK, Verified, Expires, Enterer
  <1> QED
    BY <1>9, <1>10, <1>11 DEF IInv

-----------------------------------------------------------------------------
(* The other actions.                                                      *)

LEMMA EntersOK ==
  ASSUME IInv, NEW r \in Requests, RegisterInserts(r) \/ LoginReads(r) \/ GoogleFinds(r)
  PROVE  IInv'
  <1>1. PICK op \in {"register", "login", "google"}, created \in BOOLEAN :
          Enters(r, op, created)
    BY DEF RegisterInserts, LoginReads, GoogleFinds
  <1> DEFINE h == [Idle EXCEPT !.op = op, !.step = "store", !.created = created]
  <1>2. h \in Req /\ h.op = op /\ h.step = "store"
    BY DEF Idle, Req
  <1>3. Begins(r, h) /\ UNCHANGED <<claims, revokeBefore, clock, changedAt>>
    BY <1>1 DEF Enters, marks, history
  <1>4. Enterer(h) /\ h.op # "refresh"
    BY <1>2 DEF Enterer
  <1> HIDE DEF h
  <1> QED
    BY <1>2, <1>3, <1>4, BeginsOK

LEMMA OthersBeginOK ==
  ASSUME IInv, NEW r \in Requests,
         (\E t \in Pairs : LogoutBegins(r, t)) \/ ChangeBegins(r) \/ ResetBegins(r)
  PROVE  IInv'
  <1>1. UNCHANGED <<claims, revokeBefore, clock, changedAt>>
    BY DEF LogoutBegins, ChangeBegins, ResetBegins, Crosses, store, marks, history
  <1>2. CASE \E t \in Pairs : LogoutBegins(r, t)
    <2>1. PICK t \in Pairs : LogoutBegins(r, t)
      BY <1>2
    <2> DEFINE h == [Idle EXCEPT !.op = "logout", !.step = "deny", !.old = t]
    <2>2. h \in Req /\ h.op = "logout" /\ h.step = "deny"
      BY DEF Idle, Req
    <2>3. Enterer(h)
      BY <2>2 DEF Enterer
    <2>4. Begins(r, h)
      BY <2>1 DEF LogoutBegins
    <2> HIDE DEF h
    <2> QED
      BY <1>1, <2>2, <2>3, <2>4, BeginsOK
  <1>3. CASE ChangeBegins(r)
    <2> DEFINE h == [Idle EXCEPT !.op = "change", !.step = "spend"]
    <2>1. h \in Req /\ h.op = "change" /\ h.step = "spend"
      BY DEF Idle, Req
    <2>2. Enterer(h)
      BY <2>1 DEF Enterer
    <2>3. Begins(r, h)
      BY <1>3 DEF ChangeBegins
    <2> HIDE DEF h
    <2> QED
      BY <1>1, <2>1, <2>2, <2>3, BeginsOK
  <1>4. CASE ResetBegins(r)
    <2> DEFINE h == [Idle EXCEPT !.op = "reset", !.step = "code"]
    <2>1. h \in Req /\ h.op = "reset" /\ h.step = "code"
      BY DEF Idle, Req
    <2>2. Enterer(h)
      BY <2>1 DEF Enterer
    <2>3. Begins(r, h)
      BY <1>4 DEF ResetBegins
    <2> HIDE DEF h
    <2> QED
      BY <1>1, <2>1, <2>2, <2>3, BeginsOK
  <1> QED
    BY <1>2, <1>3, <1>4

(* A request leaves, or goes on to a step that no refresh passed for.      *)
Onward == {"deny", "logout", "deactivate", "rollback", "unregister", "penalty", "spend",
           "update", "revoke", "code", "idle"}

LEMMA OnwardOK ==
  ASSUME IInv, NEW r \in Requests, Leaves(r) \/ \E s \in Onward : Goes(r, s),
         UNCHANGED <<claims, revokeBefore, clock, changedAt>>
  PROVE  IInv'
  BY LeavesOK, GoesOK DEF Onward, Step, Passed

LEMMA StepsOnOK ==
  ASSUME IInv, NEW r \in Requests,
         \/ RetireOld(r) \/ RollBack(r) \/ Unregister(r) \/ Deny(r)
         \/ BlacklistRefresh(r) \/ Deactivate(r) \/ WrongCode(r) \/ Penalty(r)
         \/ RightCode(r) \/ SpendCode(r) \/ UpdatePassword(r) \/ CallFails(r)
  PROVE  IInv'
  <1>1. UNCHANGED <<claims, revokeBefore, clock, changedAt>>
    BY DEF RetireOld, RollBack, Unregister, Deny, BlacklistRefresh, Deactivate, WrongCode,
       Penalty, RightCode, SpendCode, UpdatePassword, CallFails, IsGiven, store, marks,
       history
  <1>2. Leaves(r) \/ \E s \in Onward : Goes(r, s)
    BY DEF RetireOld, RollBack, Unregister, Deny, BlacklistRefresh, Deactivate, WrongCode,
       Penalty, RightCode, SpendCode, UpdatePassword, CallFails, AfterFailure, Onward
  <1> QED
    BY <1>1, <1>2, OnwardOK

LEMMA BlacklistOldOK ==
  ASSUME IInv, NEW r \in Requests, BlacklistOld(r)
  PROVE  IInv'
  BY GoesOK DEF BlacklistOld, marks, history, Step, Passed

(* The password has changed: every refresh under way began before.         *)
LEMMA RevokeSessionsOK ==
  ASSUME Lives, IInv, NEW r \in Requests, RevokeSessions(r)
  PROVE  IInv'
  <1>1. /\ revokeBefore' = [at |-> clock, until |-> clock + LongLife]
        /\ changedAt' = clock /\ Leaves(r) /\ UNCHANGED <<issued, life, clock>>
    BY DEF RevokeSessions, RevokeUntil, claims
  <1>2. clock \in Nat /\ clock # None /\ LongLife \in Nat
    BY DEF IInv, Shape, Lives, LifeAssumption, NoneAssumption
  <1>3. revokeBefore' # None
    BY <1>1, <1>2 DEF Lives, NoneAssumption
  <1>4. /\ req' \in [Requests -> Req] /\ req'[r] = Idle
        /\ \A q \in Requests \ {r} : req'[q] = req[q]
    BY <1>1, IdleIsReq DEF Leaves, IInv, Shape
  <1>5. Shape' /\ RevocationOK'
    BY <1>1, <1>2, <1>3, <1>4 DEF IInv, Shape, RevocationOK
  <1>6. RefreshOK(r)' /\ Enterer(req[r])'
    BY <1>4, IdleIsReq DEF RefreshOK
  <1>7. ASSUME NEW q \in Requests \ {r} PROVE RefreshOK(q)' /\ Enterer(req[q])'
    <2>1. RefreshOK(q) /\ Enterer(req[q]) /\ req[q] \in Req
          /\ (changedAt # None => changedAt \in Nat /\ changedAt <= clock)
      BY DEF IInv, Shape, RevocationOK
    <2> QED
      BY <1>1, <1>2, <1>4, <2>1 DEF RefreshOK, Verified, Expires, Enterer, Req
  <1> QED
    BY <1>5, <1>6, <1>7 DEF IInv

LEMMA CrashOK ==
  ASSUME IInv, Crash
  PROVE  IInv'
  <1>1. /\ \A r \in Requests : req'[r] = Idle
        /\ req' \in [Requests -> Req]
        /\ UNCHANGED <<issued, life, revokeBefore, clock, changedAt>>
    BY IdleIsReq DEF Crash, store, claims, marks, history
  <1> QED
    BY <1>1, IdleIsReq DEF IInv, Shape, RevocationOK, RefreshOK

(* Time makes no token valid again.                                        *)
LEMMA TickOK ==
  ASSUME IInv, Tick, Lives
  PROVE  IInv'
  <1>1. clock' = clock + 1 /\ UNCHANGED <<req, issued, life, revokeBefore, changedAt>>
    BY DEF Tick, store, claims, marks, history
  <1>2. Shape' /\ RevocationOK'
    BY <1>1 DEF IInv, Shape, RevocationOK
  <1>3. ASSUME NEW r \in Requests PROVE RefreshOK(r)' /\ Enterer(req[r])'
    <2>1. RefreshOK(r) /\ Enterer(req[r])
      BY DEF IInv
    <2>2. \A t \in Pairs : issued[t] # None /\ ~Verified(t) => ~Verified(t)'
      <3>1. \A t \in Pairs : issued[t] # None => issued[t] \in Nat /\ life[t] \in Nat
        BY DEF IInv, Shape
      <3>2. clock \in Nat
        BY DEF IInv, Shape
      <3> QED
        BY <1>1, <3>1, <3>2 DEF Verified, Expires
    <2> QED
      BY <1>1, <2>1, <2>2 DEF RefreshOK, Enterer
  <1> QED
    BY <1>2, <1>3 DEF IInv

LEMMA NextOK ==
  ASSUME Lives, IInv, [Next]_vars
  PROVE  IInv'
  <1>1. CASE \E r \in Requests : \E t \in Pairs :
               RefreshBegins(r, t) \/ StoreToken(r, t) \/ LogoutBegins(r, t)
    BY <1>1, RefreshBeginsOK, StoreTokenOK, OthersBeginOK
  <1>2. CASE \E r \in Requests :
               \/ RegisterInserts(r) \/ LoginReads(r) \/ GoogleFinds(r)
               \/ CheckRevoked(r) \/ CheckActive(r) \/ BlacklistOld(r)
               \/ ChangeBegins(r) \/ ResetBegins(r) \/ RevokeSessions(r)
    BY <1>2, EntersOK, CheckRevokedOK, CheckActiveOK, BlacklistOldOK, OthersBeginOK,
       RevokeSessionsOK
  <1>3. CASE \E r \in Requests :
               \/ RetireOld(r) \/ RollBack(r) \/ Unregister(r) \/ Deny(r)
               \/ BlacklistRefresh(r) \/ Deactivate(r) \/ WrongCode(r) \/ Penalty(r)
               \/ RightCode(r) \/ SpendCode(r) \/ UpdatePassword(r) \/ CallFails(r)
    BY <1>3, StepsOnOK
  <1>4. CASE \/ \E p \in Purposes : SendOTP(p) \/ OTPExpires(p)
             \/ FailsExpire \/ UNCHANGED vars
    BY <1>4, NobodyMoves DEF SendOTP, OTPExpires, FailsExpire, vars, marks, history
  <1>5. CASE Crash \/ Tick
    BY <1>5, CrashOK, TickOK
  <1> QED
    BY <1>1, <1>2, <1>3, <1>4, <1>5 DEF Next

-----------------------------------------------------------------------------
(* The lock on the reset of a password.                                    *)

Penalizing == \E r \in Requests : req[r].step = "penalty"

(* A wrong code that has been counted has a lifetime, or soon gets one.    *)
LockInv ==
    /\ fails \in Nat /\ faults \in Nat
    /\ faults = 0 /\ fails > 0 => failsEnd \/ Penalizing

LEMMA LockInit == Init => LockInv
  BY DEF Init, LockInv

(* What every action does to the requests, but for Crash and those that    *)
(* leave them alone.                                                       *)
Moves(r) == \A q \in Requests \ {r} : req'[q] = req[q]

LEMMA MovesOne ==
  ASSUME Shape, NEW r \in Requests,
         \/ Leaves(r) \/ \E s \in Step : Goes(r, s)
         \/ \E h \in Req : req' = [req EXCEPT ![r] = h]
  PROVE  Moves(r)
  BY DEF Moves, Leaves, Goes, Shape

LEMMA LockHolds ==
  ASSUME LockInv, UNCHANGED <<fails, failsEnd>>, NEW r \in Requests, req[r].step # "penalty",
         Moves(r), faults' = faults \/ faults' = faults + 1
  PROVE  LockInv'
  BY DEF LockInv, Penalizing, Moves

LEMMA LockByWays ==
  ASSUME IInv, LockInv, NEW r \in Requests,
         \/ RegisterInserts(r) \/ LoginReads(r) \/ GoogleFinds(r)
         \/ ChangeBegins(r) \/ ResetBegins(r)
         \/ \E t \in Pairs : RefreshBegins(r, t) \/ LogoutBegins(r, t)
  PROVE  LockInv'
  <1>1. UNCHANGED <<fails, failsEnd, faults>>
    BY DEF RegisterInserts, LoginReads, GoogleFinds, Enters, ChangeBegins, ResetBegins,
       RefreshBegins, LogoutBegins, store, codeVars
  <1>2. req[r] = Idle /\ \E h : req' = [req EXCEPT ![r] = h]
    BY DEF RegisterInserts, LoginReads, GoogleFinds, Enters, ChangeBegins, ResetBegins,
       RefreshBegins, LogoutBegins, Begins
  <1>3. req[r].step # "penalty" /\ Moves(r)
    BY <1>2 DEF Idle, Moves, IInv, Shape
  <1> QED
    BY <1>1, <1>3, LockHolds

LEMMA LockByStep ==
  ASSUME IInv, LockInv, NEW r \in Requests,
         \/ CheckRevoked(r) \/ CheckActive(r) \/ BlacklistOld(r) \/ RetireOld(r)
         \/ RollBack(r) \/ Unregister(r) \/ Deny(r) \/ BlacklistRefresh(r) \/ Deactivate(r)
         \/ SpendCode(r) \/ UpdatePassword(r) \/ RevokeSessions(r)
         \/ \E t \in Pairs : StoreToken(r, t)
  PROVE  LockInv'
  <1>1. UNCHANGED <<fails, failsEnd, faults>> /\ req[r].step # "penalty"
    BY DEF CheckRevoked, CheckActive, BlacklistOld, RetireOld, RollBack, Unregister, Deny,
       BlacklistRefresh, Deactivate, SpendCode, UpdatePassword, RevokeSessions, StoreToken,
       store, codeVars
  <1>2. \E h : req' = [req EXCEPT ![r] = h]
    BY DEF CheckRevoked, CheckActive, BlacklistOld, RetireOld, RollBack, Unregister, Deny,
       BlacklistRefresh, Deactivate, SpendCode, UpdatePassword, RevokeSessions, StoreToken,
       Leaves, Goes
  <1>3. Moves(r)
    BY <1>2 DEF Moves, IInv, Shape
  <1> QED
    BY <1>1, <1>3, LockHolds

(* The counter of wrong codes.                                             *)
LEMMA LockByCode ==
  ASSUME IInv, LockInv, NEW r \in Requests, WrongCode(r) \/ Penalty(r) \/ RightCode(r)
  PROVE  LockInv'
  <1>1. CASE WrongCode(r)
    <2>1. req'[r].step = "penalty" /\ fails' = fails + 1 /\ faults' = faults
      BY <1>1 DEF WrongCode, Goes, IInv, Shape, Req
    <2> QED
      BY <2>1 DEF LockInv, Penalizing
  <1>2. CASE Penalty(r)
    <2>1. UNCHANGED <<fails, faults>> /\ failsEnd' = (fails > 0)
      BY <1>2 DEF Penalty
    <2>2. fails > 0 => failsEnd'
      BY <2>1
    <2> QED
      BY <2>1, <2>2 DEF LockInv
  <1>3. CASE RightCode(r)
    BY <1>3 DEF RightCode, LockInv
  <1> QED
    BY <1>1, <1>2, <1>3

LEMMA LockStep ==
  ASSUME IInv, LockInv, [Next]_vars
  PROVE  LockInv'
  <1>1. CASE \E r \in Requests :
                \/ RegisterInserts(r) \/ LoginReads(r) \/ GoogleFinds(r)
                \/ ChangeBegins(r) \/ ResetBegins(r)
                \/ \E t \in Pairs : RefreshBegins(r, t) \/ LogoutBegins(r, t)
    BY <1>1, LockByWays
  <1>2. CASE \E r \in Requests :
                \/ CheckRevoked(r) \/ CheckActive(r) \/ BlacklistOld(r) \/ RetireOld(r)
                \/ RollBack(r) \/ Unregister(r) \/ Deny(r) \/ BlacklistRefresh(r)
                \/ Deactivate(r) \/ SpendCode(r) \/ UpdatePassword(r) \/ RevokeSessions(r)
                \/ \E t \in Pairs : StoreToken(r, t)
    BY <1>2, LockByStep
  <1>3. CASE \E r \in Requests : WrongCode(r) \/ Penalty(r) \/ RightCode(r)
    BY <1>3, LockByCode
  <1>4. CASE Crash \/ \E r \in Requests : CallFails(r)
    <2>1. UNCHANGED <<fails, failsEnd>> /\ faults' = faults + 1
      BY <1>4 DEF Crash, CallFails, store, codeVars
    <2> QED
      BY <2>1 DEF LockInv
  <1>5. CASE FailsExpire \/ Tick \/ UNCHANGED vars \/ \E p \in Purposes : SendOTP(p) \/ OTPExpires(p)
    BY <1>5 DEF FailsExpire, Tick, SendOTP, OTPExpires, vars, store, codeVars, LockInv, Penalizing
  <1> QED
    BY <1>1, <1>2, <1>3, <1>4, <1>5 DEF Next

LEMMA LockSafe == ASSUME BoundAssumption, LockInv PROVE LockEnds
  BY DEF LockInv, LockEnds, BoundAssumption, Penalizing

-----------------------------------------------------------------------------
(* The tokens of a session.                                                *)

Adds(r) == req[r].step \in {"blacklist", "retire"}

(* A token that was issued is of a session, whose last one was handed out; *)
(* only what was handed out is blacklisted, or logged out.                 *)
TokensOK ==
    /\ active \subseteq Pairs /\ given \subseteq Pairs /\ loggedOut \subseteq given
    /\ blacklist \in [Pairs -> Nat]
    /\ root \in [Pairs -> Pairs \cup {None}] /\ latest \in [Pairs -> Pairs \cup {None}]
    /\ \A u \in Pairs : issued[u] = None => u \notin active /\ u \notin given /\ root[u] = None
    /\ \A u \in Pairs : issued[u] # None =>
          /\ root[u] \in Pairs /\ root[root[u]] = root[u]
          /\ latest[root[u]] \in given /\ root[latest[root[u]]] = root[u]
    /\ \A u \in Pairs \ given : blacklist[u] = 0

(* What a request is about, and the token it has added but not handed out. *)
RequestOK(r) ==
    /\ req[r].old # None => req[r].old \in given
    /\ req[r].op \in {"refresh", "logout"} <=> req[r].old # None
    /\ req[r].step \in {"revoked", "active", "blacklist", "retire"} => req[r].op = "refresh"
    /\ req[r].step \in {"deny", "logout", "deactivate"} => req[r].op = "logout"
    /\ req[r].step = "rollback" => faults # 0
    /\ Adds(r) => /\ req[r].new \in Pairs \ given /\ issued[req[r].new] # None
                  /\ root[req[r].new] = root[req[r].old]

NewApart == \A r, q \in Requests : r # q /\ Adds(r) /\ Adds(q) => req[r].new # req[q].new

(* Sessions whose requests overlap are known to do so.                     *)
IsOf(r, t) == req[r].old # None /\ root[req[r].old] = t
OldApart ==
    \A r, q \in Requests : \A t \in Pairs :
        r # q /\ IsOf(r, t) /\ IsOf(q, t) => t \in crossed

Base == TokensOK /\ (\A r \in Requests : RequestOK(r)) /\ NewApart /\ OldApart

(* A session that is neither crossed nor met by a failure: what is active  *)
(* is its last token or the one a refresh has just added;                  *)
OnlyLast(t) ==
    \A u \in active : root[u] = t =>
        u = latest[t] \/ \E r \in Requests : Adds(r) /\ req[r].new = u
(* the last one is, until it is logged out;                                *)
LastIsActive(t) == latest[t] \in active <=> latest[t] \notin loggedOut
(* it is on the blacklist only when it is about to end;                    *)
LastIsListed(t) ==
    blacklist[latest[t]] > clock /\ latest[t] \notin loggedOut =>
        \E r \in Requests : req[r].old = latest[t] /\ req[r].step \in {"retire", "deactivate"}
(* and it is the one that is refreshed.                                    *)
LastIsRefreshed(t) ==
    \A r \in Requests : IsOf(r, t) =>
        /\ req[r].op = "refresh" /\ req[r].step \in Passed =>
              req[r].old = latest[t] /\ req[r].old \notin loggedOut
        /\ Adds(r) => req[r].new \in active

OneToken(t) == OnlyLast(t) /\ LastIsActive(t) /\ LastIsListed(t) /\ LastIsRefreshed(t)

EachHasOne == \A t \in Pairs : root[t] = t /\ t \notin crossed => OneToken(t)

SInv == Base /\ faults \in Nat /\ (faults = 0 => EachHasOne)

tokens == <<issued, active, given, loggedOut, blacklist, root, latest>>

LEMMA SessionInit == ASSUME Lives PROVE Init => SInv
  <1> SUFFICES ASSUME Init PROVE SInv
    OBVIOUS
  <1>1. TokensOK
    BY DEF Init, TokensOK
  <1>2. \A r \in Requests : req[r] = Idle /\ ~Adds(r) /\ RequestOK(r) /\ req[r].old = None
    BY DEF Init, Idle, Adds, RequestOK
  <1>3. Base
    BY <1>1, <1>2 DEF Base, NewApart, OldApart, IsOf
  <1>4. \A t \in Pairs : root[t] # t
    BY DEF Init, Lives, NoneAssumption
  <1> QED
    BY <1>3, <1>4 DEF SInv, EachHasOne, Init

(* The fields of a request that goes on, and of one that leaves.           *)
LEMMA GoesTo ==
  ASSUME Shape, NEW r \in Requests, NEW s \in Step, Goes(r, s)
  PROVE  /\ Moves(r) /\ req'[r].step = s /\ req'[r].op = req[r].op
         /\ req'[r].old = req[r].old /\ req'[r].new = req[r].new
  <1> DEFINE h == [req[r] EXCEPT !.step = s]
  <1>1. req[r] \in Req
    BY DEF Shape
  <1>2. h.step = s /\ h.op = req[r].op /\ h.old = req[r].old /\ h.new = req[r].new
    BY <1>1 DEF Req
  <1>3. req' = [req EXCEPT ![r] = h]
    BY DEF Goes
  <1> HIDE DEF h
  <1> QED
    BY <1>2, <1>3 DEF Shape, Moves

LEMMA LeavesTo ==
  ASSUME Shape, NEW r \in Requests, Leaves(r)
  PROVE  /\ Moves(r) /\ req'[r].step = "idle" /\ req'[r].op = "none"
         /\ req'[r].old = None /\ req'[r].new = None
  BY DEF Shape, Leaves, Moves, Idle

(* Where no token changes but that one may cease to be active.             *)
LEMMA BaseKeeps ==
  ASSUME Base, UNCHANGED <<issued, given, blacklist, root, latest, crossed>>,
         active' \subseteq active, loggedOut' \subseteq given, NEW r \in Requests, Moves(r), RequestOK(r)',
         req'[r].old # None => req'[r].old = req[r].old,
         Adds(r)' => Adds(r) /\ req'[r].new = req[r].new,
         faults # 0 => faults' # 0
  PROVE  Base'
  <1>1. TokensOK'
    BY DEF Base, TokensOK
  <1>2. ASSUME NEW q \in Requests PROVE RequestOK(q)'
    <2>1. CASE q = r
      BY <2>1
    <2>2. CASE q # r
      BY <2>2 DEF Base, RequestOK, Adds, Moves
    <2> QED
      BY <2>1, <2>2
  <1>3. \A q \in Requests : Adds(q)' => Adds(q) /\ req'[q].new = req[q].new
    BY DEF Adds, Moves
  <1>4. NewApart'
    BY <1>3 DEF Base, NewApart
  <1>5. \A q \in Requests, t \in Pairs : IsOf(q, t)' => IsOf(q, t)
    BY DEF IsOf, Moves
  <1>6. OldApart'
    BY <1>5 DEF Base, OldApart
  <1> QED
    BY <1>1, <1>2, <1>4, <1>6 DEF Base

(* A request goes on, or leaves, that is not at the end of a refresh or of *)
(* a logout, and gets past no check.                                       *)
LEMMA SessionKeeps ==
  ASSUME SInv, UNCHANGED <<tokens, crossed, clock, faults>>,
         NEW r \in Requests, Moves(r), RequestOK(r)',
         req'[r].old # None => req'[r].old = req[r].old /\ req'[r].op = req[r].op,
         req[r].step \notin {"blacklist", "retire", "deactivate"}, ~Adds(r)',
         req'[r].op = "refresh" => req'[r].step \notin Passed
  PROVE  SInv'
  <1>1. UNCHANGED <<issued, active, given, loggedOut, blacklist, root, latest>>
    BY DEF tokens
  <1>2. Base'
    BY <1>1, BaseKeeps DEF SInv, Base, TokensOK
  <1>3. ASSUME faults = 0, NEW t \in Pairs, root[t] = t, t \notin crossed PROVE OneToken(t)'
    <2>1. OneToken(t)
      BY <1>3 DEF SInv, EachHasOne
    <2>2. OnlyLast(t)'
      BY <1>1, <2>1 DEF OneToken, OnlyLast, Adds, Moves
    <2>3. LastIsActive(t)' /\ LastIsListed(t)'
      BY <1>1, <2>1 DEF OneToken, LastIsActive, LastIsListed, Moves
    <2>4. LastIsRefreshed(t)'
      BY <1>1, <2>1 DEF OneToken, LastIsRefreshed, IsOf, Moves, Adds
    <2> QED
      BY <2>2, <2>3, <2>4 DEF OneToken
  <1> QED
    BY <1>1, <1>2, <1>3 DEF SInv, EachHasOne

(* Requests begin that are about no token.                                 *)
LEMMA SessionByWays ==
  ASSUME IInv, SInv, NEW r \in Requests,
         RegisterInserts(r) \/ LoginReads(r) \/ GoogleFinds(r) \/ ChangeBegins(r) \/ ResetBegins(r)
  PROVE  SInv'
  <1>1. UNCHANGED <<tokens, crossed, clock, faults>>
    BY DEF RegisterInserts, LoginReads, GoogleFinds, Enters, ChangeBegins, ResetBegins,
       store, claims, marks, history, tokens
  <1>2. ASSUME NEW h, h.op \in {"register", "login", "google", "change", "reset"},
               h.step \in {"store", "spend", "code"}, h.old = None, Begins(r, h)
        PROVE  SInv'
    <2>1. /\ Moves(r) /\ req[r].step = "idle" /\ req'[r] = h
      BY <1>2 DEF Begins, Moves, Idle, IInv, Shape
    <2>2. RequestOK(r)' /\ ~Adds(r)'
      BY <1>2, <2>1 DEF RequestOK, Adds
    <2> QED
      BY <1>1, <1>2, <2>1, <2>2, SessionKeeps
  <1>3. CASE ChangeBegins(r)
    <2> DEFINE h == [Idle EXCEPT !.op = "change", !.step = "spend"]
    <2>1. h.op = "change" /\ h.step = "spend" /\ h.old = None
      BY DEF Idle
    <2>2. Begins(r, h)
      BY <1>3 DEF ChangeBegins
    <2> HIDE DEF h
    <2> QED
      BY <1>2, <2>1, <2>2
  <1>4. CASE ResetBegins(r)
    <2> DEFINE h == [Idle EXCEPT !.op = "reset", !.step = "code"]
    <2>1. h.op = "reset" /\ h.step = "code" /\ h.old = None
      BY DEF Idle
    <2>2. Begins(r, h)
      BY <1>4 DEF ResetBegins
    <2> HIDE DEF h
    <2> QED
      BY <1>2, <2>1, <2>2
  <1>5. ASSUME NEW op \in {"register", "login", "google"}, NEW c, Enters(r, op, c)
        PROVE  SInv'
    <2> DEFINE h == [Idle EXCEPT !.op = op, !.step = "store", !.created = c]
    <2>1. h.op = op /\ h.step = "store" /\ h.old = None
      BY DEF Idle
    <2>2. Begins(r, h)
      BY <1>5 DEF Enters
    <2> HIDE DEF h
    <2> QED
      BY <1>2, <2>1, <2>2
  <1> QED
    BY <1>3, <1>4, <1>5 DEF RegisterInserts, LoginReads, GoogleFinds

(* Requests that go on, and touch no token.                                *)
LEMMA SessionByStep ==
  ASSUME IInv, SInv, NEW r \in Requests,
         \/ CheckRevoked(r) \/ (CheckActive(r) /\ Leaves(r)) \/ Unregister(r) \/ Deny(r)
         \/ (BlacklistRefresh(r) /\ ~Verified(req[r].old))
         \/ WrongCode(r) \/ Penalty(r) \/ RightCode(r) \/ SpendCode(r)
         \/ UpdatePassword(r)
  PROVE  SInv'
  <1>0. Shape /\ RequestOK(r)
    BY DEF IInv, SInv, Base
  <1>1. UNCHANGED <<tokens, crossed, clock, faults>>
    BY DEF CheckRevoked, CheckActive, Unregister, Deny, BlacklistRefresh, WrongCode, Penalty,
       RightCode, SpendCode, UpdatePassword, store, claims, marks, history, tokens
  <1>2. req[r].step \in {"revoked", "active", "unregister", "deny", "logout", "code",
                         "penalty", "spend", "update"}
    BY DEF CheckRevoked, CheckActive, Unregister, Deny, BlacklistRefresh, WrongCode, Penalty,
       RightCode, SpendCode, UpdatePassword
  <1>3. CASE Leaves(r)
    <2>1. Moves(r) /\ req'[r].step = "idle" /\ req'[r].op = "none" /\ req'[r].old = None
      BY <1>0, <1>3, LeavesTo
    <2>2. RequestOK(r)' /\ ~Adds(r)'
      BY <2>1 DEF RequestOK, Adds
    <2> QED
      BY <1>1, <1>2, <2>1, <2>2, SessionKeeps
  <1>4. ASSUME NEW s \in {"active", "logout", "penalty", "spend", "update", "revoke"},
               Goes(r, s), s = "active" => req[r].step = "revoked",
               s = "logout" => req[r].step = "deny"
        PROVE  SInv'
    <2>1. /\ Moves(r) /\ req'[r].step = s /\ req'[r].op = req[r].op
          /\ req'[r].old = req[r].old
      BY <1>0, <1>4, GoesTo DEF Step
    <2>2. RequestOK(r)' /\ ~Adds(r)'
      BY <1>0, <1>1, <1>4, <2>1 DEF RequestOK, Adds, tokens
    <2> QED
      BY <1>1, <1>2, <1>4, <2>1, <2>2, SessionKeeps DEF Passed
  <1>5. CASE CheckRevoked(r) \/ Deny(r)
    BY <1>3, <1>4, <1>5 DEF CheckRevoked, Deny
  <1>6. CASE WrongCode(r) \/ RightCode(r) \/ SpendCode(r) \/ UpdatePassword(r)
    <2>1. Leaves(r) \/ Goes(r, "penalty") \/ Goes(r, "spend") \/ Goes(r, "update")
          \/ Goes(r, "revoke")
      BY <1>6 DEF WrongCode, RightCode, SpendCode, UpdatePassword
    <2> QED
      BY <1>3, <1>4, <2>1
  <1>7. CASE \/ (CheckActive(r) /\ Leaves(r)) \/ Unregister(r) \/ Penalty(r)
             \/ (BlacklistRefresh(r) /\ ~Verified(req[r].old))
    BY <1>3, <1>7 DEF Unregister, Penalty, BlacklistRefresh
  <1> QED
    BY <1>5, <1>6, <1>7

(* A change of the password revokes by the time of issue.                  *)
LEMMA SessionByRevoke ==
  ASSUME IInv, SInv, NEW r \in Requests, RevokeSessions(r)
  PROVE  SInv'
  <1>1. UNCHANGED <<tokens, crossed, clock, faults>> /\ req[r].step = "revoke"
    BY DEF RevokeSessions, claims, tokens
  <1>2. Moves(r) /\ req'[r].step = "idle" /\ req'[r].op = "none" /\ req'[r].old = None
    BY LeavesTo DEF RevokeSessions, IInv
  <1>3. RequestOK(r)' /\ ~Adds(r)'
    BY <1>2 DEF RequestOK, Adds
  <1> QED
    BY <1>1, <1>2, <1>3, SessionKeeps

(* What is active, and was handed out, is the last of its session.         *)
LEMMA ActiveIsLast ==
  ASSUME SInv, faults = 0, NEW u \in active \cap given, root[u] \notin crossed
  PROVE  u = latest[root[u]] /\ u \notin loggedOut
  <1>1. u \in Pairs /\ root[u] \in Pairs /\ root[root[u]] = root[u]
    BY DEF SInv, Base, TokensOK
  <1>2. OneToken(root[u])
    BY <1>1 DEF SInv, EachHasOne
  <1>3. \A r \in Requests : Adds(r) => req[r].new # u
    BY DEF SInv, Base, RequestOK
  <1> QED
    BY <1>2, <1>3 DEF OneToken, OnlyLast, LastIsActive

LEMMA SessionByCheck ==
  ASSUME IInv, SInv, NEW r \in Requests, CheckActive(r)
  PROVE  SInv'
  <1>1. CASE Leaves(r)
    BY <1>1, SessionByStep
  <1>2. CASE Goes(r, "store") /\ req[r].old \in active
    <2>0. Shape /\ RequestOK(r)
      BY DEF IInv, SInv, Base
    <2>1. /\ UNCHANGED <<issued, active, given, loggedOut, blacklist, root, latest, crossed,
                         clock, faults>>
          /\ req[r].step = "active"
      BY DEF CheckActive, store, claims, marks, history
    <2>2. /\ Moves(r) /\ req'[r].step = "store" /\ req'[r].op = req[r].op
          /\ req'[r].old = req[r].old
      BY <1>2, <2>0, GoesTo DEF Step
    <2>3. RequestOK(r)' /\ ~Adds(r)' /\ ~Adds(r)
      BY <2>0, <2>1, <2>2 DEF RequestOK, Adds
    <2>4. Base'
      BY <2>1, <2>2, <2>3, BaseKeeps DEF SInv, Base, TokensOK
    <2>5. ASSUME faults = 0, NEW t \in Pairs, root[t] = t, t \notin crossed
          PROVE  OneToken(t)'
      <3>1. OneToken(t)
        BY <2>5 DEF SInv, EachHasOne
      <3>2. OnlyLast(t)'
        BY <2>1, <2>2, <2>3, <3>1 DEF OneToken, OnlyLast, Adds, Moves
      <3>3. LastIsActive(t)' /\ LastIsListed(t)'
        BY <2>1, <2>2, <3>1 DEF OneToken, LastIsActive, LastIsListed, Moves
      <3>4. IsOf(r, t) => req[r].old = latest[t] /\ req[r].old \notin loggedOut
        BY <1>2, <2>0, <2>5, ActiveIsLast DEF IsOf, RequestOK
      <3>5. LastIsRefreshed(t)'
        BY <2>1, <2>2, <2>3, <3>1, <3>4 DEF OneToken, LastIsRefreshed, IsOf, Moves, Adds
      <3> QED
        BY <3>2, <3>3, <3>5 DEF OneToken
    <2> QED
      BY <2>1, <2>4, <2>5 DEF SInv, EachHasOne
  <1> QED
    BY <1>1, <1>2 DEF CheckActive

(* A token that was handed out goes on the blacklist, by a request that is *)
(* then at its last step.                                                  *)
LEMMA SessionByBlacklist ==
  ASSUME Lives, IInv, SInv, NEW r \in Requests,
         BlacklistOld(r) \/ (BlacklistRefresh(r) /\ Verified(req[r].old))
  PROVE  SInv'
  <1>0. Shape /\ RequestOK(r) /\ Base
    BY DEF IInv, SInv, Base
  <1>1. /\ UNCHANGED <<issued, active, given, loggedOut, root, latest, crossed, clock, faults>>
        /\ req[r].step \in {"blacklist", "logout"}
    BY DEF BlacklistOld, BlacklistRefresh, claims, history
  <1>2. PICK s \in {"retire", "deactivate"} :
          Goes(r, s) /\ (s = "retire" <=> req[r].step = "blacklist")
    BY DEF BlacklistOld, BlacklistRefresh
  <1>3. PICK o \in given : req[r].old = o /\ issued[o] # None
    BY <1>0, <1>1, <1>2 DEF RequestOK, Base, TokensOK
  <1>4. /\ Moves(r) /\ req'[r].step = s /\ req'[r].op = req[r].op
        /\ req'[r].old = o /\ req'[r].new = req[r].new
        /\ Adds(r)' <=> Adds(r)
    BY <1>0, <1>1, <1>2, <1>3, GoesTo DEF Step, Adds
  <1>5. Expires(o) \in Nat
    BY <1>0, <1>3 DEF Shape, Expires, Base, TokensOK
  <1>6. /\ blacklist' \in [Pairs -> Nat]
        /\ \A u \in Pairs : u # o => blacklist'[u] = blacklist[u]
    BY <1>0, <1>3, <1>5 DEF BlacklistOld, BlacklistRefresh, BlacklistUntil, Base, TokensOK
  <1>7. TokensOK'
    BY <1>0, <1>1, <1>3, <1>6 DEF Base, TokensOK
  <1>8. ASSUME NEW q \in Requests PROVE RequestOK(q)'
    <2>1. CASE q = r
      BY <2>1, <1>0, <1>1, <1>2, <1>3, <1>4 DEF RequestOK, Adds
    <2>2. CASE q # r
      BY <2>2, <1>0, <1>1, <1>4 DEF Base, RequestOK, Adds, Moves
    <2> QED
      BY <2>1, <2>2
  <1>9. Base'
    <2>1. \A q \in Requests : (Adds(q)' <=> Adds(q)) /\ req'[q].new = req[q].new
      BY <1>4 DEF Adds, Moves
    <2>2. \A q \in Requests, t \in Pairs : IsOf(q, t)' => IsOf(q, t)
      BY <1>1, <1>3, <1>4 DEF IsOf, Moves
    <2> QED
      BY <1>0, <1>1, <1>7, <1>8, <2>1, <2>2 DEF Base, NewApart, OldApart
  <1>10. ASSUME faults = 0, NEW t \in Pairs, root[t] = t, t \notin crossed PROVE OneToken(t)'
    <2>1. OneToken(t) /\ latest[t] \in Pairs
      <3>1. issued[t] # None
        BY <1>0, <1>10 DEF Base, TokensOK, Lives, NoneAssumption
      <3> QED
        BY <1>0, <1>10, <3>1 DEF SInv, EachHasOne, Base, TokensOK
    <2>2. OnlyLast(t)'
      BY <1>1, <1>4, <2>1 DEF OneToken, OnlyLast, Adds, Moves
    <2>3. LastIsActive(t)'
      BY <1>1, <2>1 DEF OneToken, LastIsActive
    <2>4. LastIsListed(t)'
      <3>1. CASE latest[t] = o
        BY <1>1, <1>4, <3>1 DEF LastIsListed
      <3>2. CASE latest[t] # o
        BY <1>1, <1>3, <1>4, <1>6, <2>1, <3>2 DEF OneToken, LastIsListed, Moves
      <3> QED
        BY <3>1, <3>2
    <2>5. LastIsRefreshed(t)'
      <3>1. ASSUME NEW q \in Requests, IsOf(q, t)'
            PROVE  /\ req'[q].op = "refresh" /\ req'[q].step \in Passed =>
                          req'[q].old = latest[t] /\ req'[q].old \notin loggedOut
                   /\ Adds(q)' => req'[q].new \in active
        <4>1. CASE q = r
          BY <4>1, <3>1, <1>0, <1>1, <1>2, <1>3, <1>4, <2>1
          DEF OneToken, LastIsRefreshed, IsOf, Passed, Adds, RequestOK
        <4>2. CASE q # r
          BY <4>2, <3>1, <1>1, <1>4, <2>1 DEF OneToken, LastIsRefreshed, IsOf, Adds, Moves
        <4> QED
          BY <4>1, <4>2
      <3> QED
        BY <1>1, <3>1 DEF LastIsRefreshed
    <2> QED
      BY <2>2, <2>3, <2>4, <2>5 DEF OneToken
  <1> QED
    BY <1>1, <1>9, <1>10 DEF SInv, EachHasOne

(* A pair is issued: the first of a new session, or one that a refresh has *)
(* yet to hand out.                                                        *)
LEMMA Fresh ==
  ASSUME Lives, TokensOK, NEW x \in Pairs, issued[x] = None
  PROVE  /\ x \notin active /\ x \notin given /\ root[x] = None /\ x \notin loggedOut
         /\ \A u \in Pairs : issued[u] # None => u # x /\ root[u] # x /\ latest[root[u]] # x
         /\ \A u \in Pairs : root[u] = u => issued[u] # None
  BY DEF TokensOK, Lives, NoneAssumption

LEMMA SessionByStoreNext ==
  ASSUME Lives, IInv, SInv, NEW r \in Requests, NEW x \in Pairs, StoreToken(r, x),
         req[r].op = "refresh"
  PROVE  SInv'
  <1>0. Shape /\ Base /\ RequestOK(r) /\ clock # None
    BY DEF IInv, SInv, Base, Shape, Lives, NoneAssumption
  <1>1. /\ UNCHANGED <<blacklist, given, latest, loggedOut, crossed, clock, faults>>
        /\ req[r].step = "store" /\ issued[x] = None
        /\ issued' = [issued EXCEPT ![x] = clock] /\ active' = active \cup {x}
        /\ req' = [req EXCEPT ![r].step = "blacklist", ![r].new = x]
        /\ root' = [root EXCEPT ![x] = root[req[r].old]]
    BY DEF StoreToken
  <1>1a. /\ blacklist' = blacklist /\ given' = given /\ latest' = latest
        /\ loggedOut' = loggedOut /\ faults' = faults
    BY <1>1
  <1>2. PICK o \in given : req[r].old = o /\ issued[o] # None /\ o \in Pairs
    BY <1>0 DEF RequestOK, Base, TokensOK
  <1>3. /\ Moves(r) /\ req'[r].step = "blacklist" /\ req'[r].new = x
        /\ req'[r].old = o /\ req'[r].op = "refresh"
    <2> DEFINE h == [req[r] EXCEPT !.step = "blacklist", !.new = x]
    <2>1. req[r] \in Req
      BY <1>0 DEF Shape
    <2>2. h.step = "blacklist" /\ h.op = "refresh" /\ h.old = o /\ h.new = x
      BY <1>2, <2>1 DEF Req
    <2>3. req' = [req EXCEPT ![r] = h]
      BY <1>1
    <2> HIDE DEF h
    <2> QED
      BY <1>0, <2>2, <2>3 DEF Shape, Moves
  <1>4. /\ x \notin active /\ x \notin given /\ x \notin loggedOut
        /\ \A u \in Pairs : issued[u] # None => u # x /\ root[u] # x /\ latest[root[u]] # x
        /\ \A u \in Pairs : root[u] = u => issued[u] # None
    BY <1>0, <1>1, Fresh DEF Base
  <1>5. /\ issued'[x] # None /\ root'[x] = root[o]
        /\ \A u \in Pairs : u # x => issued'[u] = issued[u] /\ root'[u] = root[u]
        /\ root' \in [Pairs -> Pairs \cup {None}]
    BY <1>0, <1>1, <1>2 DEF Shape, Base, TokensOK
  <1>6. TokensOK'
    <2>1. /\ active' \subseteq Pairs /\ given \subseteq Pairs /\ loggedOut \subseteq given
          /\ blacklist \in [Pairs -> Nat] /\ latest \in [Pairs -> Pairs \cup {None}]
          /\ \A u \in Pairs \ given : blacklist[u] = 0
      BY <1>0, <1>1 DEF Base, TokensOK
    <2>2. ASSUME NEW u \in Pairs, issued'[u] = None
          PROVE  u \notin active' /\ u \notin given /\ root'[u] = None
      BY <1>0, <1>1, <1>5, <2>2 DEF Base, TokensOK
    <2>3. ASSUME NEW u \in Pairs, issued'[u] # None
          PROVE  /\ root'[u] \in Pairs /\ root'[root'[u]] = root'[u]
                 /\ latest[root'[u]] \in given /\ root'[latest[root'[u]]] = root'[u]
      <3>1. PICK v \in Pairs : issued[v] # None /\ root'[u] = root[v]
        BY <1>2, <1>5, <2>3
      <3>2. /\ root[v] \in Pairs /\ root[root[v]] = root[v] /\ root[v] # x
            /\ latest[root[v]] \in given /\ root[latest[root[v]]] = root[v]
            /\ latest[root[v]] # x /\ latest[root[v]] \in Pairs
        BY <1>0, <1>4, <3>1 DEF Base, TokensOK
      <3> QED
        BY <1>5, <3>1, <3>2
    <2> QED
      BY <1>1a, <1>5, <2>1, <2>2, <2>3 DEF TokensOK
  <1>7. ASSUME NEW q \in Requests, q # r
        PROVE  /\ req'[q] = req[q] /\ RequestOK(q)' /\ (Adds(q) => req[q].new # x)
               /\ (req[q].old # None => root'[req[q].old] = root[req[q].old])
    <2>1. req'[q] = req[q] /\ RequestOK(q)
      BY <1>0, <1>3, <1>7 DEF Moves, Base
    <2>2. req[q].old # None => req[q].old \in Pairs /\ req[q].old # x
      BY <1>0, <1>4, <2>1 DEF RequestOK, Base, TokensOK
    <2>3. Adds(q) => req[q].new # x /\ req[q].old # None
      BY <1>1, <2>1 DEF RequestOK, Adds
    <2> QED
      BY <1>1a, <1>5, <2>1, <2>2, <2>3 DEF RequestOK, Adds
  <1>8. RequestOK(r)' /\ Adds(r)' /\ ~Adds(r)
    BY <1>0, <1>1, <1>2, <1>3, <1>4, <1>5 DEF RequestOK, Adds
  <1>9. Base'
    <2>1. NewApart'
      BY <1>0, <1>3, <1>7 DEF Base, NewApart, Adds
    <2>2. \A q \in Requests, t \in Pairs : IsOf(q, t)' => IsOf(q, t)
      BY <1>2, <1>3, <1>4, <1>5, <1>7 DEF IsOf
    <2>3. OldApart'
      BY <1>0, <1>1, <2>2 DEF Base, OldApart
    <2> QED
      BY <1>6, <1>7, <1>8, <2>1, <2>3 DEF Base
  <1>10. ASSUME faults = 0, NEW t \in Pairs, root'[t] = t, t \notin crossed PROVE OneToken(t)'
    <2>1. t # x /\ root[t] = t /\ OneToken(t) /\ latest[t] \in Pairs /\ latest[t] # x
      <3>1. t # x
        BY <1>2, <1>4, <1>5, <1>10
      <3> QED
        BY <1>0, <1>4, <1>5, <1>10, <3>1 DEF SInv, EachHasOne, Base, TokensOK
    <2>2. OnlyLast(t)'
      <3>1. ASSUME NEW u \in active', root'[u] = t
            PROVE  u = latest[t] \/ \E q \in Requests : Adds(q)' /\ req'[q].new = u
        <4>1. CASE u = x
          BY <1>3, <1>8, <4>1
        <4>2. CASE u # x
          <5>1. u \in active /\ u \in Pairs /\ root[u] = t
            BY <1>0, <1>1, <1>5, <3>1, <4>2 DEF Base, TokensOK
          <5>2. u = latest[t] \/ \E q \in Requests : Adds(q) /\ req[q].new = u
            BY <2>1, <5>1 DEF OneToken, OnlyLast
          <5> QED
            BY <1>7, <1>8, <5>2 DEF Adds
        <4> QED
          BY <4>1, <4>2
      <3> QED
        BY <1>1, <3>1 DEF OnlyLast
    <2>3. LastIsActive(t)'
      BY <1>1, <2>1 DEF OneToken, LastIsActive
    <2>4. LastIsListed(t)'
      BY <1>1, <1>7, <2>1 DEF OneToken, LastIsListed
    <2>5. LastIsRefreshed(t)'
      <3>1. ASSUME NEW q \in Requests, IsOf(q, t)'
            PROVE  /\ req'[q].op = "refresh" /\ req'[q].step \in Passed =>
                          req'[q].old = latest[t] /\ req'[q].old \notin loggedOut
                   /\ Adds(q)' => req'[q].new \in active'
        <4>1. CASE q = r
          <5>1. IsOf(r, t)
            BY <1>2, <1>3, <1>4, <1>5, <3>1, <4>1 DEF IsOf
          <5> QED
            BY <1>1, <1>2, <1>3, <2>1, <4>1, <5>1 DEF OneToken, LastIsRefreshed, Passed
        <4>2. CASE q # r
          <5>1. IsOf(q, t) /\ req'[q] = req[q] /\ (Adds(q)' <=> Adds(q))
            BY <1>7, <3>1, <4>2 DEF IsOf, Adds
          <5> QED
            BY <1>1, <2>1, <5>1 DEF OneToken, LastIsRefreshed, Passed
        <4> QED
          BY <4>1, <4>2
      <3> QED
        BY <1>1, <3>1 DEF LastIsRefreshed
    <2> QED
      BY <2>2, <2>3, <2>4, <2>5 DEF OneToken
  <1> QED
    BY <1>1, <1>9, <1>10 DEF SInv, EachHasOne

LEMMA SessionByStoreFirst ==
  ASSUME Lives, IInv, SInv, NEW r \in Requests, NEW x \in Pairs, StoreToken(r, x),
         req[r].op # "refresh"
  PROVE  SInv'
  <1>0. Shape /\ Base /\ RequestOK(r) /\ clock # None /\ clock \in Nat
    BY DEF IInv, SInv, Base, Shape, Lives, NoneAssumption
  <1>1. /\ UNCHANGED <<blacklist, loggedOut, crossed, clock, faults>>
        /\ req[r].step = "store" /\ issued[x] = None
        /\ issued' = [issued EXCEPT ![x] = clock] /\ active' = active \cup {x}
        /\ Leaves(r) /\ root' = [root EXCEPT ![x] = x]
        /\ given' = given \cup {x} /\ latest' = [latest EXCEPT ![x] = x]
    BY DEF StoreToken, IsGiven
  <1>3. Moves(r) /\ req'[r].step = "idle" /\ req'[r].op = "none" /\ req'[r].old = None
    BY <1>0, <1>1, LeavesTo
  <1>4. /\ x \notin active /\ x \notin given /\ x \notin loggedOut
        /\ \A u \in Pairs : issued[u] # None => u # x /\ root[u] # x /\ latest[root[u]] # x
        /\ \A u \in Pairs : root[u] = u => issued[u] # None
    BY <1>0, <1>1, Fresh DEF Base
  <1>5. /\ issued'[x] # None /\ root'[x] = x /\ latest'[x] = x
        /\ \A u \in Pairs : u # x => issued'[u] = issued[u] /\ root'[u] = root[u]
                                     /\ latest'[u] = latest[u]
        /\ root' \in [Pairs -> Pairs \cup {None}] /\ latest' \in [Pairs -> Pairs \cup {None}]
    BY <1>0, <1>1 DEF Shape, Base, TokensOK
  <1>6. TokensOK'
    <2>1. /\ active' \subseteq Pairs /\ given' \subseteq Pairs /\ loggedOut \subseteq given'
          /\ blacklist \in [Pairs -> Nat]
          /\ \A u \in Pairs \ given' : blacklist[u] = 0
      BY <1>0, <1>1 DEF Base, TokensOK
    <2>2. ASSUME NEW u \in Pairs, issued'[u] = None
          PROVE  u \notin active' /\ u \notin given' /\ root'[u] = None
      BY <1>0, <1>1, <1>5, <2>2 DEF Base, TokensOK
    <2>3. ASSUME NEW u \in Pairs, issued'[u] # None
          PROVE  /\ root'[u] \in Pairs /\ root'[root'[u]] = root'[u]
                 /\ latest'[root'[u]] \in given' /\ root'[latest'[root'[u]]] = root'[u]
      <3>1. CASE u = x
        BY <1>1, <1>5, <3>1
      <3>2. CASE u # x
        <4>1. /\ root[u] \in Pairs /\ root[root[u]] = root[u] /\ root[u] # x
              /\ latest[root[u]] \in given /\ root[latest[root[u]]] = root[u]
              /\ latest[root[u]] # x /\ latest[root[u]] \in Pairs
          BY <1>0, <1>4, <1>5, <2>3, <3>2 DEF Base, TokensOK
        <4> QED
          BY <1>1, <1>5, <3>2, <4>1
      <3> QED
        BY <3>1, <3>2
    <2> QED
      BY <1>1, <1>5, <2>1, <2>2, <2>3 DEF TokensOK
  <1>7. ASSUME NEW q \in Requests, q # r
        PROVE  /\ req'[q] = req[q] /\ RequestOK(q)'
               /\ (req[q].old # None => req[q].old \in Pairs /\ req[q].old # x
                                        /\ root[req[q].old] # x)
    <2>1. req'[q] = req[q] /\ RequestOK(q)
      BY <1>0, <1>3, <1>7 DEF Moves, Base
    <2>2. req[q].old # None => req[q].old \in Pairs /\ req[q].old # x /\ root[req[q].old] # x
      BY <1>0, <1>4, <2>1 DEF RequestOK, Base, TokensOK
    <2>3. Adds(q) => req[q].new # x /\ req[q].old # None
      BY <1>1, <2>1 DEF RequestOK, Adds
    <2> QED
      BY <1>1, <1>5, <2>1, <2>2, <2>3 DEF RequestOK, Adds
  <1>8. RequestOK(r)' /\ ~Adds(r)' /\ ~Adds(r)
    BY <1>1, <1>3 DEF RequestOK, Adds
  <1>9. ASSUME NEW q \in Requests, NEW t \in Pairs, IsOf(q, t)'
        PROVE  q # r /\ IsOf(q, t) /\ t # x /\ req'[q] = req[q]
    BY <1>3, <1>5, <1>7, <1>9 DEF IsOf
  <1>10. Base'
    <2>1. NewApart'
      BY <1>0, <1>7, <1>8 DEF Base, NewApart, Adds
    <2>2. OldApart'
      BY <1>0, <1>1, <1>9 DEF Base, OldApart
    <2> QED
      BY <1>6, <1>7, <1>8, <2>1, <2>2 DEF Base
  <1>11. OneToken(x)'
    <2>1. OnlyLast(x)'
      BY <1>0, <1>1, <1>4, <1>5 DEF OnlyLast, Base, TokensOK
    <2>2. LastIsActive(x)' /\ LastIsListed(x)'
      BY <1>0, <1>1, <1>4, <1>5 DEF LastIsActive, LastIsListed, Base, TokensOK
    <2>3. LastIsRefreshed(x)'
      BY <1>9 DEF LastIsRefreshed
    <2> QED
      BY <2>1, <2>2, <2>3 DEF OneToken
  <1>12. ASSUME faults = 0, NEW t \in Pairs, root'[t] = t, t \notin crossed, t # x
         PROVE  OneToken(t)'
    <2>1. /\ root[t] = t /\ OneToken(t) /\ latest[t] \in Pairs /\ latest[t] # x
          /\ latest'[t] = latest[t]
      BY <1>0, <1>4, <1>5, <1>12 DEF SInv, EachHasOne, Base, TokensOK
    <2>2. OnlyLast(t)'
      <3>1. ASSUME NEW u \in active', root'[u] = t
            PROVE  u = latest[t] \/ \E q \in Requests : Adds(q)' /\ req'[q].new = u
        <4>1. u \in active /\ u \in Pairs /\ root[u] = t
          BY <1>0, <1>1, <1>5, <1>12, <3>1 DEF Base, TokensOK
        <4>2. u = latest[t] \/ \E q \in Requests : Adds(q) /\ req[q].new = u
          BY <2>1, <4>1 DEF OneToken, OnlyLast
        <4> QED
          BY <1>7, <1>8, <4>2 DEF Adds
      <3> QED
        BY <2>1, <3>1 DEF OnlyLast
    <2>3. LastIsActive(t)'
      BY <1>1, <2>1 DEF OneToken, LastIsActive
    <2>4. LastIsListed(t)'
      BY <1>1, <1>7, <2>1 DEF OneToken, LastIsListed
    <2>5. LastIsRefreshed(t)'
      <3>1. ASSUME NEW q \in Requests, IsOf(q, t)'
            PROVE  /\ req'[q].op = "refresh" /\ req'[q].step \in Passed =>
                          req'[q].old = latest'[t] /\ req'[q].old \notin loggedOut'
                   /\ Adds(q)' => req'[q].new \in active'
        <4>1. IsOf(q, t) /\ req'[q] = req[q] /\ (Adds(q)' <=> Adds(q))
          BY <1>9, <3>1 DEF Adds
        <4> QED
          BY <1>1, <2>1, <4>1 DEF OneToken, LastIsRefreshed
      <3> QED
        BY <3>1 DEF LastIsRefreshed
    <2> QED
      BY <2>2, <2>3, <2>4, <2>5 DEF OneToken
  <1> QED
    BY <1>1, <1>10, <1>11, <1>12 DEF SInv, EachHasOne

(* The end of a refresh: the old token is retired, the new one handed out. *)
LEMMA SessionByRetire ==
  ASSUME Lives, IInv, SInv, NEW r \in Requests, RetireOld(r)
  PROVE  SInv'
  <1>0. Shape /\ Base /\ RequestOK(r) /\ clock \in Nat
    BY DEF IInv, SInv, Base, Shape
  <1>1. /\ issued' = issued /\ blacklist' = blacklist /\ root' = root
        /\ loggedOut' = loggedOut /\ crossed' = crossed /\ clock' = clock /\ faults' = faults
        /\ req[r].step = "retire" /\ Leaves(r)
    BY DEF RetireOld, claims
  <1>2. Adds(r) /\ req[r].op = "refresh"
    BY <1>0, <1>1 DEF Adds, RequestOK
  <1>3. PICK o \in given : req[r].old = o /\ issued[o] # None /\ o \in Pairs
    BY <1>0, <1>2 DEF RequestOK, Base, TokensOK
  <1>4. PICK n \in Pairs \ given : req[r].new = n /\ issued[n] # None /\ root[n] = root[o]
    BY <1>0, <1>2, <1>3 DEF RequestOK
  <1>5. PICK s \in Pairs : root[o] = s /\ root[n] = s /\ root[s] = s
    BY <1>0, <1>3, <1>4 DEF Base, TokensOK
  <1>6. /\ active' = active \ {o} /\ given' = given \cup {n} /\ n \notin loggedOut
        /\ latest' \in [Pairs -> Pairs \cup {None}] /\ latest'[s] = n
        /\ \A t \in Pairs : t # s => latest'[t] = latest[t]
    BY <1>0, <1>3, <1>4, <1>5 DEF RetireOld, IsGiven, Base, TokensOK
  <1>7. /\ Moves(r) /\ req'[r].step = "idle" /\ req'[r].op = "none" /\ req'[r].old = None
        /\ ~Adds(r)' /\ RequestOK(r)'
    <2>1. Moves(r) /\ req'[r].step = "idle" /\ req'[r].op = "none" /\ req'[r].old = None
      BY <1>0, <1>1, LeavesTo
    <2> QED
      BY <2>1 DEF Adds, RequestOK
  <1>8. TokensOK'
    <2>1. /\ active' \subseteq Pairs /\ given' \subseteq Pairs /\ loggedOut \subseteq given'
          /\ blacklist \in [Pairs -> Nat] /\ root \in [Pairs -> Pairs \cup {None}]
          /\ \A u \in Pairs \ given' : blacklist[u] = 0
          /\ \A u \in Pairs : issued[u] = None => u \notin active' /\ u \notin given'
                                                  /\ root[u] = None
      BY <1>0, <1>4, <1>6 DEF Base, TokensOK
    <2>2. ASSUME NEW u \in Pairs, issued[u] # None
          PROVE  /\ root[u] \in Pairs /\ root[root[u]] = root[u]
                 /\ latest'[root[u]] \in given' /\ root[latest'[root[u]]] = root[u]
      <3>1. /\ root[u] \in Pairs /\ root[root[u]] = root[u]
            /\ latest[root[u]] \in given /\ root[latest[root[u]]] = root[u]
        BY <1>0, <2>2 DEF Base, TokensOK
      <3> QED
        BY <1>5, <1>6, <3>1
    <2> QED
      BY <1>1, <1>6, <2>1, <2>2 DEF TokensOK
  <1>9. ASSUME NEW q \in Requests, q # r
        PROVE  /\ req'[q] = req[q] /\ RequestOK(q)' /\ (Adds(q)' <=> Adds(q))
               /\ (Adds(q) => req[q].new # n /\ req[q].new # o)
    <2>1. req'[q] = req[q] /\ RequestOK(q)
      BY <1>0, <1>7, <1>9 DEF Moves, Base
    <2>2. Adds(q) => req[q].new # n /\ req[q].new # o
      BY <1>0, <1>2, <1>3, <1>4, <1>9, <2>1 DEF Base, NewApart, RequestOK
    <2> QED
      BY <1>1, <1>6, <2>1, <2>2 DEF RequestOK, Adds
  <1>10. ASSUME NEW q \in Requests, NEW t \in Pairs, IsOf(q, t)'
         PROVE  q # r /\ IsOf(q, t) /\ req'[q] = req[q]
    BY <1>1, <1>7, <1>9, <1>10 DEF IsOf
  <1>11. Base'
    <2>1. NewApart'
      BY <1>0, <1>7, <1>9 DEF Base, NewApart
    <2>2. OldApart'
      BY <1>0, <1>1, <1>10 DEF Base, OldApart
    <2> QED
      BY <1>7, <1>8, <1>9, <2>1, <2>2 DEF Base
  <1>12. IsOf(r, s)
    BY <1>3, <1>5, <1>0, <1>2 DEF IsOf, RequestOK
  <1>13. ASSUME faults = 0, s \notin crossed PROVE OneToken(s)'
    <2>1. \A q \in Requests : q # r => ~IsOf(q, s)
      BY <1>0, <1>12, <1>13 DEF Base, OldApart
    <2>2. OneToken(s)
      BY <1>5, <1>13 DEF SInv, EachHasOne
    <2>3. o = latest[s] /\ n \in active
      BY <1>1, <1>2, <1>3, <1>4, <1>12, <2>2 DEF OneToken, LastIsRefreshed, Passed
    <2>4. OnlyLast(s)'
      <3>1. ASSUME NEW u \in active', root'[u] = s PROVE u = n
        <4>1. u \in active /\ u # o /\ root[u] = s
          BY <1>1, <1>6, <3>1
        <4>2. PICK q \in Requests : Adds(q) /\ req[q].new = u
          BY <2>2, <2>3, <4>1 DEF OneToken, OnlyLast
        <4>3. IsOf(q, s)
          BY <1>0, <4>1, <4>2 DEF Base, RequestOK, IsOf, Adds
        <4> QED
          BY <1>4, <2>1, <4>2, <4>3
      <3> QED
        BY <1>6, <3>1 DEF OnlyLast
    <2>5. LastIsActive(s)'
      BY <1>1, <1>3, <1>4, <1>6, <2>3 DEF LastIsActive
    <2>6. LastIsListed(s)'
      BY <1>0, <1>1, <1>4, <1>6 DEF LastIsListed, Base, TokensOK
    <2>7. LastIsRefreshed(s)'
      BY <1>10, <2>1 DEF LastIsRefreshed
    <2> QED
      BY <2>4, <2>5, <2>6, <2>7 DEF OneToken
  <1>14. ASSUME faults = 0, NEW t \in Pairs, root[t] = t, t \notin crossed, t # s
         PROVE  OneToken(t)'
    <2>1. /\ OneToken(t) /\ latest[t] \in Pairs /\ root[latest[t]] = t /\ latest'[t] = latest[t]
          /\ latest[t] # o
      <3>1. issued[t] # None
        BY <1>0, <1>14 DEF Base, TokensOK, Lives, NoneAssumption
      <3> QED
        BY <1>0, <1>5, <1>6, <1>14, <3>1 DEF SInv, EachHasOne, Base, TokensOK
    <2>2. OnlyLast(t)'
      <3>1. ASSUME NEW u \in active', root'[u] = t
            PROVE  u = latest[t] \/ \E q \in Requests : Adds(q)' /\ req'[q].new = u
        <4>1. u \in active /\ root[u] = t /\ u # n
          BY <1>1, <1>5, <1>6, <1>14, <3>1
        <4>2. u = latest[t] \/ \E q \in Requests : Adds(q) /\ req[q].new = u
          BY <2>1, <4>1 DEF OneToken, OnlyLast
        <4> QED
          BY <1>4, <1>9, <4>1, <4>2
      <3> QED
        BY <2>1, <3>1 DEF OnlyLast
    <2>3. LastIsActive(t)'
      BY <1>1, <1>6, <2>1 DEF OneToken, LastIsActive
    <2>4. LastIsListed(t)'
      BY <1>1, <1>3, <1>9, <2>1 DEF OneToken, LastIsListed
    <2>5. LastIsRefreshed(t)'
      <3>1. ASSUME NEW q \in Requests, IsOf(q, t)'
            PROVE  /\ req'[q].op = "refresh" /\ req'[q].step \in Passed =>
                          req'[q].old = latest'[t] /\ req'[q].old \notin loggedOut'
                   /\ Adds(q)' => req'[q].new \in active'
        <4>1. q # r /\ IsOf(q, t) /\ req'[q] = req[q] /\ (Adds(q)' <=> Adds(q))
          BY <1>9, <1>10, <3>1
        <4>2. Adds(q) => req[q].new \in active /\ req[q].new # o
          BY <1>9, <2>1, <4>1 DEF OneToken, LastIsRefreshed
        <4> QED
          BY <1>1, <1>6, <2>1, <4>1, <4>2 DEF OneToken, LastIsRefreshed
      <3> QED
        BY <3>1 DEF LastIsRefreshed
    <2> QED
      BY <2>2, <2>3, <2>4, <2>5 DEF OneToken
  <1> QED
    BY <1>1, <1>11, <1>13, <1>14 DEF SInv, EachHasOne

(* The end of a logout.                                                    *)
LEMMA SessionByDeactivate ==
  ASSUME Lives, IInv, SInv, NEW r \in Requests, Deactivate(r)
  PROVE  SInv'
  <1>0. Shape /\ Base /\ RequestOK(r)
    BY DEF IInv, SInv, Base
  <1>1. /\ issued' = issued /\ blacklist' = blacklist /\ root' = root /\ latest' = latest
        /\ given' = given /\ crossed' = crossed /\ clock' = clock /\ faults' = faults
        /\ req[r].step = "deactivate" /\ Leaves(r)
    BY DEF Deactivate, claims
  <1>2. PICK o \in given : req[r].old = o /\ o # None
    BY <1>0, <1>1 DEF RequestOK
  <1>3. active' = active \ {o} /\ loggedOut' = loggedOut \cup {o}
    BY <1>2 DEF Deactivate
  <1>4. /\ Moves(r) /\ req'[r].step = "idle" /\ req'[r].op = "none" /\ req'[r].old = None
        /\ ~Adds(r)' /\ ~Adds(r) /\ RequestOK(r)'
    <2>1. Moves(r) /\ req'[r].step = "idle" /\ req'[r].op = "none" /\ req'[r].old = None
      BY <1>0, <1>1, LeavesTo
    <2> QED
      BY <1>1, <2>1 DEF Adds, RequestOK
  <1>5. Base'
    <2>1. loggedOut' \subseteq given
      BY <1>0, <1>3 DEF Base, TokensOK
    <2>2. active' \subseteq active
      BY <1>3
    <2> QED
      BY <1>0, <1>1, <1>4, <2>1, <2>2, BaseKeeps
  <1>6. ASSUME NEW q \in Requests, NEW t \in Pairs, IsOf(q, t)'
        PROVE  q # r /\ IsOf(q, t) /\ req'[q] = req[q] /\ (Adds(q)' <=> Adds(q))
    BY <1>1, <1>4, <1>6 DEF IsOf, Adds, Moves
  <1>7. ASSUME faults = 0, NEW t \in Pairs, root[t] = t, t \notin crossed PROVE OneToken(t)'
    <2>1. OneToken(t)
      BY <1>7 DEF SInv, EachHasOne
    <2>2. OnlyLast(t)'
      BY <1>1, <1>3, <1>4, <2>1 DEF OneToken, OnlyLast, Adds, Moves
    <2>3. LastIsActive(t)'
      BY <1>1, <1>3, <2>1 DEF OneToken, LastIsActive
    <2>4. LastIsListed(t)'
      BY <1>1, <1>2, <1>3, <1>4, <2>1 DEF OneToken, LastIsListed, Moves
    <2>5. LastIsRefreshed(t)'
      <3>1. ASSUME NEW q \in Requests, IsOf(q, t)'
            PROVE  /\ req'[q].op = "refresh" /\ req'[q].step \in Passed =>
                          req'[q].old = latest'[t] /\ req'[q].old \notin loggedOut'
                   /\ Adds(q)' => req'[q].new \in active'
        <4>1. q # r /\ IsOf(q, t) /\ req'[q] = req[q] /\ (Adds(q)' <=> Adds(q))
          BY <1>6, <3>1
        <4>2. req[q].old # o
          BY <1>0, <1>2, <1>7, <4>1 DEF Base, OldApart, IsOf
        <4>3. Adds(q) => req[q].new # o
          BY <1>0, <1>2 DEF Base, RequestOK
        <4> QED
          BY <1>1, <1>3, <2>1, <4>1, <4>2, <4>3 DEF OneToken, LastIsRefreshed
      <3> QED
        BY <3>1 DEF LastIsRefreshed
    <2> QED
      BY <2>2, <2>3, <2>4, <2>5 DEF OneToken
  <1> QED
    BY <1>1, <1>5, <1>7 DEF SInv, EachHasOne

(* A request begins on a token; if it is not the only one of its session,  *)
(* the session is crossed from then on.                                    *)
LEMMA SessionByBegin ==
  ASSUME Lives, IInv, SInv, NEW r \in Requests, NEW t \in Pairs,
         RefreshBegins(r, t) \/ LogoutBegins(r, t)
  PROVE  SInv'
  <1>0. Shape /\ Base
    BY DEF IInv, SInv
  <1>1. /\ issued' = issued /\ blacklist' = blacklist /\ root' = root /\ latest' = latest
        /\ given' = given /\ clock' = clock /\ faults' = faults /\ active' = active
        /\ loggedOut' = loggedOut /\ t \in given /\ Crosses(t) /\ req[r] = Idle
    BY DEF RefreshBegins, LogoutBegins, Begins, Crosses, store, claims, marks
  <1>2. PICK h : /\ req' = [req EXCEPT ![r] = h] /\ h.old = t
                 /\ \/ h.op = "refresh" /\ h.step = "revoked"
                    \/ h.op = "logout" /\ h.step = "deny"
    <2>1. CASE RefreshBegins(r, t)
      <3> DEFINE h == [Idle EXCEPT !.op = "refresh", !.step = "revoked",
                                   !.old = t, !.since = changedAt]
      <3>1. h.old = t /\ h.op = "refresh" /\ h.step = "revoked"
        BY DEF Idle
      <3>2. req' = [req EXCEPT ![r] = h]
        BY <2>1 DEF RefreshBegins, Begins
      <3> HIDE DEF h
      <3> QED
        BY <3>1, <3>2
    <2>2. CASE LogoutBegins(r, t)
      <3> DEFINE h == [Idle EXCEPT !.op = "logout", !.step = "deny", !.old = t]
      <3>1. h.old = t /\ h.op = "logout" /\ h.step = "deny"
        BY DEF Idle
      <3>2. req' = [req EXCEPT ![r] = h]
        BY <2>2 DEF LogoutBegins, Begins
      <3> HIDE DEF h
      <3> QED
        BY <3>1, <3>2
    <2> QED
      BY <2>1, <2>2
  <1>3. Moves(r) /\ req'[r] = h
    BY <1>0, <1>2 DEF Moves, Shape
  <1>4. req[r].old = None /\ ~Adds(r) /\ ~Adds(r)' /\ req'[r].step \notin Passed
    BY <1>1, <1>2, <1>3 DEF Idle, Adds, Passed
  <1>5. /\ crossed \subseteq crossed'
        /\ (\E q \in Requests : req[q].old # None /\ root[req[q].old] = root[t]) =>
              root[t] \in crossed'
    BY <1>1 DEF Crosses
  <1>6. TokensOK' /\ t # None
    <2>1. TokensOK'
      BY <1>0, <1>1 DEF Base, TokensOK
    <2> QED
      BY <2>1 DEF Lives, NoneAssumption
  <1>7. ASSUME NEW q \in Requests PROVE RequestOK(q)'
    <2>1. CASE q = r
      BY <1>1, <1>2, <1>3, <1>4, <1>6, <2>1 DEF RequestOK, Adds
    <2>2. CASE q # r
      BY <1>0, <1>1, <1>3, <2>2 DEF Base, RequestOK, Adds, Moves
    <2> QED
      BY <2>1, <2>2
  <1>8. NewApart'
    BY <1>0, <1>3, <1>4 DEF Base, NewApart, Adds, Moves
  <1>9. ASSUME NEW q \in Requests, q # r PROVE req'[q] = req[q]
    BY <1>3, <1>9 DEF Moves
  <1>10. OldApart'
    <2>1. ASSUME NEW p \in Requests, NEW q \in Requests, NEW s \in Pairs, p # q,
                 IsOf(p, s)', IsOf(q, s)'
          PROVE  s \in crossed'
      <3>1. CASE p # r /\ q # r
        BY <1>0, <1>1, <1>5, <1>9, <2>1, <3>1 DEF Base, OldApart, IsOf
      <3>2. CASE p = r \/ q = r
        <4>1. PICK o \in {p, q} : o # r
          BY <2>1
        <4>2. req[o].old # None /\ root[req[o].old] = s
          BY <1>1, <1>9, <2>1, <4>1 DEF IsOf
        <4>3. root[t] = s
          BY <1>1, <1>2, <1>3, <2>1, <3>2 DEF IsOf
        <4> QED
          BY <1>5, <2>1, <4>2, <4>3
      <3> QED
        BY <3>1, <3>2
    <2> QED
      BY <2>1 DEF OldApart
  <1>11. ASSUME faults = 0, NEW s \in Pairs, root[s] = s, s \notin crossed' PROVE OneToken(s)'
    <2>1. OneToken(s)
      BY <1>5, <1>11 DEF SInv, EachHasOne
    <2>2. OnlyLast(s)'
      BY <1>1, <1>4, <1>9, <2>1 DEF OneToken, OnlyLast, Adds
    <2>3. LastIsActive(s)'
      BY <1>1, <2>1 DEF OneToken, LastIsActive
    <2>4. LastIsListed(s)'
      BY <1>1, <1>9, <2>1 DEF OneToken, LastIsListed, Idle
    <2>5. LastIsRefreshed(s)'
      BY <1>1, <1>4, <1>9, <2>1 DEF OneToken, LastIsRefreshed, IsOf, Adds
    <2> QED
      BY <2>2, <2>3, <2>4, <2>5 DEF OneToken
  <1> QED
    BY <1>1, <1>6, <1>7, <1>8, <1>10, <1>11 DEF SInv, Base, EachHasOne

(* A failure, a crash, and what becomes of a refresh that failed.          *)
LEMMA SessionByFailure ==
  ASSUME IInv, SInv, Crash \/ \E r \in Requests : CallFails(r) \/ RollBack(r)
  PROVE  SInv'
  <1>0. Shape /\ Base /\ faults \in Nat
    BY DEF IInv, SInv
  <1>1. CASE Crash
    <2>1. /\ UNCHANGED <<issued, active, given, loggedOut, blacklist, root, latest, crossed>>
          /\ faults' = faults + 1 /\ \A r \in Requests : req'[r] = Idle
      BY <1>1 DEF Crash, store, claims, marks, history
    <2>2. TokensOK'
      BY <1>0, <2>1 DEF Base, TokensOK
    <2>3. \A r \in Requests : RequestOK(r)' /\ ~Adds(r)' /\ req'[r].old = None
      BY <2>1 DEF RequestOK, Adds, Idle
    <2> QED
      BY <1>0, <2>1, <2>2, <2>3 DEF SInv, Base, NewApart, OldApart, IsOf
  <1>2. ASSUME NEW r \in Requests, CallFails(r) \/ RollBack(r) PROVE SInv'
    <2>1. /\ UNCHANGED <<issued, given, loggedOut, blacklist, root, latest, crossed>>
          /\ active' \subseteq active /\ faults' \in Nat /\ faults' # 0
          /\ Leaves(r) \/ Goes(r, "unregister") \/ Goes(r, "rollback")
      <3>1. CASE CallFails(r)
        <4>1. Leaves(r) \/ Goes(r, "unregister") \/ Goes(r, "rollback")
          BY <3>1 DEF CallFails, AfterFailure
        <4> QED
          BY <1>0, <3>1, <4>1 DEF CallFails, store, claims, marks, history
      <3>2. CASE RollBack(r)
        <4>1. faults # 0
          BY <1>0, <3>2 DEF RollBack, Base, RequestOK
        <4> QED
          BY <1>0, <3>2, <4>1 DEF RollBack, claims, history
      <3> QED
        BY <1>2, <3>1, <3>2
    <2>2. /\ Moves(r) /\ ~Adds(r)'
          /\ RequestOK(r)' /\ (req'[r].old # None => req'[r].old = req[r].old)
      <3>1. CASE Leaves(r)
        BY <1>0, <3>1, LeavesTo DEF RequestOK, Adds
      <3>2. ASSUME NEW s \in {"unregister", "rollback"}, Goes(r, s)
            PROVE  /\ Moves(r) /\ ~Adds(r)'
                   /\ RequestOK(r)' /\ (req'[r].old # None => req'[r].old = req[r].old)
        <4>1. Moves(r) /\ req'[r].step = s /\ req'[r].op = req[r].op /\ req'[r].old = req[r].old
          BY <1>0, <3>2, GoesTo DEF Step
        <4> QED
          BY <1>0, <2>1, <4>1 DEF Base, RequestOK, Adds
      <3> QED
        BY <2>1, <3>1, <3>2
    <2>3. Base'
      BY <1>0, <2>1, <2>2, BaseKeeps DEF Base, TokensOK
    <2> QED
      BY <2>1, <2>3 DEF SInv
  <1> QED
    BY <1>1, <1>2

(* Nothing moves but one-time codes, or the clock.                         *)
LEMMA SessionByTime ==
  ASSUME IInv, SInv,
         \/ Tick \/ FailsExpire \/ UNCHANGED vars
         \/ \E p \in Purposes : SendOTP(p) \/ OTPExpires(p)
  PROVE  SInv'
  <1>1. /\ issued' = issued /\ blacklist' = blacklist /\ root' = root /\ latest' = latest
        /\ given' = given /\ crossed' = crossed /\ faults' = faults /\ active' = active
        /\ loggedOut' = loggedOut /\ req' = req
    BY DEF Tick, FailsExpire, SendOTP, OTPExpires, vars, store, claims, marks, history
  <1>2. clock \in Nat /\ (clock' = clock \/ clock' = clock + 1)
    BY DEF IInv, Shape, Tick, FailsExpire, SendOTP, OTPExpires, vars
  <1>3. Base'
    BY <1>1 DEF SInv, Base, TokensOK, RequestOK, NewApart, OldApart, IsOf, Adds
  <1>4. ASSUME faults = 0, NEW t \in Pairs, root[t] = t, t \notin crossed PROVE OneToken(t)'
    <2>1. OneToken(t)
      BY <1>4 DEF SInv, EachHasOne
    <2>2. OnlyLast(t)' /\ LastIsActive(t)' /\ LastIsRefreshed(t)'
      BY <1>1, <2>1 DEF OneToken, OnlyLast, LastIsActive, LastIsRefreshed, IsOf, Adds
    <2>3. LastIsListed(t)'
      <3>1. blacklist[latest[t]] > clock' => blacklist[latest[t]] > clock
        <4>1. latest[t] \in Pairs /\ blacklist[latest[t]] \in Nat
          BY <1>4 DEF SInv, Base, TokensOK
        <4> QED
          BY <1>2, <4>1
      <3> QED
        BY <1>1, <2>1, <3>1 DEF OneToken, LastIsListed
    <2> QED
      BY <2>2, <2>3 DEF OneToken
  <1> QED
    BY <1>1, <1>3, <1>4 DEF SInv, EachHasOne

LEMMA SessionStep ==
  ASSUME Lives, IInv, SInv, [Next]_vars
  PROVE  SInv'
  <1>1. CASE \E r \in Requests :
                RegisterInserts(r) \/ LoginReads(r) \/ GoogleFinds(r) \/ ChangeBegins(r)
                \/ ResetBegins(r)
    BY <1>1, SessionByWays
  <1>2. CASE \E r \in Requests :
                \/ CheckRevoked(r) \/ Unregister(r) \/ Deny(r) \/ WrongCode(r) \/ Penalty(r)
                \/ RightCode(r) \/ SpendCode(r) \/ UpdatePassword(r)
    BY <1>2, SessionByStep
  <1>3. CASE \E r \in Requests : CheckActive(r) \/ RevokeSessions(r)
    BY <1>3, SessionByCheck, SessionByRevoke
  <1>4. CASE \E r \in Requests : BlacklistOld(r) \/ BlacklistRefresh(r)
    BY <1>4, SessionByBlacklist, SessionByStep
  <1>5. CASE \E r \in Requests : RetireOld(r) \/ Deactivate(r)
    BY <1>5, SessionByRetire, SessionByDeactivate
  <1>6. CASE \E r \in Requests : \E t \in Pairs :
                RefreshBegins(r, t) \/ StoreToken(r, t) \/ LogoutBegins(r, t)
    BY <1>6, SessionByBegin, SessionByStoreNext, SessionByStoreFirst
  <1>7. CASE Crash \/ \E r \in Requests : CallFails(r) \/ RollBack(r)
    BY <1>7, SessionByFailure
  <1>8. CASE \/ Tick \/ FailsExpire \/ UNCHANGED vars
             \/ \E p \in Purposes : SendOTP(p) \/ OTPExpires(p)
    BY <1>8, SessionByTime
  <1> QED
    BY <1>1, <1>2, <1>3, <1>4, <1>5, <1>6, <1>7, <1>8 DEF Next

(* In a quiet session what works is the last token, and it does until the  *)
(* session is over.                                                        *)
LEMMA SessionSafe == ASSUME Lives, IInv, SInv PROVE SessionHasOneToken
  <1> SUFFICES ASSUME NEW t \in Pairs, root[t] = t, faults = 0, t \notin crossed, Quiet(t)
               PROVE  {u \in Session(t) : Usable(u)} =
                          IF ~Verified(latest[t]) \/ latest[t] \in loggedOut \/ Revoked(latest[t])
                          THEN {} ELSE {latest[t]}
    BY DEF SessionHasOneToken
  <1>1. issued[t] # None
    BY DEF SInv, Base, TokensOK, Lives, NoneAssumption
  <1>2. latest[t] \in Pairs /\ root[latest[t]] = t /\ OneToken(t)
    BY <1>1 DEF SInv, Base, TokensOK, EachHasOne
  <1>3. \A r \in Requests : ~IsOf(r, t)
    BY DEF Quiet, IsOf
  <1>4. ASSUME NEW u \in Session(t), Usable(u) PROVE u = latest[t]
    <2>1. u \in active /\ root[u] = t
      BY <1>4 DEF Usable, Session
    <2>2. ASSUME NEW r \in Requests, Adds(r), req[r].new = u PROVE FALSE
      <3>1. req[r].old # None /\ root[req[r].old] = t
        BY <2>1, <2>2 DEF SInv, Base, RequestOK, Adds
      <3> QED
        BY <1>3, <3>1 DEF IsOf
    <2> QED
      BY <1>2, <2>1, <2>2 DEF OneToken, OnlyLast
  <1>5. latest[t] \in loggedOut => ~Usable(latest[t])
    BY <1>2 DEF OneToken, LastIsActive, Usable
  <1>6. ASSUME latest[t] \notin loggedOut PROVE latest[t] \in active /\ blacklist[latest[t]] <= clock
    <2>1. \A r \in Requests : req[r].old # latest[t]
      BY <1>2, <1>3 DEF IsOf, Lives, NoneAssumption
    <2>2. ~(blacklist[latest[t]] > clock)
      BY <1>2, <1>6, <2>1 DEF OneToken, LastIsListed
    <2>3. blacklist[latest[t]] \in Nat /\ clock \in Nat
      BY <1>2 DEF SInv, Base, TokensOK, IInv, Shape
    <2> QED
      BY <1>2, <1>6, <2>2, <2>3 DEF OneToken, LastIsActive
  <1>7. latest[t] \in Session(t)
    BY <1>2 DEF Session
  <1>8. CASE ~Verified(latest[t]) \/ latest[t] \in loggedOut \/ Revoked(latest[t])
    <2>1. ~Usable(latest[t])
      BY <1>5, <1>8 DEF Usable
    <2> QED
      BY <1>4, <1>8, <2>1
  <1>9. CASE ~(~Verified(latest[t]) \/ latest[t] \in loggedOut \/ Revoked(latest[t]))
    <2>1. Usable(latest[t])
      BY <1>6, <1>9 DEF Usable
    <2> QED
      BY <1>4, <1>7, <1>9, <2>1
  <1> QED
    BY <1>8, <1>9

-----------------------------------------------------------------------------
(* The types.  IInv and SInv have those of the tokens and of what a        *)
(* request holds; what is left are the bounds, of which one is no bound of *)
(* the model: every request at the code may still be wrong.                *)

Bounded == Lives /\ BoundAssumption

Coding == {r \in Requests : req[r].step = "code"}
FailsInv == fails + Cardinality(Coding) <= MaxFails + Cardinality(Requests)
TypeInv == TypeOK /\ FailsInv

LEMMA RequestsCount ==
  ASSUME BoundAssumption
  PROVE  /\ IsFiniteSet(Requests) /\ Cardinality(Requests) \in Nat
         /\ IsFiniteSet(Coding) /\ Cardinality(Coding) \in Nat
         /\ IsFiniteSet(Coding') /\ Cardinality(Coding') \in Nat
         /\ Cardinality(Coding') <= Cardinality(Requests)
  <1>1. IsFiniteSet(Requests) /\ Coding \subseteq Requests /\ Coding' \subseteq Requests
    BY DEF BoundAssumption, Coding
  <1> QED
    BY <1>1, FS_Subset, FS_CardinalityType

LEMMA IdleIsHandler == Idle \in Handler /\ Idle.step = "idle"
  BY DEF Idle, Handler

LEMMA TypeInit == ASSUME Bounded, Init PROVE TypeInv
  <1>1. req \in [Requests -> Handler]
    BY IdleIsHandler DEF Init
  <1>2. Coding = {}
    BY IdleIsHandler DEF Init, Coding
  <1>3. Cardinality(Coding) = 0 /\ Cardinality(Requests) \in Nat
    BY <1>2, FS_EmptySet, RequestsCount DEF Bounded
  <1>4. /\ 0 \in Moments /\ 0 \in Ends /\ 0 \in 0..MaxCodes /\ 0 \in 0..MaxRequests
        /\ 0 \in 0..MaxFaults /\ 0 \in 0..(MaxFails + Cardinality(Requests))
    BY <1>3 DEF Moments, Ends, Bounded, Lives, LifeAssumption, BoundAssumption
  <1>5. FailsInv
    BY <1>3 DEF FailsInv, Init, Bounded, BoundAssumption
  <1>6. TypeOK
    BY <1>1, <1>4 DEF TypeOK, Init
  <1> QED
    BY <1>5, <1>6 DEF TypeInv

(* What a step does to the requests and to the counter of wrong codes.     *)
LEMMA FewerWrong ==
  ASSUME Bounded, TypeInv, fails' = fails \/ fails' = 0, Coding' \subseteq Coding
  PROVE  FailsInv' /\ fails' \in 0..(MaxFails + Cardinality(Requests))
  <1>1. Cardinality(Coding') <= Cardinality(Coding)
    BY RequestsCount, FS_Subset DEF Bounded
  <1> QED
    BY <1>1, RequestsCount DEF Bounded, BoundAssumption, TypeInv, TypeOK, FailsInv

LEMMA HandlerMoves ==
  ASSUME TypeInv, NEW r \in Requests, NEW s \in Step, s # "code", Goes(r, s) \/ Leaves(r)
  PROVE  req' \in [Requests -> Handler] /\ begun' \in 0..MaxRequests /\ Coding' \subseteq Coding
  <1>1. req \in [Requests -> Handler] /\ begun \in 0..MaxRequests
    BY DEF TypeInv, TypeOK
  <1>2. CASE Goes(r, s)
    <2> DEFINE g == [req[r] EXCEPT !.step = s]
    <2>1. g \in Handler /\ g.step = s
      BY <1>1 DEF Handler, Step
    <2>2. req' = [req EXCEPT ![r] = g] /\ UNCHANGED begun
      BY <1>2 DEF Goes
    <2> HIDE DEF g
    <2> QED
      BY <1>1, <2>1, <2>2 DEF Coding
  <1>3. CASE Leaves(r)
    BY <1>1, <1>3, IdleIsHandler DEF Leaves, Coding
  <1> QED
    BY <1>2, <1>3

LEMMA HandlerBegins ==
  ASSUME Bounded, TypeInv, NEW r \in Requests, NEW g \in Handler, Begins(r, g)
  PROVE  /\ req' \in [Requests -> Handler] /\ begun' \in 0..MaxRequests
         /\ g.step # "code" => Coding' \subseteq Coding
  BY DEF Begins, Bounded, BoundAssumption, TypeInv, TypeOK, Coding

(* A step that writes nothing with a bound, but for where a request is.    *)
LEMMA TypesKeep ==
  ASSUME Bounded, TypeInv, SInv',
         req' \in [Requests -> Handler], begun' \in 0..MaxRequests, Coding' \subseteq Coding,
         account' \in {"none", "password", "google", "both"},
         code' \subseteq Purposes, codes' \in 0..MaxCodes, fails' = fails \/ fails' = 0,
         failsEnd' \in BOOLEAN, clock' \in Moments, faults' \in 0..MaxFaults,
         changedAt' \in Moments \cup {None}, crossed' \subseteq Pairs,
         issued' \in [Pairs -> Moments \cup {None}],
         life' \in [Pairs -> {0, ShortLife, LongLife}],
         blacklist' \in [Pairs -> Ends], denied' \in [Pairs -> Ends],
         revokeBefore' \in [at : Moments, until : Ends] \cup {None}
  PROVE  TypeInv'
  <1>1. /\ active' \subseteq Pairs /\ given' \subseteq Pairs /\ loggedOut' \subseteq Pairs
        /\ root' \in [Pairs -> Pairs \cup {None}] /\ latest' \in [Pairs -> Pairs \cup {None}]
    BY DEF SInv, Base, TokensOK
  <1>2. FailsInv' /\ fails' \in 0..(MaxFails + Cardinality(Requests))
    BY FewerWrong
  <1> QED
    BY <1>1, <1>2 DEF TypeInv, TypeOK

(* Requests that write nothing with a bound.                               *)
LEMMA TypesByFrame ==
  ASSUME Bounded, TypeInv, SInv',
         req' \in [Requests -> Handler], begun' \in 0..MaxRequests, Coding' \subseteq Coding,
         UNCHANGED <<account, claims, blacklist, denied, revokeBefore, codeVars, clock, faults,
                     changedAt, crossed>>
  PROVE  TypeInv'
  BY TypesKeep DEF TypeInv, TypeOK, claims, codeVars

LEMMA TypesByStep ==
  ASSUME Bounded, TypeInv, SInv', NEW r \in Requests,
         \/ CheckRevoked(r) \/ CheckActive(r) \/ RetireOld(r) \/ RollBack(r) \/ Deactivate(r)
  PROVE  TypeInv'
  <1>1. /\ req' \in [Requests -> Handler] /\ begun' \in 0..MaxRequests /\ Coding' \subseteq Coding
    BY HandlerMoves DEF CheckRevoked, CheckActive, RetireOld, RollBack, Deactivate, Step
  <1>2. UNCHANGED <<account, claims, blacklist, denied, revokeBefore, codeVars, clock, faults,
                    changedAt, crossed>>
    BY DEF CheckRevoked, CheckActive, RetireOld, RollBack, Deactivate, store, marks, history
  <1> QED
    BY <1>1, <1>2, TypesByFrame

LEMMA TypesByAccount ==
  ASSUME Bounded, TypeInv, SInv', NEW r \in Requests,
         \/ RegisterInserts(r) \/ LoginReads(r) \/ GoogleFinds(r) \/ Unregister(r)
         \/ UpdatePassword(r)
  PROVE  TypeInv'
  <1>1. UNCHANGED <<claims, blacklist, denied, revokeBefore, codeVars, clock, faults,
                    changedAt, crossed>>
    BY DEF RegisterInserts, LoginReads, GoogleFinds, Enters, Unregister, UpdatePassword, marks, history
  <1>2. account' \in {"none", "password", "google", "both"}
    BY DEF RegisterInserts, LoginReads, GoogleFinds, Enters, Unregister, UpdatePassword, TypeInv, TypeOK
  <1>3. /\ req' \in [Requests -> Handler] /\ begun' \in 0..MaxRequests /\ Coding' \subseteq Coding
    <2>1. CASE Unregister(r) \/ UpdatePassword(r)
      BY <2>1, HandlerMoves DEF Unregister, UpdatePassword, Step
    <2>2. CASE RegisterInserts(r) \/ LoginReads(r) \/ GoogleFinds(r)
      <3>1. PICK op \in {"register", "login", "google"}, created \in BOOLEAN :
              Enters(r, op, created)
        BY <2>2 DEF RegisterInserts, LoginReads, GoogleFinds
      <3> DEFINE g == [Idle EXCEPT !.op = op, !.step = "store", !.created = created]
      <3>2. g \in Handler /\ g.step = "store"
        BY DEF Handler, Idle
      <3>3. Begins(r, g)
        BY <3>1 DEF Enters
      <3> HIDE DEF g
      <3> QED
        BY <3>2, <3>3, HandlerBegins
    <2> QED
      BY <2>1, <2>2
  <1> QED
    BY <1>1, <1>2, <1>3, TypesKeep DEF TypeInv, TypeOK, claims, codeVars

LEMMA TypesByBegin ==
  ASSUME Bounded, TypeInv, IInv, SInv, SInv', NEW r \in Requests, NEW t \in Pairs,
         RefreshBegins(r, t) \/ LogoutBegins(r, t)
  PROVE  TypeInv'
  <1>1. t \in given /\ root[t] \in Pairs
    BY DEF RefreshBegins, LogoutBegins, SInv, Base, TokensOK
  <1>2. crossed' \subseteq Pairs
    BY <1>1 DEF RefreshBegins, LogoutBegins, Crosses, TypeInv, TypeOK
  <1>3. PICK g \in Handler : Begins(r, g) /\ g.step # "code"
    <2>1. CASE RefreshBegins(r, t)
      <3> DEFINE g == [Idle EXCEPT !.op = "refresh", !.step = "revoked", !.old = t,
                                   !.since = changedAt]
      <3>1. g \in Handler /\ g.step = "revoked"
        BY DEF Handler, Idle, TypeInv, TypeOK
      <3> QED
        BY <2>1, <3>1 DEF RefreshBegins
    <2>2. CASE LogoutBegins(r, t)
      <3> DEFINE g == [Idle EXCEPT !.op = "logout", !.step = "deny", !.old = t]
      <3>1. g \in Handler /\ g.step = "deny"
        BY DEF Handler, Idle
      <3> QED
        BY <2>2, <3>1 DEF LogoutBegins
    <2> QED
      BY <2>1, <2>2
  <1>4. UNCHANGED <<account, claims, blacklist, denied, revokeBefore, codeVars, clock, faults, changedAt>>
    BY DEF RefreshBegins, LogoutBegins, Crosses, store, marks
  <1> QED
    BY <1>2, <1>3, <1>4, HandlerBegins, TypesKeep DEF TypeInv, TypeOK, claims, codeVars

LEMMA TypesByStore ==
  ASSUME Bounded, TypeInv, IInv, SInv, SInv', NEW r \in Requests, NEW t \in Pairs, StoreToken(r, t)
  PROVE  TypeInv'
  <1>1. issued' \in [Pairs -> Moments \cup {None}]
    BY DEF StoreToken, TypeInv, TypeOK
  <1>2. life' \in [Pairs -> {0, ShortLife, LongLife}]
    <2>1. req[r].op \in {"refresh", "register", "login", "google"}
      BY DEF StoreToken, IInv, Enterer
    <2>2. req[r].op = "refresh" => req[r].old \in Pairs
      BY DEF IInv, RefreshOK
    <2>3. LivesFor(r) \subseteq {0, ShortLife, LongLife}
      BY <2>1, <2>2 DEF LivesFor, TypeInv, TypeOK
    <2> QED
      BY <2>3 DEF StoreToken, TypeInv, TypeOK
  <1>3. /\ req' \in [Requests -> Handler] /\ begun' \in 0..MaxRequests /\ Coding' \subseteq Coding
    <2>1. CASE req[r].op = "refresh"
      <3> DEFINE g == [req[r] EXCEPT !.step = "blacklist", !.new = t]
      <3>1. g \in Handler /\ g.step = "blacklist"
        BY DEF Handler, TypeInv, TypeOK
      <3>2. req' = [req EXCEPT ![r] = g] /\ UNCHANGED begun
        BY <2>1 DEF StoreToken, TypeInv, TypeOK
      <3> HIDE DEF g
      <3> QED
        BY <3>1, <3>2 DEF Coding, TypeInv, TypeOK
    <2>2. CASE req[r].op # "refresh"
      BY <2>2, HandlerMoves DEF StoreToken, Step
    <2> QED
      BY <2>1, <2>2
  <1>4. UNCHANGED <<account, blacklist, denied, revokeBefore, codeVars, clock, faults, changedAt, crossed>>
    BY DEF StoreToken
  <1> QED
    BY <1>1, <1>2, <1>3, <1>4, TypesKeep DEF TypeInv, TypeOK, codeVars

(* Every lifetime ends within LongLife of now, or one moment later.        *)
LEMMA EndsAre ==
  ASSUME Bounded, TypeInv, NEW t \in Pairs, issued[t] # None
  PROVE  Expires(t) \in Ends /\ Expires(t) + 1 \in Ends /\ issued[t] + AccessLife + 1 \in Ends
  BY DEF Expires, Ends, Moments, TypeInv, TypeOK, Bounded, Lives, LifeAssumption, BoundAssumption

LEMMA TypesByList ==
  ASSUME Bounded, TypeInv, IInv, SInv, SInv', NEW r \in Requests,
         BlacklistOld(r) \/ Deny(r) \/ BlacklistRefresh(r)
  PROVE  TypeInv'
  <1> DEFINE t == req[r].old
  <1>1. t \in Pairs /\ issued[t] # None
    BY DEF BlacklistOld, Deny, BlacklistRefresh, SInv, Base, TokensOK, RequestOK
  <1>2. /\ req' \in [Requests -> Handler] /\ begun' \in 0..MaxRequests /\ Coding' \subseteq Coding
    BY HandlerMoves DEF BlacklistOld, Deny, BlacklistRefresh, Step
  <1>3. blacklist' \in [Pairs -> Ends] /\ denied' \in [Pairs -> Ends]
    BY <1>1, EndsAre DEF BlacklistOld, Deny, BlacklistRefresh, BlacklistUntil, TypeInv, TypeOK
  <1>4. UNCHANGED <<account, claims, revokeBefore, codeVars, clock, faults, changedAt, crossed>>
    BY DEF BlacklistOld, Deny, BlacklistRefresh, history
  <1> QED
    BY <1>2, <1>3, <1>4, TypesKeep DEF TypeInv, TypeOK, claims, codeVars

LEMMA TypesByCode ==
  ASSUME Bounded, TypeInv, SInv', NEW r \in Requests,
         ChangeBegins(r) \/ Penalty(r) \/ RightCode(r) \/ SpendCode(r)
  PROVE  TypeInv'
  <1>1. /\ req' \in [Requests -> Handler] /\ begun' \in 0..MaxRequests /\ Coding' \subseteq Coding
    <2>1. CASE ChangeBegins(r)
      <3> DEFINE g == [Idle EXCEPT !.op = "change", !.step = "spend"]
      <3>1. g \in Handler /\ g.step = "spend"
        BY DEF Handler, Idle
      <3>2. Begins(r, g)
        BY <2>1 DEF ChangeBegins
      <3> HIDE DEF g
      <3> QED
        BY <3>1, <3>2, HandlerBegins
    <2>2. CASE Penalty(r) \/ RightCode(r) \/ SpendCode(r)
      BY <2>2, HandlerMoves DEF Penalty, RightCode, SpendCode, Step
    <2> QED
      BY <2>1, <2>2
  <1>2. /\ code' \subseteq Purposes /\ codes' \in 0..MaxCodes
        /\ fails' = fails \/ fails' = 0
    BY DEF ChangeBegins, Penalty, RightCode, SpendCode, TypeInv, TypeOK, store, codeVars
  <1>3. failsEnd' \in BOOLEAN
    <2>1. CASE Penalty(r)
      <3>1. failsEnd' = (fails > 0)
        BY <2>1 DEF Penalty
      <3>2. CASE fails > 0
        BY <3>1, <3>2
      <3>3. CASE ~(fails > 0)
        BY <3>1, <3>3
      <3> QED
        BY <3>2, <3>3
    <2>2. CASE RightCode(r)
      BY <2>2 DEF RightCode
    <2>3. CASE ChangeBegins(r) \/ SpendCode(r)
      <3>1. UNCHANGED failsEnd
        BY <2>3 DEF ChangeBegins, SpendCode, store, codeVars
      <3> QED
        BY <3>1 DEF TypeInv, TypeOK
    <2> QED
      BY <2>1, <2>2, <2>3
  <1>4. UNCHANGED <<account, claims, blacklist, denied, revokeBefore, clock, faults, changedAt, crossed>>
    BY DEF ChangeBegins, Penalty, RightCode, SpendCode, store, marks, history
  <1> QED
    BY <1>1, <1>2, <1>3, <1>4, TypesKeep DEF TypeInv, TypeOK, claims

LEMMA TypesByReset ==
  ASSUME Bounded, TypeInv, SInv', NEW r \in Requests, ResetBegins(r)
  PROVE  TypeInv'
  <1> DEFINE g == [Idle EXCEPT !.op = "reset", !.step = "code"]
  <1>1. g \in Handler
    BY DEF Handler, Idle
  <1>2. Begins(r, g)
    BY DEF ResetBegins
  <1> HIDE DEF g
  <1>3. req' \in [Requests -> Handler] /\ begun' \in 0..MaxRequests
    BY <1>1, <1>2, HandlerBegins
  <1>4. FailsInv'
    BY RequestsCount DEF ResetBegins, store, codeVars, FailsInv, TypeInv, TypeOK, Bounded, BoundAssumption
  <1>5. UNCHANGED <<account, claims, marks, codeVars, clock, faults, changedAt, crossed>>
    BY DEF ResetBegins, store, history
  <1>6. TypeOK'
    BY <1>3, <1>5 DEF TypeInv, TypeOK, claims, marks, codeVars, SInv, Base, TokensOK
  <1> QED
    BY <1>4, <1>6 DEF TypeInv

LEMMA TypesByWrong ==
  ASSUME Bounded, TypeInv, SInv', NEW r \in Requests, WrongCode(r)
  PROVE  TypeInv'
  <1>1. /\ req' \in [Requests -> Handler] /\ begun' \in 0..MaxRequests
    BY HandlerMoves DEF WrongCode, Step
  <1>2. r \in Coding /\ Coding' = Coding \ {r}
    <2>1. req \in [Requests -> Handler]
      BY DEF TypeInv, TypeOK
    <2>2. \A q \in Requests \ {r} : req'[q] = req[q]
      BY <2>1 DEF WrongCode, Goes
    <2>3. req'[r].step = "penalty"
      BY <2>1 DEF WrongCode, Goes, Handler
    <2> QED
      BY <2>2, <2>3 DEF Coding, WrongCode
  <1>3. Cardinality(Coding') = Cardinality(Coding) - 1
    BY <1>2, RequestsCount, FS_RemoveElement DEF Bounded
  <1>4. FailsInv' /\ fails' \in 0..(MaxFails + Cardinality(Requests))
    BY <1>3, RequestsCount DEF WrongCode, FailsInv, TypeInv, TypeOK, Bounded, BoundAssumption
  <1>5. UNCHANGED <<account, claims, marks, code, codes, failsEnd, clock, faults, changedAt, crossed>>
    BY DEF WrongCode, history
  <1>6. TypeOK'
    BY <1>1, <1>4, <1>5 DEF TypeInv, TypeOK, claims, marks, SInv, Base, TokensOK
  <1> QED
    BY <1>4, <1>6 DEF TypeInv

LEMMA TypesByRevoke ==
  ASSUME Bounded, TypeInv, SInv', NEW r \in Requests, RevokeSessions(r)
  PROVE  TypeInv'
  <1>1. /\ req' \in [Requests -> Handler] /\ begun' \in 0..MaxRequests /\ Coding' \subseteq Coding
    BY HandlerMoves DEF RevokeSessions, Step
  <1>2. clock \in Moments /\ RevokeUntil \in Ends
    BY DEF RevokeUntil, Moments, Ends, TypeInv, TypeOK, Bounded, Lives, LifeAssumption, BoundAssumption
  <1>3. /\ revokeBefore' \in [at : Moments, until : Ends] \cup {None}
        /\ changedAt' \in Moments \cup {None}
    BY <1>2 DEF RevokeSessions
  <1>4. UNCHANGED <<account, claims, blacklist, denied, codeVars, clock, faults, crossed>>
    BY DEF RevokeSessions
  <1> QED
    BY <1>1, <1>3, <1>4, TypesKeep DEF TypeInv, TypeOK, claims, codeVars

LEMMA TypesByFailure ==
  ASSUME Bounded, TypeInv, SInv', Crash \/ \E r \in Requests : CallFails(r)
  PROVE  TypeInv'
  <1>1. faults' \in 0..MaxFaults
    BY DEF Crash, CallFails, TypeInv, TypeOK, Bounded, BoundAssumption
  <1>2. UNCHANGED <<store, clock, history>>
    BY DEF Crash, CallFails
  <1>3. /\ req' \in [Requests -> Handler] /\ begun' \in 0..MaxRequests /\ Coding' \subseteq Coding
    <2>1. CASE Crash
      BY <2>1, IdleIsHandler DEF Crash, Coding, TypeInv, TypeOK
    <2>2. ASSUME NEW r \in Requests, CallFails(r)
          PROVE  /\ req' \in [Requests -> Handler] /\ begun' \in 0..MaxRequests
                 /\ Coding' \subseteq Coding
      <3>1. AfterFailure(r) \in Step /\ AfterFailure(r) # "code"
        BY DEF AfterFailure, Step
      <3> QED
        BY <2>2, <3>1, HandlerMoves DEF CallFails
    <2> QED
      BY <2>1, <2>2
  <1> QED
    BY <1>1, <1>2, <1>3, TypesKeep DEF TypeInv, TypeOK, store, claims, marks, codeVars, history

LEMMA TypesByTime ==
  ASSUME Bounded, TypeInv, SInv',
         \/ Tick \/ FailsExpire \/ UNCHANGED vars
         \/ \E p \in Purposes : SendOTP(p) \/ OTPExpires(p)
  PROVE  TypeInv'
  <1>1. UNCHANGED <<req, begun, account, claims, marks, faults, changedAt, crossed>>
    BY DEF Tick, FailsExpire, SendOTP, OTPExpires, vars, store, history
  <1>2. Coding' \subseteq Coding
    BY <1>1 DEF Coding
  <1>3. /\ code' \subseteq Purposes /\ codes' \in 0..MaxCodes
        /\ fails' = fails \/ fails' = 0
        /\ clock' \in Moments
    BY DEF Tick, FailsExpire, SendOTP, OTPExpires, vars, store, codeVars, TypeInv, TypeOK,
           Moments, Bounded, BoundAssumption
  <1>4. failsEnd' = FALSE \/ UNCHANGED failsEnd
    BY DEF Tick, FailsExpire, SendOTP, OTPExpires, vars, store, codeVars
  <1> QED
    BY <1>1, <1>2, <1>3, <1>4, TypesKeep DEF TypeInv, TypeOK, claims, marks

LEMMA TypeStep ==
  ASSUME Bounded, TypeInv, IInv, SInv, SInv', [Next]_vars
  PROVE  TypeInv'
  <1>1. CASE \E r \in Requests : CheckRevoked(r) \/ CheckActive(r) \/ RetireOld(r)
                                 \/ RollBack(r) \/ Deactivate(r)
    BY <1>1, TypesByStep
  <1>2. CASE \E r \in Requests : RegisterInserts(r) \/ LoginReads(r) \/ GoogleFinds(r)
                                 \/ Unregister(r) \/ UpdatePassword(r)
    BY <1>2, TypesByAccount
  <1>3. CASE \E r \in Requests : BlacklistOld(r) \/ Deny(r) \/ BlacklistRefresh(r)
    BY <1>3, TypesByList
  <1>4. CASE \E r \in Requests : ChangeBegins(r) \/ Penalty(r) \/ RightCode(r) \/ SpendCode(r)
    BY <1>4, TypesByCode
  <1>5. CASE \E r \in Requests : ResetBegins(r) \/ WrongCode(r) \/ RevokeSessions(r)
    BY <1>5, TypesByReset, TypesByWrong, TypesByRevoke
  <1>6. CASE Crash \/ \E r \in Requests : CallFails(r)
    BY <1>6, TypesByFailure
  <1>7. CASE \E r \in Requests : \E t \in Pairs :
                RefreshBegins(r, t) \/ StoreToken(r, t) \/ LogoutBegins(r, t)
    BY <1>7, TypesByBegin, TypesByStore
  <1>8. CASE \/ Tick \/ FailsExpire \/ UNCHANGED vars
             \/ \E p \in Purposes : SendOTP(p) \/ OTPExpires(p)
    BY <1>8, TypesByTime
  <1> QED
    BY <1>1, <1>2, <1>3, <1>4, <1>5, <1>6, <1>7, <1>8 DEF Next

-----------------------------------------------------------------------------

(* Every variable keeps its type: there are never more wrong codes counted *)
(* than the limit and one for each request, and no mark in Redis outlives  *)
(* the longest token by more than a moment.                                *)
THEOREM AuthTypeCorrect ==
    LifeAssumption /\ BoundAssumption /\ NoneAssumption /\ Spec => []TypeOK
  <1> SUFFICES ASSUME Bounded PROVE Spec => []TypeOK
    BY DEF Bounded, Lives
  <1>1. Init => IInv /\ SInv /\ TypeInv
    BY InitOK, SessionInit, TypeInit DEF Bounded
  <1>2. IInv /\ SInv /\ TypeInv /\ [Next]_vars => (IInv /\ SInv /\ TypeInv)'
    BY NextOK, SessionStep, TypeStep DEF Bounded
  <1>3. TypeInv => TypeOK
    BY DEF TypeInv
  <1> QED
    BY <1>1, <1>2, <1>3, PTL DEF Spec

(* A refresh that began after a change of the password and got past its    *)
(* checks is about a token issued after the change, however long ago the   *)
(* change was and whatever failed or crashed in between (Refresh,          *)
(* ChangePassword, ResetPassword).                                         *)
THEOREM RevokedIsNotRefreshed ==
    LifeAssumption /\ NoneAssumption /\ Spec => []RevokedStaysOut
  <1> SUFFICES ASSUME Lives PROVE Spec => []RevokedStaysOut
    BY DEF Lives
  <1>1. Init => IInv
    BY InitOK
  <1>2. IInv /\ [Next]_vars => IInv'
    BY NextOK
  <1>3. IInv => RevokedStaysOut
    BY DEF IInv, RefreshOK, RevokedStaysOut, Passed
  <1> QED
    BY <1>1, <1>2, <1>3, PTL DEF Spec

(* A lock on the reset of a password ends, whichever of its requests runs  *)
(* at what time, as long as no call fails (ResetPassword).                 *)
THEOREM LockAlwaysEnds ==
    LifeAssumption /\ BoundAssumption /\ NoneAssumption /\ Spec => []LockEnds
  <1> SUFFICES ASSUME Lives, BoundAssumption PROVE Spec => []LockEnds
    BY DEF Lives
  <1>1. Init => IInv /\ LockInv
    BY InitOK, LockInit
  <1>2. IInv /\ LockInv /\ [Next]_vars => (IInv /\ LockInv)'
    BY NextOK, LockStep
  <1>3. LockInv => LockEnds
    BY LockSafe
  <1> QED
    BY <1>1, <1>2, <1>3, PTL DEF Spec

(* Of the tokens of a session exactly the last that was handed out works,  *)
(* until it ends, is logged out or revoked, unless the requests of the     *)
(* session overlap or a call fails (Refresh, Logout).                      *)
THEOREM OneTokenWorks ==
    LifeAssumption /\ NoneAssumption /\ Spec => []SessionHasOneToken
  <1> SUFFICES ASSUME Lives PROVE Spec => []SessionHasOneToken
    BY DEF Lives
  <1>1. Init => IInv /\ SInv
    BY InitOK, SessionInit
  <1>2. IInv /\ SInv /\ [Next]_vars => (IInv /\ SInv)'
    BY NextOK, SessionStep
  <1>3. IInv /\ SInv => SessionHasOneToken
    BY SessionSafe
  <1> QED
    BY <1>1, <1>2, <1>3, PTL DEF Spec
=============================================================================
