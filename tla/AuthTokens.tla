----------------------------- MODULE AuthTokens -----------------------------
(***************************************************************************)
(* Sessions of one account: controllers/auth.go, utils/jwt.go and          *)
(* middleware/auth.go.                                                     *)
(*                                                                         *)
(* A pair is an access token and a refresh token that are handed out       *)
(* together; what the server remembers of it is in Redis: refresh_active,  *)
(* blacklist, revoke_before, and the one-time codes.  A request is a       *)
(* handler between two of its calls of Redis and PostgreSQL; each call may *)
(* fail, and the process may stop.  Time passes in units in which an       *)
(* IssuedAt is given: what happens within a unit cannot be told apart.     *)
(***************************************************************************)
EXTENDS Naturals, FiniteSets

CONSTANTS
    Pairs,                  \* pairs of tokens that may be issued
    Requests,               \* handlers that may run at a time
    AccessLife, ShortLife, LongLife,    \* of access and refresh tokens
    MaxFails,               \* wrong codes after which a reset is locked
    LastMoment, MaxFaults, MaxCodes, MaxRequests,   \* bounds on the model
    None                    \* no pair, no moment

LifeAssumption ==
    /\ AccessLife \in Nat /\ ShortLife \in Nat /\ LongLife \in Nat
    /\ AccessLife <= ShortLife /\ ShortLife < LongLife
BoundAssumption ==
    /\ MaxFails \in Nat \ {0} /\ IsFiniteSet(Requests)
    /\ LastMoment \in Nat /\ MaxFaults \in Nat
    /\ MaxCodes \in Nat /\ MaxRequests \in Nat
NoneAssumption == None \notin Pairs \cup Nat /\ None \notin [at : Nat, until : Nat]

Moments == 0..LastMoment
Ends == 0..(LastMoment + LongLife + 1)
Purposes == {"reset", "change"}     \* otp:reset:<email>, otp:password:<user>

VARIABLES
    account,        \* what opens the account: "none", "password", "google", "both"
    issued, life,   \* the claims of a pair
    active,         \* refresh_active
    blacklist,      \* until when a refresh token is on the blacklist
    denied,         \* until when an access token is on it
    revokeBefore,   \* [at, until], or None
    code, codes,    \* one-time codes in force, and how many were sent
    fails, failsEnd,        \* otp:fail, and whether it has a lifetime
    req, begun,     \* the handlers at work, and how many requests there were
    clock, faults,
    given, root, latest,    \* history: pairs handed out, with which pair their session began,
                            \* and the last one a session was given
    changedAt,              \* history: when old sessions were last revoked
    loggedOut, crossed      \* history: pairs logged out, sessions whose requests overlapped

claims == <<issued, life>>
marks == <<active, blacklist, denied, revokeBefore>>
codeVars == <<code, codes, fails, failsEnd>>
history == <<given, root, latest, changedAt, loggedOut, crossed>>
store == <<account, claims, marks, codeVars>>
vars == <<account, claims, marks, codeVars, req, begun, clock, faults, history>>

Idle == [op |-> "none", step |-> "idle", old |-> None, new |-> None,
         since |-> None, created |-> FALSE]

Init ==
    /\ account = "none"
    /\ issued = [t \in Pairs |-> None] /\ life = [t \in Pairs |-> 0]
    /\ active = {}
    /\ blacklist = [t \in Pairs |-> 0] /\ denied = [t \in Pairs |-> 0]
    /\ revokeBefore = None
    /\ code = {} /\ codes = 0 /\ fails = 0 /\ failsEnd = FALSE
    /\ req = [r \in Requests |-> Idle]
    /\ begun = 0
    /\ clock = 0 /\ faults = 0
    /\ given = {}
    /\ root = [t \in Pairs |-> None] /\ latest = [t \in Pairs |-> None]
    /\ changedAt = None /\ loggedOut = {} /\ crossed = {}

Goes(r, step) == req' = [req EXCEPT ![r].step = step] /\ UNCHANGED begun
Leaves(r) == req' = [req EXCEPT ![r] = Idle] /\ UNCHANGED begun

Begins(r, request) ==
    /\ req[r] = Idle
    /\ begun < MaxRequests /\ begun' = begun + 1
    /\ req' = [req EXCEPT ![r] = request]

Expires(t) == issued[t] + life[t]

(* VerifyToken of a refresh token that was handed out.                     *)
Verified(t) == issued[t] # None /\ clock < Expires(t)

(* AuthMiddleware.                                                         *)
Admitted(t) ==
    /\ issued[t] # None /\ clock < issued[t] + AccessLife
    /\ denied[t] <= clock

Revoked(t) ==
    /\ revokeBefore # None /\ clock < revokeBefore.until
    /\ issued[t] < revokeBefore.at

(* What Refresh accepts.                                                   *)
Usable(t) ==
    /\ Verified(t) /\ blacklist[t] <= clock
    /\ ~Revoked(t) /\ t \in active

(* History: a second request begins on the session of t.                   *)
Crosses(t) ==
    /\ crossed' = IF \E r \in Requests : req[r].old # None /\ root[req[r].old] = root[t]
                  THEN crossed \cup {root[t]} ELSE crossed
    /\ UNCHANGED <<given, root, latest, changedAt, loggedOut>>

-----------------------------------------------------------------------------
(* Ways in; each ends in StoreToken.                                       *)

Enters(r, op, created) ==
    /\ Begins(r, [Idle EXCEPT !.op = op, !.step = "store", !.created = created])
    /\ UNCHANGED <<claims, marks, codeVars, clock, faults, history>>

(* Register: the INSERT; a known address is refused.                       *)
RegisterInserts(r) ==
    /\ account = "none"
    /\ account' = "password"
    /\ Enters(r, "register", TRUE)

(* Login: the row is read and the password compared.                       *)
LoginReads(r) ==
    /\ account \in {"password", "both"}
    /\ UNCHANGED account
    /\ Enters(r, "login", FALSE)

(* GoogleLogin: the row is found, linked if need be, or inserted.          *)
GoogleFinds(r) ==
    /\ account' = IF account \in {"none", "google"} THEN "google" ELSE "both"
    /\ Enters(r, "google", account = "none")

-----------------------------------------------------------------------------
(* Refresh: three checks, then four calls that replace the token.          *)

(* The blacklist.                                                          *)
RefreshBegins(r, t) ==
    /\ t \in given
    /\ Verified(t) /\ blacklist[t] <= clock
    /\ Begins(r, [Idle EXCEPT !.op = "refresh", !.step = "revoked",
                                              !.old = t, !.since = changedAt])
    /\ Crosses(t)
    /\ UNCHANGED <<store, clock, faults>>

(* revoke_before.                                                          *)
CheckRevoked(r) ==
    /\ req[r].step = "revoked"
    /\ IF Revoked(req[r].old) THEN Leaves(r) ELSE Goes(r, "active")
    /\ UNCHANGED <<store, clock, faults, history>>

(* refresh_active, whose lifetime is that of the token.                    *)
CheckActive(r) ==
    /\ req[r].step = "active"
    /\ IF req[r].old \in active /\ Verified(req[r].old) THEN Goes(r, "store") ELSE Leaves(r)
    /\ UNCHANGED <<store, clock, faults, history>>

(* How long a pair lives: as the one before, seven days, or ten.           *)
LivesFor(r) ==
    CASE req[r].op = "refresh"  -> {life[req[r].old]}
      [] req[r].op = "register" -> {ShortLife}
      [] req[r].op = "login"    -> {ShortLife, LongLife}
      [] req[r].op = "google"   -> {LongLife}

(* History: the client has been given t.                                   *)
IsGiven(t, session) ==
    /\ given' = given \cup {t}
    /\ latest' = [latest EXCEPT ![session] = t]

(* GenerateTokenPair, and the new token into refresh_active.               *)
StoreToken(r, t) ==
    /\ req[r].step = "store"
    /\ issued[t] = None
    /\ issued' = [issued EXCEPT ![t] = clock]
    /\ \E l \in LivesFor(r) : life' = [life EXCEPT ![t] = l]
    /\ active' = active \cup {t}
    /\ IF req[r].op = "refresh"
       THEN /\ req' = [req EXCEPT ![r].step = "blacklist", ![r].new = t] /\ UNCHANGED begun
            /\ root' = [root EXCEPT ![t] = root[req[r].old]]
            /\ UNCHANGED <<given, latest>>
       ELSE /\ Leaves(r)
            /\ root' = [root EXCEPT ![t] = t]
            /\ IsGiven(t, t)
    /\ UNCHANGED <<account, blacklist, denied, revokeBefore, codeVars, clock, faults,
                   changedAt, loggedOut, crossed>>

(* The lifetime of a blacklist entry is what is left of the token's.       *)
BlacklistUntil(t) == Expires(t)

BlacklistOld(r) ==
    /\ req[r].step = "blacklist"
    /\ Goes(r, "retire")
    /\ blacklist' = [blacklist EXCEPT ![req[r].old] =
                        IF Verified(req[r].old) THEN BlacklistUntil(req[r].old) ELSE @]
    /\ UNCHANGED <<account, claims, active, denied, revokeBefore, codeVars, clock, faults, history>>

(* Mutant of RetireOld: the key of the new token is deleted.              *)
RetireNew(r) ==
    /\ req[r].step = "retire"
    /\ active' = active \ {req[r].new}
    /\ IsGiven(req[r].new, root[req[r].new])
    /\ Leaves(r)
    /\ UNCHANGED <<account, claims, blacklist, denied, revokeBefore, codeVars, clock, faults,
                   root, changedAt, loggedOut, crossed>>

(* The old token leaves refresh_active, and the client gets the new one.   *)
RetireOld(r) ==
    /\ req[r].step = "retire"
    /\ active' = active \ {req[r].old}
    /\ IsGiven(req[r].new, root[req[r].new])
    /\ Leaves(r)
    /\ UNCHANGED <<account, claims, blacklist, denied, revokeBefore, codeVars, clock, faults,
                   root, changedAt, loggedOut, crossed>>

(* After a failure the new token is taken back.                            *)
RollBack(r) ==
    /\ req[r].step = "rollback"
    /\ active' = active \ {req[r].new}
    /\ Leaves(r)
    /\ UNCHANGED <<account, claims, blacklist, denied, revokeBefore, codeVars, clock, faults, history>>

(* Register and GoogleLogin delete the row they have just inserted.        *)
Unregister(r) ==
    /\ req[r].step = "unregister"
    /\ account' = "none"
    /\ Leaves(r)
    /\ UNCHANGED <<claims, marks, codeVars, clock, faults, history>>

-----------------------------------------------------------------------------
(* Logout of the pair t, with or without its refresh cookie.               *)

LogoutBegins(r, t) ==
    /\ t \in given /\ Admitted(t)
    /\ Begins(r, [Idle EXCEPT !.op = "logout", !.step = "deny", !.old = t])
    /\ Crosses(t)
    /\ UNCHANGED <<store, clock, faults>>

(* The access token: until one moment after it ends.                       *)
Deny(r) ==
    /\ req[r].step = "deny"
    /\ LET t == req[r].old IN
       denied' = [denied EXCEPT ![t] = IF clock < issued[t] + AccessLife
                                       THEN issued[t] + AccessLife + 1 ELSE @]
    /\ \/ Goes(r, "logout") \/ Leaves(r)
    /\ UNCHANGED <<account, claims, active, blacklist, revokeBefore, codeVars, clock, faults, history>>

(* The refresh token.                                                      *)
BlacklistRefresh(r) ==
    /\ req[r].step = "logout"
    /\ IF Verified(req[r].old)
       THEN /\ blacklist' = [blacklist EXCEPT ![req[r].old] = BlacklistUntil(req[r].old) + 1]
            /\ Goes(r, "deactivate")
       ELSE Leaves(r) /\ UNCHANGED blacklist
    /\ UNCHANGED <<account, claims, active, denied, revokeBefore, codeVars, clock, faults, history>>

Deactivate(r) ==
    /\ req[r].step = "deactivate"
    /\ active' = active \ {req[r].old}
    /\ loggedOut' = loggedOut \cup {req[r].old}
    /\ Leaves(r)
    /\ UNCHANGED <<account, claims, blacklist, denied, revokeBefore, codeVars, clock, faults,
                   given, root, latest, changedAt, crossed>>

-----------------------------------------------------------------------------
(* One-time codes, and the change of the password.                         *)

(* ForgotPasswordSendOTP and SendPasswordOTP.                              *)
SendOTP(purpose) ==
    /\ account # "none" /\ codes < MaxCodes
    /\ code' = code \cup {purpose} /\ codes' = codes + 1
    /\ UNCHANGED <<account, claims, marks, fails, failsEnd, req, begun, clock, faults, history>>

OTPExpires(purpose) ==
    /\ purpose \in code
    /\ code' = code \ {purpose}
    /\ UNCHANGED <<account, claims, marks, codes, fails, failsEnd, req, begun, clock, faults, history>>

(* ChangePassword reads its code;                                          *)
ChangeBegins(r) ==
    /\ \E t \in given : Admitted(t)
    /\ "change" \in code
    /\ Begins(r, [Idle EXCEPT !.op = "change", !.step = "spend"])
    /\ UNCHANGED <<store, clock, faults, history>>

(* ResetPassword first looks whether it is locked,                         *)
ResetBegins(r) ==
    /\ fails < MaxFails
    /\ Begins(r, [Idle EXCEPT !.op = "reset", !.step = "code"])
    /\ UNCHANGED <<store, clock, faults, history>>

(* then at the code: the wrong one is counted, by two calls,               *)
WrongCode(r) ==
    /\ req[r].step = "code"
    /\ fails' = fails + 1
    /\ Goes(r, "penalty")
    /\ UNCHANGED <<account, claims, marks, code, codes, failsEnd, clock, faults, history>>

(* Mutant of Penalty: only the first failure starts the quarter of an hour *)
(* (the call is skipped where the counter was there before).               *)
PenaltyOnce(r) ==
    /\ req[r].step = "penalty"
    /\ failsEnd' = IF fails = 1 THEN TRUE ELSE failsEnd
    /\ Leaves(r)
    /\ UNCHANGED <<account, claims, marks, code, codes, fails, clock, faults, history>>

Penalty(r) ==
    /\ req[r].step = "penalty"
    /\ failsEnd' = (fails > 0)
    /\ Leaves(r)
    /\ UNCHANGED <<account, claims, marks, code, codes, fails, clock, faults, history>>

FailsExpire ==
    /\ failsEnd
    /\ fails' = 0 /\ failsEnd' = FALSE
    /\ UNCHANGED <<account, claims, marks, code, codes, req, begun, clock, faults, history>>

(* the right one clears the counter.                                       *)
RightCode(r) ==
    /\ req[r].step = "code"
    /\ "reset" \in code
    /\ fails' = 0 /\ failsEnd' = FALSE
    /\ Goes(r, "spend")
    /\ UNCHANGED <<account, claims, marks, code, codes, clock, faults, history>>

(* Both delete the code,                                                   *)
SpendCode(r) ==
    /\ req[r].step = "spend"
    /\ code' = code \ {req[r].op}
    /\ Goes(r, "update")
    /\ UNCHANGED <<account, claims, marks, codes, fails, failsEnd, clock, faults, history>>

(* store the new password, unless the row is gone or the old password given *)
(* for a change is wrong, as it must be for an account of Google's,         *)
UpdatePassword(r) ==
    /\ req[r].step = "update"
    /\ \/ /\ account = "none" \/ req[r].op = "change"
          /\ Leaves(r) /\ UNCHANGED account
       \/ /\ account # "none" /\ (req[r].op = "change" => account # "google")
          /\ account' = IF account = "google" THEN "both" ELSE account
          /\ Goes(r, "revoke")
    /\ UNCHANGED <<claims, marks, codeVars, clock, faults, history>>

(* Mutant of RevokeUntil: the lifetime of an ordinary token.               *)
RevokeForShort == clock + ShortLife

RevokeUntil == clock + LongLife

(* and revoke what was issued before.                                      *)
RevokeSessions(r) ==
    /\ req[r].step = "revoke"
    /\ revokeBefore' = [at |-> clock, until |-> RevokeUntil]
    /\ changedAt' = clock
    /\ Leaves(r)
    /\ UNCHANGED <<account, claims, active, blacklist, denied, codeVars, clock, faults,
                   given, root, latest, loggedOut, crossed>>

-----------------------------------------------------------------------------
(* Failures.  Where a handler goes when the call of its step fails.        *)

AfterFailure(r) ==
    CASE req[r].step = "store" /\ req[r].created -> "unregister"
      [] req[r].step \in {"blacklist", "retire"} -> "rollback"
      [] OTHER -> "idle"

CallFails(r) ==
    /\ faults < MaxFaults
    /\ req[r].step \notin {"idle", "code"}
    /\ faults' = faults + 1
    /\ IF AfterFailure(r) = "idle" THEN Leaves(r) ELSE Goes(r, AfterFailure(r))
    /\ UNCHANGED <<store, clock, history>>

Crash ==
    /\ faults < MaxFaults
    /\ \E r \in Requests : req[r] # Idle
    /\ faults' = faults + 1
    /\ req' = [r \in Requests |-> Idle]
    /\ UNCHANGED <<store, begun, clock, history>>

Tick ==
    /\ clock < LastMoment
    /\ clock' = clock + 1
    /\ UNCHANGED <<store, req, begun, faults, history>>

Next ==
    \/ \E r \in Requests :
        \/ RegisterInserts(r) \/ LoginReads(r) \/ GoogleFinds(r)
        \/ CheckRevoked(r) \/ CheckActive(r)
        \/ BlacklistOld(r) \/ RetireOld(r) \/ RollBack(r) \/ Unregister(r)
        \/ Deny(r) \/ BlacklistRefresh(r) \/ Deactivate(r)
        \/ ChangeBegins(r) \/ ResetBegins(r) \/ WrongCode(r) \/ Penalty(r) \/ RightCode(r)
        \/ SpendCode(r) \/ UpdatePassword(r) \/ RevokeSessions(r)
        \/ CallFails(r)
        \/ \E t \in Pairs : \/ RefreshBegins(r, t) \/ StoreToken(r, t)
                            \/ LogoutBegins(r, t)
    \/ \E p \in Purposes : SendOTP(p) \/ OTPExpires(p)
    \/ FailsExpire \/ Crash \/ Tick

Spec == Init /\ [][Next]_vars

-----------------------------------------------------------------------------
(* Properties.                                                             *)

Handler == [op : {"none", "register", "login", "google", "refresh", "logout", "change", "reset"},
            step : {"idle", "store", "unregister", "revoked", "active", "blacklist", "retire",
                    "rollback", "deny", "logout", "deactivate", "code", "penalty", "spend",
                    "update", "revoke"},
            old : Pairs \cup {None}, new : Pairs \cup {None},
            since : Moments \cup {None}, created : BOOLEAN]

(* Every variable keeps its type.                                          *)
TypeOK ==
    /\ account \in {"none", "password", "google", "both"}
    /\ issued \in [Pairs -> Moments \cup {None}]
    /\ life \in [Pairs -> {0, ShortLife, LongLife}]
    /\ active \subseteq Pairs
    /\ blacklist \in [Pairs -> Ends] /\ denied \in [Pairs -> Ends]
    /\ revokeBefore \in [at : Moments, until : Ends] \cup {None}
    /\ code \subseteq Purposes /\ codes \in 0..MaxCodes
    /\ fails \in 0..(MaxFails + Cardinality(Requests)) /\ failsEnd \in BOOLEAN
    /\ req \in [Requests -> Handler]
    /\ begun \in 0..MaxRequests
    /\ clock \in Moments /\ faults \in 0..MaxFaults
    /\ given \subseteq Pairs
    /\ root \in [Pairs -> Pairs \cup {None}] /\ latest \in [Pairs -> Pairs \cup {None}]
    /\ changedAt \in Moments \cup {None}
    /\ loggedOut \subseteq Pairs /\ crossed \subseteq Pairs

(* "Revoke all old refresh tokens" (ChangePassword, ResetPassword): a      *)
(* refresh that begins after a change of the password and gets past the    *)
(* checks holds no token issued before it, however long ago the change     *)
(* was: revoke_before outlives every token it is about.                    *)
RevokedStaysOut ==
    \A r \in Requests :
        req[r].op = "refresh" /\ req[r].since # None
            /\ req[r].step \in {"store", "blacklist", "retire"} =>
            issued[req[r].old] >= req[r].since

Session(t) == {u \in Pairs : root[u] = t}
Quiet(t) == \A r \in Requests : req[r].old = None \/ root[req[r].old] # t

(* A session has exactly one refresh token that works, the one its client  *)
(* was given last, from the login until it ends, is logged out or revoked, *)
(* unless its requests overlap or a call of Redis fails; a token that was  *)
(* replaced or logged out never works again, also when Redis has forgotten *)
(* it (Refresh, Logout).                                                   *)
SessionHasOneToken ==
    \A t \in {u \in Pairs : root[u] = u} :
        LET last == latest[t]
            over == ~Verified(last) \/ last \in loggedOut \/ Revoked(last)
        IN  faults = 0 /\ t \notin crossed /\ Quiet(t) =>
                {u \in Session(t) : Usable(u)} = IF over THEN {} ELSE {last}

(* A lock on the reset of a password ends: unless a call has failed, the   *)
(* counter of wrong codes has a lifetime when it reaches its limit, or a   *)
(* handler is about to give it one (ResetPassword counts by INCR and       *)
(* EXPIRE, and refuses everything at the limit).                           *)
LockEnds ==
    fails >= MaxFails /\ faults = 0 =>
        failsEnd \/ \E r \in Requests : req[r].step = "penalty"
=============================================================================
