----------------------------- MODULE MCServices -----------------------------
(***************************************************************************)
(* The services of one user that share nothing but the user: subscriptions,*)
(* tokens, the limit on requests, flash cards, progress and the quota of a *)
(* key.  They do not call each other, so each is checked alone: side names *)
(* the one a behaviour is of, the variables of the others are Nothing, and *)
(* the states are the sum of theirs.  Each takes its handlers and its rows *)
(* from the same names.                                                    *)
(***************************************************************************)
EXTENDS Billing, TLC

CONSTANTS
    m1, m2, m3, n1, n2,
    Pairs, AccessLife, ShortLife, LongLife, MaxFails,   \* AuthTokens
    LastMoment, MaxFaults, MaxCodes, MaxRequests,
    Calls, Slots, CallLimit, Window, LastInstant,       \* RateLimit
    Sets, CardLimit, QuizLimit, MaxSets, Qualities,     \* FlashCards
    LastCardDay, MaxCardRequests,
    Questions, Week, DayLength, Chunks, LastHour, MaxActions,   \* Progress
    KeyLimit, MaxCalls, MaxCrashes                      \* KeyQuota

VARIABLES
    side,
    account, issued, life, active, blacklist, denied, revokeBefore,
    code, codes, fails, failsEnd, authReq, authBegun, clock, authFaults,
    given, root, latest, changedAt, loggedOut, crossed,
    entries, keyEnd, call, instant,
    cardDay, quota, sets, card, quizzes, cache, h, cardBegun, cardFaults,
    granted, recalls, overlapped,
    hour, attempts, badges, marker, check, acted, faults, streak, plan, visited, skipped,
    up, crashes, mem, lock, redis, db, saver, snap, calls, astray, unread

Auth == INSTANCE AuthTokensProofs WITH
    None <- Nothing, req <- authReq, begun <- authBegun, faults <- authFaults

Rate == INSTANCE RateLimit WITH Limit <- CallLimit

Cards == INSTANCE FlashCards WITH
    Handlers <- Requests, LastDay <- LastCardDay, MaxRequests <- MaxCardRequests, None <- Nothing,
    today <- cardDay, begun <- cardBegun, faults <- cardFaults

Study == INSTANCE Progress WITH Checks <- Requests, None <- Nothing

Key == INSTANCE KeyQuota WITH
    Calls <- Requests, Limit <- KeyLimit, None <- Nothing

ASSUME ServicesAssumption ==
    /\ Auth!LifeAssumption /\ Auth!BoundAssumption /\ Auth!NoneAssumption
    /\ Rate!RateAssumption
    /\ Cards!QuotaAssumption /\ Cards!NoneAssumption
    /\ Study!ProgressAssumption /\ Study!NoneAssumption
    /\ Key!LimitAssumption /\ Key!NoneAssumption

authVars == <<account, issued, life, active, blacklist, denied, revokeBefore, code,
              codes, fails, failsEnd, authReq, authBegun, clock, authFaults, given,
              root, latest, changedAt, loggedOut, crossed>>
rateVars == <<entries, keyEnd, call, instant>>
cardVars == <<cardDay, quota, sets, card, quizzes, cache, h, cardBegun, cardFaults,
              granted, recalls, overlapped>>
studyVars == <<hour, attempts, badges, marker, check, acted, faults, streak, plan,
               visited, skipped>>
keyVars == <<up, crashes, mem, lock, redis, db, saver, snap, calls, astray, unread>>

(* The variables of a service whose turn it is not: no payment, no tier,   *)
(* so that the properties of Billing are stated as they stand there.       *)
NoBilling ==
    /\ status = [o \in Orders |-> "none"] /\ tier = "FREE"
    /\ package = Nothing /\ paidOn = Nothing /\ link = Nothing
    /\ tierExpiresAt = Nothing /\ gifts = Nothing /\ req = Nothing
    /\ cached = Nothing /\ loaded = Nothing /\ today = Nothing /\ failed = FALSE
NoAuth ==
    /\ account = Nothing /\ issued = Nothing /\ life = Nothing
    /\ active = Nothing /\ blacklist = Nothing /\ denied = Nothing
    /\ revokeBefore = Nothing /\ code = Nothing /\ codes = Nothing
    /\ fails = Nothing /\ failsEnd = Nothing /\ authReq = Nothing
    /\ authBegun = Nothing /\ clock = Nothing /\ authFaults = Nothing
    /\ given = Nothing /\ root = Nothing /\ latest = Nothing
    /\ changedAt = Nothing /\ loggedOut = Nothing /\ crossed = Nothing
NoRate ==
    /\ entries = Nothing /\ keyEnd = Nothing /\ call = Nothing
    /\ instant = Nothing
NoCards ==
    /\ cardDay = Nothing /\ quota = Nothing /\ sets = Nothing
    /\ card = Nothing /\ quizzes = Nothing /\ cache = Nothing
    /\ h = Nothing /\ cardBegun = Nothing /\ cardFaults = Nothing
    /\ granted = Nothing /\ recalls = Nothing /\ overlapped = Nothing
NoStudy ==
    /\ hour = Nothing /\ attempts = Nothing /\ badges = Nothing
    /\ marker = Nothing /\ check = Nothing /\ acted = Nothing
    /\ faults = Nothing /\ streak = Nothing /\ plan = Nothing
    /\ visited = Nothing /\ skipped = Nothing
NoKey ==
    /\ up = Nothing /\ crashes = Nothing /\ mem = Nothing
    /\ lock = Nothing /\ redis = Nothing /\ db = Nothing
    /\ saver = Nothing /\ snap = Nothing /\ calls = Nothing
    /\ astray = Nothing /\ unread = Nothing

ServicesInit ==
    \/ side = "billing" /\ Init /\ NoAuth /\ NoRate /\ NoCards /\ NoStudy /\ NoKey
    \/ side = "auth" /\ Auth!Init /\ NoBilling /\ NoRate /\ NoCards /\ NoStudy /\ NoKey
    \/ side = "rate" /\ Rate!Init /\ NoBilling /\ NoAuth /\ NoCards /\ NoStudy /\ NoKey
    \/ side = "cards" /\ Cards!Init /\ NoBilling /\ NoAuth /\ NoRate /\ NoStudy /\ NoKey
    \/ side = "study" /\ Study!Init /\ NoBilling /\ NoAuth /\ NoRate /\ NoCards /\ NoKey
    \/ side = "key" /\ Key!Init /\ NoBilling /\ NoAuth /\ NoRate /\ NoCards /\ NoStudy

ServicesNext ==
    /\ UNCHANGED side
    /\ \/ /\ side = "billing" /\ Next
          /\ UNCHANGED <<authVars, rateVars, cardVars, studyVars, keyVars>>
       \/ /\ side = "auth" /\ Auth!Next
          /\ UNCHANGED <<vars, rateVars, cardVars, studyVars, keyVars>>
       \/ /\ side = "rate" /\ Rate!Next
          /\ UNCHANGED <<vars, authVars, cardVars, studyVars, keyVars>>
       \/ /\ side = "cards" /\ Cards!Next
          /\ UNCHANGED <<vars, authVars, rateVars, studyVars, keyVars>>
       \/ /\ side = "study" /\ Study!Next
          /\ UNCHANGED <<vars, authVars, rateVars, cardVars, keyVars>>
       \/ /\ side = "key" /\ Key!Next
          /\ UNCHANGED <<vars, authVars, rateVars, cardVars, studyVars>>

servicesVars == <<side, vars, authVars, rateVars, cardVars, studyVars, keyVars>>
ServicesSpec == ServicesInit /\ [][ServicesNext]_servicesVars

(* Handlers are alike, and so are pairs of tokens, sets and orders; the    *)
(* calls of the rate limit are alike too.                                  *)
Symmetry == Permutations({m1, m2, m3}) \cup Permutations({n1, n2})

-----------------------------------------------------------------------------

(* The state of the service has its type.                                  *)
Typed ==
    /\ side = "billing" => TypeOK
    /\ side = "auth" => Auth!TypeOK
    /\ side = "rate" => Rate!TypeOK
    /\ side = "cards" => Cards!TypeOK
    /\ side = "study" => Study!TypeOK
    /\ side = "key" => Key!TypeOK

(* A token from before a change of the password is of no use after it, and *)
(* the lock after wrong codes ends (AuthTokens).                           *)
RevokedStaysOut == side = "auth" => Auth!RevokedStaysOut /\ Auth!LockEnds

(* A session has one refresh token that works (AuthTokens).                *)
SessionHasOneToken == side = "auth" => Auth!SessionHasOneToken

(* The counters of requests and of study tools let no more through than    *)
(* they say, with their requests overlapping (RateLimit, FlashCards).      *)
LimitsHold ==
    /\ side = "rate" => Rate!WindowIsBounded
    /\ side = "cards" => Cards!QuotaCountsToday

(* What is told of a user's learning is what the user did: repetitions,    *)
(* badges, streaks and the pages of a plan (FlashCards, Progress).         *)
RecordsAreTrue ==
    /\ side = "cards" => Cards!RecallsAreCounted
    /\ side = "study" =>
        Study!NoBadgeForgotten /\ Study!StreakIsARun /\ Study!PlanReachesTheExam

(* What Redis shows of a set of cards and of a key's quota is current, but *)
(* for the races named in FlashCards and KeyQuota.                         *)
CachesAreCurrent ==
    /\ side = "cards" => Cards!ShownSetIsCurrent
    /\ side = "key" => Key!QuotaShownIsCurrent
=============================================================================
