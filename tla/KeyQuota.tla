------------------------------ MODULE KeyQuota ------------------------------
(***************************************************************************)
(* What the server knows of the use of one key of Gemini                   *)
(* (utils/quota/tracker.go): counters in memory, their copy in Redis for   *)
(* the administrator's page, and the row of api_key_quotas they survive a  *)
(* restart in.  Each save to Redis is a goroutine's own; some hold the     *)
(* key's lock while they save, RecordCall does not.  (MarkRateLimited,     *)
(* which would not either, is called from nowhere.)                        *)
(***************************************************************************)
EXTENDS Naturals, FiniteSets

CONSTANTS
    Calls,          \* calls of the key at work at a time
    Limit,          \* calls a minute the key is thought to have
    MaxCalls, MaxCrashes,       \* bounds on the model
    None

LimitAssumption == Limit \in Nat \ {0} /\ MaxCalls \in Nat /\ MaxCrashes \in Nat

VARIABLES
    up, crashes,
    mem,            \* KeyUsage: rpm_remaining and rpd_used
    lock,           \* who holds its mutex
    redis, db,      \* quota:v1:<key>, or None; rpd_used of the row
    saver,          \* calls, and the refresher, each saving what it has read
    snap,           \* what SyncToDB is about to write, or None
    calls,
    astray,         \* history: the last save failed or overlapped another, or
                    \* memory is new
    unread          \* history: the row could not be read at a start

vars == <<up, crashes, mem, lock, redis, db, saver, snap, calls, astray, unread>>

Refresher == "refresher"
Savers == Calls \cup {Refresher}

(* No holder of the lock, no count.                                        *)
NoneAssumption == None \notin Nat \cup Savers

(* alone: no other save was in flight at any time of this one.             *)
Idle == [step |-> "idle", rem |-> 0, used |-> 0, alone |-> TRUE]

Init ==
    /\ up = TRUE /\ crashes = 0
    /\ mem = [rem |-> Limit, used |-> 0] /\ lock = None
    /\ redis = None /\ db = 0
    /\ saver = [p \in Savers |-> Idle] /\ snap = None
    /\ calls = 0 /\ astray = FALSE /\ unread = FALSE

InFlight == {p \in Savers : saver[p].step \in {"rem", "used", "send"}}

(* p has changed the counters and is about to save them.                   *)
Saves(p, step) ==
    saver' = [q \in Savers |->
                IF q = p THEN [step |-> step, rem |-> mem'.rem, used |-> mem'.used,
                               alone |-> InFlight = {}]
                ELSE [saver[q] EXCEPT !.alone = @ /\ q \notin InFlight]]

(* A call of the API came back.                                            *)
Answered(c) ==
    /\ up /\ saver[c] = Idle
    /\ calls < MaxCalls /\ calls' = calls + 1
    /\ saver' = [saver EXCEPT ![c].step = "headers"]
    /\ UNCHANGED <<up, crashes, mem, lock, redis, db, snap, astray, unread>>

(* ParseHeaders, of the transport: Gemini has no such headers, so the call *)
(* is counted and nothing else; saved under the lock.                      *)
ParseHeaders(c) ==
    /\ saver[c].step = "headers" /\ lock = None
    /\ mem' = [mem EXCEPT !.used = @ + 1]
    /\ lock' = c
    /\ Saves(c, "send")
    /\ UNCHANGED <<up, crashes, redis, db, snap, calls, astray, unread>>

(* RecordCall counts the same call once more, takes it off the minute, and *)
(* gives the lock back before it saves.                                    *)
Recorded == [rem |-> IF mem.rem > 0 THEN mem.rem - 1 ELSE 0, used |-> mem.used + 1]

(* Mutant of AfterRecord: the refresher will save it.                      *)
AfterRecordIdle == "idle"

AfterRecord == "rem"

RecordCall(c) ==
    /\ saver[c].step = "record" /\ lock = None
    /\ mem' = Recorded
    /\ Saves(c, AfterRecord)
    /\ UNCHANGED <<up, crashes, lock, redis, db, snap, calls, astray, unread>>

(* A call that failed is not recorded.                                     *)
CallFailed(c) ==
    /\ saver[c].step = "record"
    /\ saver' = [saver EXCEPT ![c] = Idle]
    /\ UNCHANGED <<up, crashes, mem, lock, redis, db, snap, calls, astray, unread>>

(* quotaRefresherLoop, each minute, saves under the lock.                  *)
Refresh ==
    /\ up /\ saver[Refresher] = Idle /\ lock = None
    /\ mem' = [mem EXCEPT !.rem = Limit]
    /\ lock' = Refresher
    /\ Saves(Refresher, "send")
    /\ UNCHANGED <<up, crashes, redis, db, snap, calls, astray, unread>>

(* saveToRedis reads the counters one by one, without the lock.            *)
ReadRemaining(c) ==
    /\ saver[c].step = "rem"
    /\ saver' = [saver EXCEPT ![c].step = "used", ![c].rem = mem.rem]
    /\ UNCHANGED <<up, crashes, mem, lock, redis, db, snap, calls, astray, unread>>

ReadUsed(c) ==
    /\ saver[c].step = "used"
    /\ saver' = [saver EXCEPT ![c].step = "send", ![c].used = mem.used]
    /\ UNCHANGED <<up, crashes, mem, lock, redis, db, snap, calls, astray, unread>>

(* HSet and Expire; nobody looks at their errors.                          *)
Send(p) ==
    /\ saver[p].step = "send"
    /\ \/ /\ redis' = [rem |-> saver[p].rem, used |-> saver[p].used]
          /\ astray' = ~saver[p].alone
       \/ UNCHANGED redis /\ astray' = TRUE
    /\ IF lock = p
       THEN /\ lock' = None
            /\ saver' = [saver EXCEPT ![p] = IF p = Refresher THEN Idle ELSE [Idle EXCEPT !.step = "record"]]
       ELSE /\ saver' = [saver EXCEPT ![p] = Idle] /\ UNCHANGED lock
    /\ UNCHANGED <<up, crashes, mem, db, snap, calls, unread>>

RedisExpires ==
    /\ redis # None /\ redis' = None
    /\ UNCHANGED <<up, crashes, mem, lock, db, saver, snap, calls, astray, unread>>

(* SyncToDB copies the counters under the lock ...                         *)
Clone ==
    /\ up /\ snap = None /\ lock = None
    /\ snap' = mem.used
    /\ UNCHANGED <<up, crashes, mem, lock, redis, db, saver, calls, astray, unread>>

(* ... and writes the copy; an error is logged.                            *)
SyncToDB ==
    /\ snap # None
    /\ db' = snap \/ UNCHANGED db
    /\ snap' = None
    /\ UNCHANGED <<up, crashes, mem, lock, redis, saver, calls, astray, unread>>

Crash ==
    /\ up /\ crashes < MaxCrashes
    /\ up' = FALSE /\ crashes' = crashes + 1
    /\ mem' = [rem |-> 0, used |-> 0] /\ lock' = None
    /\ saver' = [p \in Savers |-> Idle] /\ snap' = None
    /\ UNCHANGED <<redis, db, calls, astray, unread>>

(* Mutant of Loaded: the counters start from nothing.                      *)
LoadedFresh == [rem |-> Limit, used |-> 0]

(* RegisterKey: the day's use from the row, the minute's from Redis.  A    *)
(* query that fails is taken for a row that does not exist.                *)
Loaded == [rem |-> IF redis = None THEN Limit ELSE redis.rem, used |-> db]

RegisterKey ==
    /\ ~up /\ up' = TRUE
    /\ \/ mem' = Loaded /\ UNCHANGED unread
       \/ mem' = [Loaded EXCEPT !.used = 0] /\ unread' = TRUE
    /\ astray' = TRUE
    /\ UNCHANGED <<crashes, lock, redis, db, saver, snap, calls>>

-----------------------------------------------------------------------------

Next ==
    \/ \E c \in Calls :
        \/ Answered(c) \/ ParseHeaders(c) \/ RecordCall(c) \/ CallFailed(c)
        \/ ReadRemaining(c) \/ ReadUsed(c)
    \/ Refresh
    \/ \E p \in Savers : Send(p)
    \/ RedisExpires
    \/ Clone \/ SyncToDB
    \/ Crash \/ RegisterKey

Spec == Init /\ [][Next]_vars

-----------------------------------------------------------------------------

Row == [rem : 0..Limit, used : 0..(2 * MaxCalls)]

TypeOK ==
    /\ up \in BOOLEAN /\ crashes \in 0..MaxCrashes
    /\ mem \in Row /\ lock \in Savers \cup {None}
    /\ redis \in Row \cup {None} /\ db \in 0..(2 * MaxCalls)
    /\ saver \in [Savers -> [step : {"idle", "headers", "record", "rem", "used", "send"},
                             rem : 0..Limit, used : 0..(2 * MaxCalls), alone : BOOLEAN]]
    /\ snap \in (0..(2 * MaxCalls)) \cup {None}
    /\ calls \in 0..MaxCalls /\ astray \in BOOLEAN /\ unread \in BOOLEAN

(* When no save is in flight, Redis has what memory has, unless the last   *)
(* save failed, which nobody notices, or overlapped another: RecordCall    *)
(* reads and sends without the lock, so an older reading may arrive last.  *)
(* Either is mended by the next save that is alone and arrives             *)
(* (saveToRedis).                                                          *)
QuotaShownIsCurrent ==
    up /\ InFlight = {} /\ ~astray => redis \in {None, mem}

(* The use written to the database never shrinks, through restarts and     *)
(* failed writes, unless the row could not be read at a start: what a      *)
(* restart loses is the use since the last sync (RegisterKey, SyncToDB).   *)
UsageNeverShrinks == [][db' >= db \/ unread]_vars
=============================================================================
