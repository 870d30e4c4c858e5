----------------------------- MODULE RateLimit -----------------------------
(***************************************************************************)
(* The sliding window of middleware/ratelimit.go for one caller of one     *)
(* route: a sorted set of the moments at which requests came.  The four    *)
(* commands go to Redis in one pipeline, which is not a transaction: those *)
(* of other requests may come between them.                                *)
(***************************************************************************)
EXTENDS Naturals, FiniteSets

CONSTANTS
    Calls,          \* requests of the caller, in all
    Slots,          \* requests that may be at work at a time
    Limit,          \* requests admitted in a window
    Window,         \* its length
    LastInstant,    \* bound on time
    MaxFaults       \* bound on pipelines that fail

RateAssumption ==
    /\ IsFiniteSet(Calls)
    /\ Slots \in Nat \ {0} /\ Limit \in Nat \ {0} /\ Window \in Nat \ {0}
    /\ LastInstant \in Nat /\ MaxFaults \in Nat

Instants == 0..LastInstant

VARIABLES
    entries,        \* the sorted set: the requests in it
    keyEnd,         \* when Redis drops the set
    call,           \* of each request: its step, when it came, what it counted
    instant

vars == <<entries, keyEnd, call, instant>>

Fresh == [step |-> "new", at |-> 0, count |-> 0]

Init ==
    /\ entries = {} /\ keyEnd = 0
    /\ call = [q \in Calls |-> Fresh]
    /\ instant = 0

Is(q, step) == call[q].step = step
Goes(q, step) == call' = [call EXCEPT ![q].step = step]

AtWork == {q \in Calls : call[q].step \in {"trim", "count", "add", "expire"}}

Arrive(q) ==
    /\ Is(q, "new") /\ Cardinality(AtWork) < Slots
    /\ call' = [call EXCEPT ![q].step = "trim", ![q].at = instant]
    /\ UNCHANGED <<entries, keyEnd, instant>>

(* ZREMRANGEBYSCORE 0 .. now - window, ends included.                      *)
Trim(q) ==
    /\ Is(q, "trim")
    /\ entries' = {e \in entries : call[e].at + Window > call[q].at}
    /\ Goes(q, "count")
    /\ UNCHANGED <<keyEnd, instant>>

(* ZCARD.                                                                  *)
Count(q) ==
    /\ Is(q, "count")
    /\ call' = [call EXCEPT ![q].step = "add", ![q].count = Cardinality(entries)]
    /\ UNCHANGED <<entries, keyEnd, instant>>

(* ZADD, of refused requests too.                                          *)
Add(q) ==
    /\ Is(q, "add")
    /\ entries' = entries \cup {q}
    /\ Goes(q, "expire")
    /\ UNCHANGED <<keyEnd, instant>>

(* Mutant of Within: one too many.                                         *)
WithinOrAt(q) == call[q].count <= Limit

Within(q) == call[q].count < Limit

(* EXPIRE, and the decision.                                               *)
Decide(q) ==
    /\ Is(q, "expire")
    /\ keyEnd' = instant + Window
    /\ Goes(q, IF Within(q) THEN "admitted" ELSE "refused")
    /\ UNCHANGED <<entries, instant>>

(* The pipeline fails before its next command, or its last answer is lost. *)
(* The error of Exec is dropped and the count that was not read is 0: the  *)
(* request goes through, unseen if it was not added.  (What the client     *)
(* retries counts itself too: that refuses sooner, never later.)           *)
Unseen == {q \in Calls : Is(q, "unseen")}

ExecFails(q) ==
    /\ Cardinality(Unseen) < MaxFaults
    /\ q \in AtWork /\ Goes(q, "unseen")
    /\ \/ UNCHANGED keyEnd
       \/ Is(q, "expire") /\ keyEnd' = instant + Window
    /\ UNCHANGED <<entries, instant>>

(* Time passes, and the set with it when its lifetime is over.  A request  *)
(* is decided at the moment it came: milliseconds against a minute.        *)
Pass ==
    /\ instant < LastInstant
    /\ AtWork = {}
    /\ instant' = instant + 1
    /\ IF keyEnd = instant' THEN entries' = {} /\ keyEnd' = 0 ELSE UNCHANGED <<entries, keyEnd>>
    /\ UNCHANGED call

Next ==
    \/ \E q \in Calls : Arrive(q) \/ Trim(q) \/ Count(q) \/ Add(q) \/ Decide(q)
                      \/ ExecFails(q)
    \/ Pass

Spec == Init /\ [][Next]_vars

-----------------------------------------------------------------------------

TypeOK ==
    /\ entries \subseteq Calls
    /\ keyEnd \in 0..(LastInstant + Window)
    /\ call \in [Calls -> [step : {"new", "trim", "count", "add", "expire", "admitted", "refused",
                                   "unseen"},
                           at : Instants, count : 0..Cardinality(Calls)]]
    /\ instant \in Instants

(* Any window holds at most Limit requests admitted by their count, and    *)
(* one more for each further request that may be at work at a time,        *)
(* however their commands interleave, whichever pipelines broke between    *)
(* them and whenever the whole set is dropped (RateLimit counts before it  *)
(* adds, and adds what it refuses as well).  Requests whose own pipeline   *)
(* failed are let through beside these, without a bound.                   *)
WindowIsBounded ==
    \A w \in Instants :
        Cardinality({q \in Calls : Is(q, "admitted") /\ call[q].at \in w..(w + Window - 1)})
            <= Limit + Slots - 1
=============================================================================
