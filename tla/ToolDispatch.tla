---------------------------- MODULE ToolDispatch ----------------------------
(***************************************************************************)
(* The assistant's tools: internal/tools/dispatcher.go, cache.go and       *)
(* memory_tool.go, and controllers/ai_tools.go.                            *)
(*                                                                         *)
(* A loop (Run) asks the model, calls the tools it names one after the     *)
(* other and asks again.  A tool runs in a goroutine of its own: after its *)
(* time is over the loop goes on and the goroutine is left behind, its     *)
(* calls cancelled, which may still have happened.  A tool with side       *)
(* effects is put aside as a slip in Redis, and runs when its user         *)
(* confirms.                                                               *)
(***************************************************************************)
EXTENDS Naturals, FiniteSets

CONSTANTS
    Loops,          \* calls of Run
    Askers,         \* requests that confirm or cancel
    Slips,          \* pending confirmations
    Workers,        \* goroutines of tools
    MaxDepth,       \* defaultMaxDepth
    MaxCalls,       \* tools named in one answer of the model
    HourLimit,      \* TierLimit of the limited tool
    MemoryCap,      \* memoryEvictionCap
    MaxFacts,       \* bound on the facts of the model
    None

ToolAssumption ==
    /\ MaxDepth \in Nat \ {0} /\ MaxCalls \in Nat \ {0}
    /\ HourLimit \in Nat \ {0} /\ MemoryCap \in Nat /\ MaxFacts \in Nat
    /\ IsFiniteSet(Askers)
    /\ Loops \cap Askers = {} /\ None \notin Loops \cup Askers \cup Slips \cup Workers

Callers == Loops \cup Askers
Tools == {"limited", "cached", "memory"}    \* those that ask for no confirmation

VARIABLES
    loop,       \* of each Run: step, depth, calls left, whether a tool has run, how it ended
    asker,      \* of each confirmation: its step and its slip
    slip,       \* tools:pending:<id>: "none", "stored", "gone"
    executed,   \* how often the tool of a slip has run
    worker,     \* of each goroutine: its tool, its next step, who waits for it, its slip
    used,       \* tools:limit:<tool>:<tier>:<user>
    cached, lock,   \* tools:cache:<tool>:<query> and its lock's holder
    facts,      \* rows of user_memory
    read, raced,    \* history: slips read; slips read twice at a time, or not deleted
    lapsed      \* history: the lock ended while its holder was at work

cacheVars == <<cached, lock, lapsed>>
slipVars == <<slip, executed, read, raced>>
vars == <<loop, asker, slipVars, worker, used, cacheVars, facts>>

NewLoop == [step |-> "ask", depth |-> 0, left |-> 0, ran |-> FALSE, how |-> "none"]
NoWork == [tool |-> "none", next |-> "idle", for |-> None, slip |-> None]

Init ==
    /\ loop = [l \in Loops |-> NewLoop]
    /\ asker = [a \in Askers |-> [step |-> "new", slip |-> None]]
    /\ slip = [p \in Slips |-> "none"] /\ executed = [p \in Slips |-> 0]
    /\ worker = [w \in Workers |-> NoWork]
    /\ used = 0 /\ cached = FALSE /\ lock = None /\ facts = 0
    /\ read = {} /\ raced = {} /\ lapsed = FALSE

Works(w, next) == worker' = [worker EXCEPT ![w].next = next]

Starts(c, tool, first, p) ==
    \E w \in Workers :
        /\ worker[w] = NoWork
        /\ worker' = [worker EXCEPT ![w] = [tool |-> tool, next |-> first, for |-> c, slip |-> p]]

-----------------------------------------------------------------------------
(* Run.                                                                    *)

LoopEnds(l, how) == loop' = [loop EXCEPT ![l].step = "done", ![l].left = 0, ![l].how = how]

(* The model fails: with results of tools the loop still answers.          *)
ModelFails(l) ==
    /\ loop[l].step = "ask"
    /\ LoopEnds(l, IF loop[l].ran THEN "fallback" ELSE "error")
    /\ UNCHANGED <<asker, slipVars, worker, used, cacheVars, facts>>

(* It answers, or names tools.                                             *)
ModelAnswers(l) ==
    /\ loop[l].step = "ask"
    /\ \/ LoopEnds(l, "answer")
       \/ \E n \in 1..MaxCalls : loop' = [loop EXCEPT ![l].step = "call", ![l].left = n]
    /\ UNCHANGED <<asker, slipVars, worker, used, cacheVars, facts>>

(* A result goes into the conversation: the next call, the next round, or  *)
(* the end of the loop at its depth.                                       *)
Recorded(rec) ==
    LET round == rec.depth + 1 IN
    IF rec.left > 1 THEN [rec EXCEPT !.step = "call", !.left = @ - 1, !.ran = TRUE]
    ELSE IF round < MaxDepth
    THEN [rec EXCEPT !.step = "ask", !.left = 0, !.depth = round, !.ran = TRUE]
    ELSE [rec EXCEPT !.step = "done", !.left = 0, !.depth = round, !.ran = TRUE, !.how = "answer"]

Records(l) == loop' = [loop EXCEPT ![l] = Recorded(@)]

(* A tool that the registry does not know is a result as well.             *)
CallUnknown(l) ==
    /\ loop[l].step = "call"
    /\ Records(l)
    /\ UNCHANGED <<asker, slipVars, worker, used, cacheVars, facts>>

(* RequiresConfirmation: the call is put aside; Redis may not take it.     *)
PutAside(l) ==
    /\ loop[l].step = "call"
    /\ \E p \in Slips : slip[p] = "none" /\ \E s \in {"stored", "gone"} : slip' = [slip EXCEPT ![p] = s]
    /\ LoopEnds(l, "pending")
    /\ UNCHANGED <<asker, executed, read, raced, worker, used, cacheVars, facts>>

FirstStep(tool) ==
    CASE tool = "limited" -> "go"
      [] tool = "cached" -> "get"
      [] tool = "memory" -> "insert"

(* checkTierLimit counts a call, and refuses it beyond the limit.          *)
CallTool(l) ==
    /\ loop[l].step = "call"
    /\ \E tool \in Tools :
           /\ used' = IF tool = "limited" /\ used <= HourLimit THEN used + 1 ELSE used
           /\ IF tool = "limited" /\ used >= HourLimit
              THEN Records(l) /\ UNCHANGED worker
              ELSE loop' = [loop EXCEPT ![l].step = "wait"] /\ Starts(l, tool, FirstStep(tool), None)
    /\ UNCHANGED <<asker, slipVars, cacheVars, facts>>

(* The hour of the counter is over.                                        *)
HourEnds ==
    /\ used > 0 /\ used' = 0
    /\ UNCHANGED <<loop, asker, slipVars, worker, cacheVars, facts>>

Returns(c) ==
    IF c \in Loops THEN Records(c) /\ UNCHANGED asker
    ELSE asker' = [asker EXCEPT ![c].step = "done"] /\ UNCHANGED loop

(* The time of a tool is over: whoever waits goes on without it.           *)
TimeOut(w) ==
    /\ worker[w].for # None
    /\ Returns(worker[w].for)
    /\ worker' = [worker EXCEPT ![w].for = None]
    /\ UNCHANGED <<slipVars, used, cacheVars, facts>>

(* The goroutine ends, with a result, an error or a panic.                 *)
Finishes(w) ==
    /\ worker' = [worker EXCEPT ![w] = NoWork]
    /\ IF worker[w].for = None THEN UNCHANGED <<loop, asker>> ELSE Returns(worker[w].for)

DoesOne(w, tool, step) == worker[w].tool = tool /\ worker[w].next = step

-----------------------------------------------------------------------------
(* Tools.                                                                  *)

(* A tool that only fetches or computes.                                   *)
RunPlain(w) ==
    /\ DoesOne(w, "limited", "go")
    /\ Finishes(w)
    /\ UNCHANGED <<slipVars, used, cacheVars, facts>>

(* RenameDocumentTool.Execute: one UPDATE, which may fail.                 *)
RunConfirmed(w) ==
    /\ DoesOne(w, "confirmed", "go")
    /\ \/ executed' = [executed EXCEPT ![worker[w].slip] = @ + 1]
       \/ UNCHANGED executed
    /\ Finishes(w)
    /\ UNCHANGED <<slip, read, raced, used, cacheVars, facts>>

(* MemoryTool: save inserts, then evicts what is beyond the cap.           *)
SaveFact(w) ==
    /\ DoesOne(w, "memory", "insert")
    /\ \/ facts < MaxFacts /\ facts' = facts + 1 /\ Works(w, "evict") /\ UNCHANGED <<loop, asker>>
       \/ UNCHANGED facts /\ Finishes(w)
    /\ UNCHANGED <<slipVars, used, cacheVars>>

(* evictOverflow; its failure is passed over.                              *)
EvictOverflow(w) ==
    /\ DoesOne(w, "memory", "evict")
    /\ \/ facts' = IF facts > MemoryCap THEN MemoryCap ELSE facts
       \/ UNCHANGED facts
    /\ Finishes(w)
    /\ UNCHANGED <<slipVars, used, cacheVars>>

(* retrieve, list, and forget, which deletes all that match.               *)
ForgetFacts(w) ==
    /\ DoesOne(w, "memory", "insert")
    /\ facts' \in 0..facts
    /\ Finishes(w)
    /\ UNCHANGED <<slipVars, used, cacheVars>>

(* CachedExecute: a hit,                                                   *)
GetCached(w) ==
    /\ DoesOne(w, "cached", "get")
    /\ IF cached THEN Finishes(w) ELSE Works(w, "lock") /\ UNCHANGED <<loop, asker>>
    /\ UNCHANGED <<slipVars, used, cacheVars, facts>>

(* or the lock, for ten seconds,                                           *)
TakeLock(w) ==
    /\ DoesOne(w, "cached", "lock")
    /\ IF lock = None THEN lock' = w /\ Works(w, "fetch") ELSE UNCHANGED lock /\ Works(w, "poll")
    /\ UNCHANGED <<loop, asker, slipVars, used, cached, lapsed, facts>>

(* the fetching, without holding it any longer if it fails,                *)
Fetch(w) ==
    /\ DoesOne(w, "cached", "fetch")
    /\ Works(w, "store") \/ Works(w, "unlock")
    /\ UNCHANGED <<loop, asker, slipVars, used, cacheVars, facts>>

Store(w) ==
    /\ DoesOne(w, "cached", "store")
    /\ cached' \in {TRUE, cached}
    /\ Works(w, "unlock")
    /\ UNCHANGED <<loop, asker, slipVars, used, lock, lapsed, facts>>

(* DEL of the lock, whoever holds it; not done when it was cancelled.      *)
Unlock(w) ==
    /\ DoesOne(w, "cached", "unlock")
    /\ lock' = None \/ (worker[w].for = None /\ UNCHANGED lock)
    /\ Finishes(w)
    /\ UNCHANGED <<slipVars, used, cached, lapsed, facts>>

(* Mutant of FetchAlone: the one that did not get the lock deletes it.     *)
FetchAloneAndUnlock(w) ==
    /\ DoesOne(w, "cached", "poll")
    /\ lock' = None
    /\ Finishes(w)
    /\ UNCHANGED <<slipVars, used, cached, lapsed, facts>>

(* Others wait three seconds for the result, and then fetch for themselves.*)
FetchAlone(w) ==
    /\ DoesOne(w, "cached", "poll")
    /\ Finishes(w)
    /\ UNCHANGED <<slipVars, used, cacheVars, facts>>

Holds(w) == worker[w].tool = "cached" /\ worker[w].next \in {"fetch", "store", "unlock"}

LockEnds ==
    /\ lock # None /\ lock' = None
    /\ lapsed' = (lapsed \/ Holds(lock))
    /\ UNCHANGED <<loop, asker, slipVars, worker, used, cached, facts>>

CacheEnds ==
    /\ cached /\ cached' = FALSE
    /\ UNCHANGED <<loop, asker, slipVars, worker, used, lock, lapsed, facts>>

-----------------------------------------------------------------------------
(* ConfirmToolCall.                                                        *)

Asks(a, p, step) == asker' = [asker EXCEPT ![a] = [step |-> step, slip |-> p]]

(* CancelPendingConfirmation; a failing DEL is passed over.                *)
Cancel(a) ==
    /\ asker[a].step = "new"
    /\ \E p \in Slips :
           /\ slip[p] # "none"
           /\ Asks(a, p, "done")
           /\ \/ slip' = [slip EXCEPT ![p] = "gone"] /\ UNCHANGED raced
              \/ slip[p] = "stored" /\ UNCHANGED slip /\ raced' = raced \cup {p}
    /\ UNCHANGED <<loop, executed, read, worker, used, cacheVars, facts>>

(* popPendingConfirmation: GET,                                            *)
ReadSlip(a) ==
    /\ asker[a].step = "new"
    /\ \E p \in Slips :
           /\ slip[p] # "none"
           /\ IF slip[p] = "stored" THEN Asks(a, p, "delete") ELSE Asks(a, p, "done")
           /\ read' = IF slip[p] = "stored" THEN read \cup {p} ELSE read
           /\ raced' = IF \E b \in Askers : asker[b] = [step |-> "delete", slip |-> p]
                       THEN raced \cup {p} ELSE raced
    /\ UNCHANGED <<loop, slip, executed, worker, used, cacheVars, facts>>

(* Mutant of DeleteSlip: the record stays.                                 *)
KeepSlip(a) ==
    /\ asker[a].step = "delete"
    /\ Asks(a, asker[a].slip, "check")
    /\ UNCHANGED <<loop, slipVars, worker, used, cacheVars, facts>>

(* then DEL, whose failure is passed over,                                 *)
DeleteSlip(a) ==
    /\ asker[a].step = "delete"
    /\ \/ slip' = [slip EXCEPT ![asker[a].slip] = "gone"] /\ UNCHANGED raced
       \/ UNCHANGED slip /\ raced' = raced \cup {asker[a].slip}
    /\ Asks(a, asker[a].slip, "check")
    /\ UNCHANGED <<loop, executed, read, worker, used, cacheVars, facts>>

(* then the tool, if the one who asks is the one it was put aside for.     *)
Resolve(a) ==
    /\ asker[a].step = "check"
    /\ \/ Asks(a, asker[a].slip, "done") /\ UNCHANGED worker
       \/ Asks(a, asker[a].slip, "wait") /\ Starts(a, "confirmed", "go", asker[a].slip)
    /\ UNCHANGED <<loop, slipVars, used, cacheVars, facts>>

(* Five minutes are over.                                                  *)
SlipEnds ==
    /\ \E p \in Slips : slip[p] = "stored" /\ slip' = [slip EXCEPT ![p] = "gone"]
    /\ UNCHANGED <<loop, asker, executed, read, raced, worker, used, cacheVars, facts>>

-----------------------------------------------------------------------------
Loop(l) == ModelFails(l) \/ ModelAnswers(l) \/ CallUnknown(l) \/ PutAside(l) \/ CallTool(l)

Work(w) ==
    \/ TimeOut(w) \/ RunPlain(w) \/ RunConfirmed(w) \/ SaveFact(w) \/ EvictOverflow(w) \/ ForgetFacts(w)
    \/ GetCached(w) \/ TakeLock(w) \/ Fetch(w) \/ Store(w) \/ Unlock(w) \/ FetchAlone(w)

Ask(a) == Cancel(a) \/ ReadSlip(a) \/ DeleteSlip(a) \/ Resolve(a)

Next ==
    \/ \E l \in Loops : Loop(l)
    \/ \E w \in Workers : Work(w)
    \/ \E a \in Askers : Ask(a)
    \/ HourEnds \/ LockEnds \/ CacheEnds \/ SlipEnds

Spec == Init /\ [][Next]_vars

-----------------------------------------------------------------------------
TypeOK ==
    /\ loop \in [Loops -> [step : {"ask", "call", "wait", "done"}, depth : 0..MaxDepth, left : 0..MaxCalls,
                           ran : BOOLEAN, how : {"none", "answer", "fallback", "pending", "error"}]]
    /\ asker \in [Askers -> [step : {"new", "delete", "check", "wait", "done"}, slip : Slips \cup {None}]]
    /\ slip \in [Slips -> {"none", "stored", "gone"}]
    /\ executed \in [Slips -> 0..Cardinality(Askers)]
    /\ worker \in [Workers -> [tool : Tools \cup {"confirmed", "none"},
                               next : {"idle", "go", "insert", "evict", "get", "lock", "fetch", "store", "unlock", "poll"},
                               for : Callers \cup {None}, slip : Slips \cup {None}]]
    /\ used \in 0..(HourLimit + 1) /\ cached \in BOOLEAN /\ lock \in Workers \cup {None}
    /\ facts \in 0..MaxFacts
    /\ read \subseteq Slips /\ raced \subseteq Slips /\ lapsed \in BOOLEAN

(* A tool with side effects runs only after a slip for it was read, and    *)
(* once at most, however many requests confirm and cancel it, whatever     *)
(* times out - unless two of them read the slip before either deleted it,  *)
(* or Redis failed to delete it (ResolvePendingConfirmation).              *)
RunsOnceConfirmed ==
    \A p \in Slips :
        /\ executed[p] > 0 => p \in read /\ slip[p] # "none"
        /\ p \notin raced => executed[p] <= 1

(* One goroutine at a time fetches under the lock, as long as no lock      *)
(* ended before the work it was taken for (CachedExecute).                 *)
OneFetchUnderLock ==
    ~lapsed => \A w, x \in Workers : Holds(w) /\ Holds(x) => w = x

(* A tool that asks for a confirmation runs once, and a cached one is      *)
(* fetched once while its lock lives.                                      *)
ToolsRunOnce == RunsOnceConfirmed /\ OneFetchUnderLock
=============================================================================
