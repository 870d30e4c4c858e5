-------------------------- MODULE AssistantProofs --------------------------
(***************************************************************************)
(* Proofs about the parts of MCAssistant, for every value of its           *)
(* constants: the tools, the feedback chat, the providers, the files sent  *)
(* with a question and the session; MaterialProofs goes on with the rest.  *)
(* What each part asserts is not inductive.                                *)
(*                                                                         *)
(* Tools: a slip that nobody raced for is in one hand at a time: stored in *)
(* Redis, with the request that read it, with the goroutine it was given   *)
(* to, or spent.  Feedback: the results of FeedbackProofs.  Providers: the *)
(* keys a lone request has tried are the last the pool's counter passed.   *)
(* Files: an upload has its name alone until its row enters, and the       *)
(* quota it read holds for as long as no other upload has entered.         *)
(* Session: while nothing overlaps, the row's messages are questions with  *)
(* their answers behind them, and the list is made of such pairs.          *)
(***************************************************************************)
EXTENDS MCAssistant, Integers, Sequences, FiniteSetTheorems, FunctionTheorems,
        WellFoundedInduction, TLAPS

AskerStep == {"new", "delete", "check", "wait", "done"}
Asker == [step : AskerStep, slip : Slips \cup {None}]
WorkerStep ==
    {"idle", "go", "insert", "evict", "get", "lock", "fetch", "store", "unlock", "poll"}
Worker == [tool : Tools \cup {"confirmed", "none"}, next : WorkerStep,
           for : Callers \cup {None}, slip : Slips \cup {None}]

Shape ==
    /\ asker \in [Askers -> Asker] /\ worker \in [Workers -> Worker]
    /\ slip \in [Slips -> {"none", "stored", "gone"}]
    /\ executed \in [Slips -> Nat]
    /\ lock \in Workers \cup {None}

Reads(a, p) == asker[a].step = "delete" /\ asker[a].slip = p
Checks(a, p) == asker[a].step = "check" /\ asker[a].slip = p
Has(a, p) == Reads(a, p) \/ Checks(a, p)
Runs(w, p) == worker[w].tool = "confirmed" /\ worker[w].slip = p

(* Whoever has a slip got it from Redis.                                   *)
WasRead(p) ==
    (\E a \in Askers : Has(a, p)) \/ (\E w \in Workers : Runs(w, p)) \/ executed[p] > 0 =>
        p \in read /\ slip[p] # "none"

InOneHand(p) ==
    /\ \A a, b \in Askers : Has(a, p) /\ Has(b, p) => a = b
    /\ \A w, x \in Workers : Runs(w, p) /\ Runs(x, p) => w = x
    /\ \A a \in Askers, w \in Workers : ~(Has(a, p) /\ Runs(w, p))
    /\ executed[p] <= 1
    /\ executed[p] = 1 => /\ \A a \in Askers : ~Has(a, p)
                          /\ \A w \in Workers : ~Runs(w, p)
    /\ slip[p] = "stored" => /\ executed[p] = 0
                             /\ \A a \in Askers : ~Checks(a, p)
                             /\ \A w \in Workers : ~Runs(w, p)

SlipOK(p) == WasRead(p) /\ (p \notin raced => InOneHand(p))

LockIsHeld == ~lapsed => \A w \in Workers : Holds(w) => lock = w

IInv == Shape /\ LockIsHeld /\ \A p \in Slips : SlipOK(p)

-----------------------------------------------------------------------------

LEMMA InitOK == Init => IInv
  <1> SUFFICES ASSUME Init PROVE IInv
    OBVIOUS
  <1>1. Shape
    BY DEF Init, Shape, Asker, AskerStep, Worker, WorkerStep, NoWork
  <1>2. LockIsHeld
    BY DEF Init, LockIsHeld, Holds, NoWork
  <1>3. ASSUME NEW p \in Slips PROVE SlipOK(p)
    BY DEF Init, SlipOK, WasRead, InOneHand, Has, Reads, Checks, Runs, NoWork
  <1> QED
    BY <1>1, <1>2, <1>3 DEF IInv

(* Where no slip and no count changes, and nobody gets hold of a slip.     *)
LEMMA SlipsRest ==
  ASSUME IInv, UNCHANGED slipVars,
         \A a \in Askers, p \in Slips :
             (Has(a, p)' => Has(a, p)) /\ (Checks(a, p)' => Checks(a, p)),
         \A w \in Workers, p \in Slips : Runs(w, p)' => Runs(w, p)
  PROVE  \A p \in Slips : SlipOK(p)'
  <1> SUFFICES ASSUME NEW p \in Slips PROVE SlipOK(p)'
    OBVIOUS
  <1>1. UNCHANGED <<slip, executed, read, raced>> /\ SlipOK(p)
    BY DEF slipVars, IInv
  <1>2. WasRead(p)'
    BY <1>1 DEF SlipOK, WasRead
  <1>3. InOneHand(p) => InOneHand(p)'
    BY <1>1 DEF InOneHand
  <1> QED
    BY <1>1, <1>2, <1>3 DEF SlipOK

(* No asker gets hold of a slip when one of them is done.                  *)
AskersRest ==
    \A a \in Askers : asker'[a] = asker[a] \/ asker'[a].step \in {"wait", "done"}

LEMMA ReturnsAsker ==
  ASSUME Shape, NEW c, UNCHANGED asker \/ asker' = [asker EXCEPT ![c].step = "done"]
  PROVE  asker' \in [Askers -> Asker] /\ AskersRest
  BY DEF Shape, Asker, AskerStep, AskersRest

LEMMA AskersRestOK ==
  ASSUME AskersRest
  PROVE  \A a \in Askers, p \in Slips :
             (Has(a, p)' => Has(a, p)) /\ (Checks(a, p)' => Checks(a, p))
  BY DEF AskersRest, Has, Reads, Checks

(* A goroutine that changes to a record that runs nothing confirmed.       *)
LEMMA WorkerTo ==
  ASSUME Shape, NEW w \in Workers, NEW r \in Worker, worker' = [worker EXCEPT ![w] = r]
  PROVE  /\ worker' \in [Workers -> Worker] /\ worker'[w] = r
         /\ \A x \in Workers \ {w} : worker'[x] = worker[x]
  BY DEF Shape

LEMMA WorksTo ==
  ASSUME Shape, NEW w \in Workers, NEW s \in WorkerStep, Works(w, s)
  PROVE  /\ worker' \in [Workers -> Worker]
         /\ worker'[w].next = s /\ worker'[w].tool = worker[w].tool
         /\ worker'[w].slip = worker[w].slip
         /\ \A x \in Workers \ {w} : worker'[x] = worker[x]
  BY DEF Shape, Works, Worker

LEMMA RunsRest ==
  ASSUME NEW w \in Workers, \A x \in Workers \ {w} : worker'[x] = worker[x],
         worker'[w].tool = "confirmed" =>
             worker[w].tool = "confirmed" /\ worker'[w].slip = worker[w].slip
  PROVE  \A x \in Workers, p \in Slips : Runs(x, p)' => Runs(x, p)
  BY DEF Runs

LEMMA FinishesTo ==
  ASSUME Shape, NEW w \in Workers, Finishes(w)
  PROVE  /\ worker' \in [Workers -> Worker] /\ asker' \in [Askers -> Asker]
         /\ worker'[w] = NoWork
         /\ \A x \in Workers \ {w} : worker'[x] = worker[x]
         /\ AskersRest
         /\ \A x \in Workers, p \in Slips : Runs(x, p)' => Runs(x, p)
  <1>1. NoWork \in Worker /\ NoWork.tool = "none"
    BY DEF NoWork, Worker, WorkerStep
  <1>2. /\ worker' \in [Workers -> Worker] /\ worker'[w] = NoWork
        /\ \A x \in Workers \ {w} : worker'[x] = worker[x]
    BY <1>1, WorkerTo DEF Finishes
  <1>3. PICK c : c = worker[w].for
    OBVIOUS
  <1>4. UNCHANGED asker \/ asker' = [asker EXCEPT ![c].step = "done"]
    BY <1>3 DEF Finishes, Returns, Records
  <1> QED
    BY <1>1, <1>2, <1>4, ReturnsAsker, RunsRest

(* The lock and its holders, where a goroutine ends or goes on elsewhere.  *)
LEMMA LockRests ==
  ASSUME IInv, UNCHANGED <<lock, lapsed>>,
         \A w \in Workers : Holds(w)' => Holds(w)
  PROVE  LockIsHeld'
  BY DEF IInv, LockIsHeld

-----------------------------------------------------------------------------
(* Run.                                                                    *)

LEMMA StartsTo ==
  ASSUME Shape, NEW c \in Callers, NEW tool \in Tools \cup {"confirmed"},
         NEW first \in {"go", "get", "insert"}, NEW p \in Slips \cup {None},
         Starts(c, tool, first, p)
  PROVE  \E w \in Workers :
           /\ worker' \in [Workers -> Worker]
           /\ worker[w] = NoWork
           /\ worker'[w] = [tool |-> tool, next |-> first, for |-> c, slip |-> p]
           /\ \A x \in Workers \ {w} : worker'[x] = worker[x]
           /\ \A x \in Workers : Holds(x)' => Holds(x)
  <1> DEFINE r == [tool |-> tool, next |-> first, for |-> c, slip |-> p]
  <1>1. PICK w \in Workers : worker[w] = NoWork /\ worker' = [worker EXCEPT ![w] = r]
    BY DEF Starts
  <1>2. r \in Worker /\ r.next = first
    BY DEF Worker, WorkerStep
  <1> HIDE DEF r
  <1>3. /\ worker' \in [Workers -> Worker] /\ worker'[w] = r
        /\ \A x \in Workers \ {w} : worker'[x] = worker[x]
    BY <1>1, <1>2, WorkerTo
  <1>4. \A x \in Workers : Holds(x)' => Holds(x)
    BY <1>2, <1>3 DEF Holds
  <1> QED
    BY <1>1, <1>3, <1>4 DEF r

(* Steps in which no goroutine and no asker moves.                         *)
LEMMA LoopRests ==
  ASSUME IInv, UNCHANGED <<asker, worker, slipVars, lock, lapsed>>
  PROVE  IInv'
  <1>1. \A p \in Slips : SlipOK(p)'
    BY SlipsRest DEF Has, Reads, Checks, Runs
  <1>2. LockIsHeld'
    BY LockRests DEF Holds
  <1>3. Shape'
    BY DEF IInv, Shape, slipVars
  <1> QED
    BY <1>1, <1>2, <1>3 DEF IInv

LEMMA CallToolOK ==
  ASSUME IInv, NEW l \in Loops, CallTool(l)
  PROVE  IInv'
  <1>1. UNCHANGED <<asker, slipVars, lock, lapsed>> /\ Shape
    BY DEF CallTool, cacheVars, IInv
  <1>2. CASE UNCHANGED worker
    BY <1>1, <1>2, LoopRests
  <1>3. CASE \E tool \in Tools : Starts(l, tool, FirstStep(tool), None)
    <2>1. PICK tool \in Tools : Starts(l, tool, FirstStep(tool), None)
      BY <1>3
    <2>2. PICK first \in {"go", "get", "insert"} : first = FirstStep(tool)
      BY DEF FirstStep, Tools
    <2>3. l \in Callers /\ Starts(l, tool, first, None)
      BY <2>1, <2>2 DEF Callers
    <2>4. PICK w \in Workers :
            /\ worker' \in [Workers -> Worker]
            /\ worker'[w] = [tool |-> tool, next |-> first, for |-> l, slip |-> None]
            /\ \A x \in Workers \ {w} : worker'[x] = worker[x]
            /\ \A x \in Workers : Holds(x)' => Holds(x)
      BY <1>1, <2>3, StartsTo
    <2>5. worker'[w].tool # "confirmed"
      BY <2>4 DEF Tools
    <2>6. \A x \in Workers, p \in Slips : Runs(x, p)' => Runs(x, p)
      BY <2>4, <2>5, RunsRest
    <2>7. \A p \in Slips : SlipOK(p)'
      BY <1>1, <2>6, SlipsRest DEF Has, Reads, Checks
    <2>8. Shape'
      BY <1>1, <2>4 DEF Shape, slipVars
    <2> QED
      BY <1>1, <2>4, <2>7, <2>8, LockRests DEF IInv
  <1> QED
    BY <1>2, <1>3 DEF CallTool

(* A slip nobody has had.                                                  *)
LEMMA PutAsideOK ==
  ASSUME IInv, NEW l \in Loops, PutAside(l)
  PROVE  IInv'
  <1>1. PICK p \in Slips : /\ slip[p] = "none"
                           /\ \E s \in {"stored", "gone"} : slip' = [slip EXCEPT ![p] = s]
    BY DEF PutAside
  <1>2. UNCHANGED <<asker, worker, executed, read, raced, lock, lapsed>>
    BY DEF PutAside, cacheVars
  <1>3. /\ slip' \in [Slips -> {"none", "stored", "gone"}] /\ slip'[p] # "none"
        /\ \A q \in Slips \ {p} : slip'[q] = slip[q]
    BY <1>1 DEF IInv, Shape
  <1>4. Shape'
    BY <1>2, <1>3 DEF IInv, Shape
  <1>5. LockIsHeld'
    BY <1>2, LockRests DEF Holds
  <1>6. ASSUME NEW q \in Slips PROVE SlipOK(q)'
    <2>1. SlipOK(q) /\ executed[q] \in Nat
      BY DEF IInv, Shape
    <2>2. CASE q = p
      BY <1>1, <1>2, <1>3, <2>1, <2>2 DEF SlipOK, WasRead, InOneHand, Has, Reads, Checks, Runs
    <2>3. CASE q # p
      BY <1>2, <1>3, <2>1, <2>3 DEF SlipOK, WasRead, InOneHand, Has, Reads, Checks, Runs
    <2> QED
      BY <2>2, <2>3
  <1> QED
    BY <1>4, <1>5, <1>6 DEF IInv

-----------------------------------------------------------------------------
(* Goroutines.                                                             *)

(* A goroutine that neither starts nor runs what was confirmed, and leaves *)
(* the lock alone.                                                         *)
LEMMA FinishesOK ==
  ASSUME IInv, NEW w \in Workers, Finishes(w), UNCHANGED <<slipVars, lock, lapsed>>
  PROVE  IInv'
  <1>1. Shape
    BY DEF IInv
  <1>2. /\ worker' \in [Workers -> Worker] /\ asker' \in [Askers -> Asker]
        /\ worker'[w] = NoWork
        /\ \A x \in Workers \ {w} : worker'[x] = worker[x]
        /\ AskersRest
        /\ \A x \in Workers, p \in Slips : Runs(x, p)' => Runs(x, p)
    BY <1>1, FinishesTo
  <1>3. \A p \in Slips : SlipOK(p)'
    BY <1>2, AskersRestOK, SlipsRest
  <1>4. LockIsHeld'
    BY <1>2, LockRests DEF Holds, NoWork
  <1>5. Shape'
    BY <1>1, <1>2 DEF Shape, slipVars
  <1> QED
    BY <1>3, <1>4, <1>5 DEF IInv

LEMMA WorksOK ==
  ASSUME IInv, NEW w \in Workers, NEW s \in WorkerStep, Works(w, s),
         UNCHANGED <<asker, slipVars>>, lock' \in Workers \cup {None}, LockIsHeld'
  PROVE  IInv'
  <1>1. Shape
    BY DEF IInv
  <1>2. /\ worker' \in [Workers -> Worker]
        /\ \A x \in Workers, p \in Slips : Runs(x, p)' => Runs(x, p)
    BY <1>1, WorksTo, RunsRest
  <1>3. \A p \in Slips : SlipOK(p)'
    BY <1>2, SlipsRest DEF Has, Reads, Checks
  <1>4. Shape'
    BY <1>1, <1>2 DEF Shape, slipVars
  <1> QED
    BY <1>3, <1>4 DEF IInv

LEMMA TimeOutOK ==
  ASSUME IInv, NEW w \in Workers, TimeOut(w)
  PROVE  IInv'
  <1>1. Shape /\ UNCHANGED <<slipVars, lock, lapsed>>
    BY DEF IInv, TimeOut, cacheVars
  <1>2. /\ worker' \in [Workers -> Worker]
        /\ worker'[w].tool = worker[w].tool /\ worker'[w].next = worker[w].next
        /\ worker'[w].slip = worker[w].slip
        /\ \A x \in Workers \ {w} : worker'[x] = worker[x]
    BY <1>1 DEF TimeOut, Shape, Worker
  <1>3. PICK c : c = worker[w].for
    OBVIOUS
  <1>4. UNCHANGED asker \/ asker' = [asker EXCEPT ![c].step = "done"]
    BY <1>3 DEF TimeOut, Returns, Records
  <1>5. asker' \in [Askers -> Asker] /\ AskersRest
    BY <1>1, <1>4, ReturnsAsker
  <1>6. \A p \in Slips : SlipOK(p)'
    BY <1>1, <1>2, <1>5, RunsRest, AskersRestOK, SlipsRest
  <1>7. LockIsHeld'
    BY <1>1, <1>2, LockRests DEF Holds
  <1>8. Shape'
    BY <1>1, <1>2, <1>5 DEF Shape, slipVars
  <1> QED
    BY <1>6, <1>7, <1>8 DEF IInv

(* The hand that had the slip is empty after the tool has run.             *)
LEMMA RunConfirmedOK ==
  ASSUME IInv, NEW w \in Workers, RunConfirmed(w)
  PROVE  IInv'
  <1>1. CASE UNCHANGED executed
    BY <1>1, FinishesOK DEF RunConfirmed, slipVars, cacheVars
  <1>2. CASE executed' = [executed EXCEPT ![worker[w].slip] = @ + 1]
    <2>1. Shape /\ UNCHANGED <<slip, read, raced, lock, lapsed>>
      BY DEF IInv, RunConfirmed, cacheVars
    <2>2. /\ worker' \in [Workers -> Worker] /\ asker' \in [Askers -> Asker]
          /\ worker'[w] = NoWork
          /\ \A x \in Workers \ {w} : worker'[x] = worker[x]
          /\ AskersRest
          /\ \A x \in Workers, p \in Slips : Runs(x, p)' => Runs(x, p)
      BY <2>1, FinishesTo DEF RunConfirmed
    <2>3. executed' \in [Slips -> Nat]
      <3>1. executed \in [Slips -> Nat]
        BY <2>1 DEF Shape
      <3>2. executed' = [p \in Slips |-> IF p = worker[w].slip THEN executed[p] + 1
                                         ELSE executed[p]]
        BY <1>2, <3>1
      <3> QED
        BY <3>1, <3>2
    <2>4. ASSUME NEW p \in Slips PROVE SlipOK(p)'
      <3>0. /\ \A a \in Askers : (Has(a, p)' => Has(a, p)) /\ (Checks(a, p)' => Checks(a, p))
            /\ \A x \in Workers : Runs(x, p)' => Runs(x, p)
            /\ SlipOK(p) /\ executed[p] \in Nat
        BY <2>1, <2>2, AskersRestOK DEF IInv, Shape
      <3>1. CASE worker[w].slip = p
        <4>1. Runs(w, p) /\ executed'[p] = executed[p] + 1
          BY <1>2, <2>1, <3>1 DEF RunConfirmed, DoesOne, Runs, Shape
        <4>2. WasRead(p)'
          BY <2>1, <3>0, <4>1 DEF SlipOK, WasRead
        <4>3. ASSUME p \notin raced PROVE InOneHand(p)'
          <5>1. InOneHand(p) /\ ~Runs(w, p)'
            BY <2>2, <3>0, <4>3 DEF SlipOK, Runs, NoWork
          <5>2. executed[p] = 0 /\ slip[p] # "stored" /\ \A a \in Askers : ~Has(a, p)
            BY <3>0, <4>1, <5>1 DEF InOneHand
          <5>3. \A x \in Workers : ~Runs(x, p)'
            BY <2>2, <3>0, <4>1, <5>1 DEF InOneHand
          <5> QED
            BY <2>1, <3>0, <4>1, <5>2, <5>3 DEF InOneHand
        <4> QED
          BY <2>1, <4>2, <4>3 DEF SlipOK
      <3>2. CASE worker[w].slip # p
        <4>1. executed'[p] = executed[p]
          BY <1>2, <2>1, <3>2 DEF Shape
        <4>2. WasRead(p)'
          BY <2>1, <3>0, <4>1 DEF SlipOK, WasRead
        <4>3. InOneHand(p) => InOneHand(p)'
          BY <2>1, <3>0, <4>1 DEF InOneHand
        <4> QED
          BY <2>1, <3>0, <4>2, <4>3 DEF SlipOK
      <3> QED
        BY <3>1, <3>2
    <2>5. LockIsHeld'
      BY <2>1, <2>2, LockRests DEF Holds, NoWork
    <2>6. Shape'
      BY <2>1, <2>2, <2>3 DEF Shape
    <2> QED
      BY <2>4, <2>5, <2>6 DEF IInv
  <1> QED
    BY <1>1, <1>2 DEF RunConfirmed

(* The lock goes from nobody to one goroutine, ...                         *)
LEMMA TakeLockOK ==
  ASSUME IInv, NEW w \in Workers, TakeLock(w), None \notin Workers
  PROVE  IInv'
  <1>1. Shape /\ UNCHANGED <<asker, slipVars, lapsed>>
    BY DEF IInv, TakeLock
  <1>2. CASE lock = None
    <2>1. lock' = w /\ Works(w, "fetch")
      BY <1>2 DEF TakeLock
    <2>2. \A x \in Workers \ {w} : worker'[x] = worker[x]
      BY <1>1, <2>1, WorksTo DEF WorkerStep
    <2>3. LockIsHeld'
      BY <1>1, <1>2, <2>1, <2>2 DEF IInv, LockIsHeld, Holds
    <2> QED
      BY <1>1, <2>1, <2>3, WorksOK DEF WorkerStep
  <1>3. CASE lock # None
    <2>1. UNCHANGED lock /\ Works(w, "poll")
      BY <1>3 DEF TakeLock
    <2>2. worker'[w].next = "poll" /\ \A x \in Workers \ {w} : worker'[x] = worker[x]
      BY <1>1, <2>1, WorksTo DEF WorkerStep
    <2>3. LockIsHeld'
      BY <1>1, <2>1, <2>2, LockRests DEF Holds
    <2> QED
      BY <1>1, <2>1, <2>3, WorksOK DEF WorkerStep, Shape
  <1> QED
    BY <1>2, <1>3

(* ... and stays while the work goes on.                                   *)
LEMMA HolderMoves ==
  ASSUME IInv, NEW w \in Workers, NEW s \in {"store", "unlock"}, Works(w, s), Holds(w),
         UNCHANGED <<asker, slipVars, lock, lapsed>>
  PROVE  IInv'
  <1>1. Shape
    BY DEF IInv
  <1>2. \A x \in Workers : Holds(x)' => Holds(x)
    BY <1>1, WorksTo DEF WorkerStep, Holds
  <1>3. LockIsHeld'
    BY <1>2, LockRests
  <1> QED
    BY <1>1, <1>3, WorksOK DEF WorkerStep, Shape

LEMMA UnlockOK ==
  ASSUME IInv, NEW w \in Workers, Unlock(w)
  PROVE  IInv'
  <1>1. CASE UNCHANGED lock
    BY <1>1, FinishesOK DEF Unlock
  <1>2. CASE lock' = None
    <2>1. Shape /\ UNCHANGED <<slipVars, lapsed>> /\ Holds(w) /\ Finishes(w)
      BY DEF IInv, Unlock, DoesOne, Holds
    <2>2. /\ worker' \in [Workers -> Worker] /\ asker' \in [Askers -> Asker]
          /\ worker'[w] = NoWork
          /\ \A x \in Workers \ {w} : worker'[x] = worker[x]
          /\ AskersRest
          /\ \A x \in Workers, p \in Slips : Runs(x, p)' => Runs(x, p)
      BY <2>1, FinishesTo
    <2>3. \A p \in Slips : SlipOK(p)'
      BY <2>1, <2>2, AskersRestOK, SlipsRest
    <2>4. \A x \in Workers : Holds(x)' => Holds(x) /\ x # w
      BY <2>2 DEF Holds, NoWork
    <2>5. LockIsHeld'
      BY <2>1, <2>4 DEF IInv, LockIsHeld
    <2>6. Shape'
      BY <1>2, <2>1, <2>2 DEF Shape, slipVars
    <2> QED
      BY <2>3, <2>5, <2>6 DEF IInv
  <1> QED
    BY <1>1, <1>2 DEF Unlock

(* A lock that ends under its holder has lapsed.                           *)
LEMMA LockEndsOK ==
  ASSUME IInv, LockEnds
  PROVE  IInv'
  <1>1. lock' = None /\ UNCHANGED <<asker, slipVars, worker>>
    BY DEF LockEnds
  <1>2. Shape'
    BY <1>1 DEF IInv, Shape, slipVars
  <1>3. \A p \in Slips : SlipOK(p)'
    BY <1>1, SlipsRest DEF Has, Reads, Checks, Runs
  <1>4. \A w \in Workers : Holds(w)' = Holds(w)
    BY <1>1 DEF Holds
  <1>5. ASSUME ~lapsed' PROVE \A w \in Workers : ~Holds(w)
    BY <1>5 DEF IInv, LockIsHeld, LockEnds
  <1>6. LockIsHeld'
    BY <1>4, <1>5 DEF LockIsHeld
  <1> QED
    BY <1>2, <1>3, <1>6 DEF IInv

LEMMA WorkOK ==
  ASSUME IInv, NEW w \in Workers, Work(w), None \notin Workers
  PROVE  IInv'
  <1>1. CASE TimeOut(w) \/ RunConfirmed(w) \/ TakeLock(w) \/ Unlock(w)
    BY <1>1, TimeOutOK, RunConfirmedOK, TakeLockOK, UnlockOK
  <1>2. CASE RunPlain(w) \/ EvictOverflow(w) \/ ForgetFacts(w) \/ FetchAlone(w)
    BY <1>2, FinishesOK DEF RunPlain, EvictOverflow, ForgetFacts, FetchAlone, cacheVars
  <1>3. CASE SaveFact(w)
    <2>1. UNCHANGED <<slipVars, lock, lapsed>> /\ Shape
      BY <1>3 DEF SaveFact, cacheVars, IInv
    <2>2. CASE Finishes(w)
      BY <2>1, <2>2, FinishesOK
    <2>3. CASE Works(w, "evict") /\ UNCHANGED <<loop, asker>>
      <3>1. worker'[w].next = "evict" /\ \A x \in Workers \ {w} : worker'[x] = worker[x]
        BY <2>1, <2>3, WorksTo DEF WorkerStep
      <3>2. LockIsHeld'
        BY <2>1, <3>1, LockRests DEF Holds
      <3> QED
        BY <2>1, <2>3, <3>2, WorksOK DEF WorkerStep, Shape
    <2> QED
      BY <1>3, <2>2, <2>3 DEF SaveFact
  <1>4. CASE GetCached(w)
    <2>1. UNCHANGED <<slipVars, lock, lapsed>> /\ Shape
      BY <1>4 DEF GetCached, cacheVars, IInv
    <2>2. CASE Finishes(w)
      BY <2>1, <2>2, FinishesOK
    <2>3. CASE Works(w, "lock") /\ UNCHANGED <<loop, asker>>
      <3>1. worker'[w].next = "lock" /\ \A x \in Workers \ {w} : worker'[x] = worker[x]
        BY <2>1, <2>3, WorksTo DEF WorkerStep
      <3>2. LockIsHeld'
        BY <2>1, <3>1, LockRests DEF Holds
      <3> QED
        BY <2>1, <2>3, <3>2, WorksOK DEF WorkerStep, Shape
    <2> QED
      BY <1>4, <2>2, <2>3 DEF GetCached
  <1>5. CASE Fetch(w) \/ Store(w)
    BY <1>5, HolderMoves DEF Fetch, Store, DoesOne, Holds, cacheVars
  <1> QED
    BY <1>1, <1>2, <1>3, <1>4, <1>5 DEF Work

-----------------------------------------------------------------------------
(* ConfirmToolCall.                                                        *)

LEMMA AsksTo ==
  ASSUME Shape, NEW a \in Askers, NEW p \in Slips \cup {None}, NEW s \in AskerStep,
         Asks(a, p, s)
  PROVE  /\ asker' \in [Askers -> Asker]
         /\ asker'[a] = [step |-> s, slip |-> p]
         /\ \A b \in Askers \ {a} : asker'[b] = asker[b]
  BY DEF Shape, Asks, Asker

(* What is left to show of an action of one asker about slip p.            *)
LEMMA AskOK ==
  ASSUME IInv, NEW a \in Askers, NEW p \in Slips,
         UNCHANGED <<executed, worker, lock, lapsed>>,
         asker' \in [Askers -> Asker], asker'[a].slip = p,
         \A b \in Askers \ {a} : asker'[b] = asker[b],
         slip' \in [Slips -> {"none", "stored", "gone"}],
         \A q \in Slips \ {p} : slip'[q] = slip[q],
         read \subseteq read', read' \subseteq read \cup {p},
         raced \subseteq raced', raced' \subseteq raced \cup {p},
         SlipOK(p)'
  PROVE  IInv'
  <1>1. Shape'
    BY DEF IInv, Shape
  <1>2. LockIsHeld'
    BY LockRests DEF Holds
  <1>3. ASSUME NEW q \in Slips \ {p} PROVE SlipOK(q)'
    <2>1. /\ \A b \in Askers : (Has(b, q)' => Has(b, q)) /\ (Checks(b, q)' => Checks(b, q))
          /\ \A w \in Workers : Runs(w, q)' => Runs(w, q)
          /\ slip'[q] = slip[q] /\ executed'[q] = executed[q]
          /\ (q \in read' <=> q \in read) /\ (q \in raced' <=> q \in raced)
      BY DEF Has, Reads, Checks, Runs
    <2>2. SlipOK(q)
      BY DEF IInv
    <2>3. WasRead(q)'
      BY <2>1, <2>2 DEF SlipOK, WasRead
    <2>4. InOneHand(q) => InOneHand(q)'
      BY <2>1 DEF InOneHand
    <2> QED
      BY <2>1, <2>2, <2>3, <2>4 DEF SlipOK
  <1> QED
    BY <1>1, <1>2, <1>3 DEF IInv

LEMMA CancelOK ==
  ASSUME IInv, NEW a \in Askers, Cancel(a)
  PROVE  IInv'
  <1>1. PICK p \in Slips :
          /\ slip[p] # "none" /\ Asks(a, p, "done")
          /\ \/ slip' = [slip EXCEPT ![p] = "gone"] /\ UNCHANGED raced
             \/ slip[p] = "stored" /\ UNCHANGED slip /\ raced' = raced \cup {p}
    BY DEF Cancel
  <1>2. UNCHANGED <<executed, worker, lock, lapsed, read>> /\ Shape /\ SlipOK(p)
    BY DEF Cancel, cacheVars, IInv
  <1>3. /\ asker' \in [Askers -> Asker] /\ asker'[a] = [step |-> "done", slip |-> p]
        /\ \A b \in Askers \ {a} : asker'[b] = asker[b]
    BY <1>1, <1>2, AsksTo DEF AskerStep
  <1>4. /\ \A b \in Askers : (Has(b, p)' => Has(b, p)) /\ (Checks(b, p)' => Checks(b, p))
        /\ \A w \in Workers : Runs(w, p)' => Runs(w, p)
    BY <1>2, <1>3 DEF Has, Reads, Checks, Runs
  <1>5. /\ slip' \in [Slips -> {"none", "stored", "gone"}]
        /\ \A q \in Slips \ {p} : slip'[q] = slip[q]
        /\ slip'[p] # "none" /\ (slip'[p] = "stored" => slip[p] = "stored")
        /\ raced \subseteq raced' /\ raced' \subseteq raced \cup {p}
    BY <1>1, <1>2 DEF Shape
  <1>6. WasRead(p)'
    BY <1>2, <1>4, <1>5 DEF SlipOK, WasRead
  <1>7. InOneHand(p) => InOneHand(p)'
    BY <1>2, <1>4, <1>5 DEF InOneHand
  <1>8. SlipOK(p)'
    BY <1>2, <1>5, <1>6, <1>7 DEF SlipOK
  <1> QED
    BY <1>2, <1>3, <1>5, <1>8, AskOK

(* The reader is the only hand, unless another has read and not deleted.   *)
LEMMA ReadSlipOK ==
  ASSUME IInv, NEW a \in Askers, ReadSlip(a)
  PROVE  IInv'
  <1>1. PICK p \in Slips :
          /\ slip[p] # "none"
          /\ IF slip[p] = "stored" THEN Asks(a, p, "delete") ELSE Asks(a, p, "done")
          /\ read' = IF slip[p] = "stored" THEN read \cup {p} ELSE read
          /\ raced' = IF \E b \in Askers : asker[b] = [step |-> "delete", slip |-> p]
                      THEN raced \cup {p} ELSE raced
    BY DEF ReadSlip
  <1>2. UNCHANGED <<executed, worker, lock, lapsed, slip>> /\ Shape /\ SlipOK(p)
    BY DEF ReadSlip, cacheVars, IInv
  <1>3. CASE slip[p] # "stored"
    <2>1. /\ asker' \in [Askers -> Asker] /\ asker'[a] = [step |-> "done", slip |-> p]
          /\ \A b \in Askers \ {a} : asker'[b] = asker[b]
      BY <1>1, <1>2, <1>3, AsksTo DEF AskerStep
    <2>2. /\ \A b \in Askers : (Has(b, p)' => Has(b, p)) /\ (Checks(b, p)' => Checks(b, p))
          /\ \A w \in Workers : Runs(w, p)' => Runs(w, p)
      BY <1>2, <2>1 DEF Has, Reads, Checks, Runs
    <2>3. read' = read /\ raced \subseteq raced' /\ raced' \subseteq raced \cup {p}
      BY <1>1, <1>3
    <2>4. SlipOK(p)'
      BY <1>2, <2>2, <2>3 DEF SlipOK, WasRead, InOneHand
    <2> QED
      BY <1>2, <2>1, <2>3, <2>4, AskOK DEF Shape
  <1>4. CASE slip[p] = "stored"
    <2>1. /\ asker' \in [Askers -> Asker] /\ asker'[a] = [step |-> "delete", slip |-> p]
          /\ \A b \in Askers \ {a} : asker'[b] = asker[b]
      BY <1>1, <1>2, <1>4, AsksTo DEF AskerStep
    <2>2. read' = read \cup {p} /\ raced \subseteq raced' /\ raced' \subseteq raced \cup {p}
      BY <1>1, <1>4
    <2>3. WasRead(p)'
      BY <1>2, <1>4, <2>2 DEF WasRead
    <2>4. ASSUME p \notin raced' PROVE InOneHand(p)'
      <3>1. InOneHand(p) /\ \A b \in Askers : ~Reads(b, p)
        <4>1. \A b \in Askers : asker[b] # [step |-> "delete", slip |-> p]
          BY <1>1, <2>4
        <4>2. \A b \in Askers : Reads(b, p) => asker[b] = [step |-> "delete", slip |-> p]
          BY <1>2 DEF Reads, Shape, Asker
        <4> QED
          BY <1>2, <2>2, <2>4, <4>1, <4>2 DEF SlipOK
      <3>2. executed[p] = 0 /\ (\A b \in Askers : ~Has(b, p)) /\ \A w \in Workers : ~Runs(w, p)
        BY <1>4, <3>1 DEF InOneHand, Has
      <3>3. /\ \A b \in Askers : Has(b, p)' => b = a
            /\ \A b \in Askers : ~Checks(b, p)'
            /\ \A w \in Workers : ~Runs(w, p)'
        BY <1>2, <2>1, <3>2 DEF Has, Reads, Checks, Runs
      <3> QED
        BY <1>2, <3>2, <3>3 DEF InOneHand
    <2>5. SlipOK(p)'
      BY <2>3, <2>4 DEF SlipOK
    <2> QED
      BY <1>2, <2>1, <2>2, <2>5, AskOK DEF Shape
  <1> QED
    BY <1>3, <1>4

LEMMA DeleteSlipOK ==
  ASSUME IInv, NEW a \in Askers, DeleteSlip(a), None \notin Slips
  PROVE  IInv'
  <1>1. UNCHANGED <<executed, worker, lock, lapsed, read>> /\ Shape
    BY DEF DeleteSlip, cacheVars, IInv
  <1>2. PICK p \in Slips \cup {None} : asker[a].slip = p
    BY <1>1 DEF Shape, Asker
  <1>3. /\ asker' \in [Askers -> Asker] /\ asker'[a] = [step |-> "check", slip |-> p]
        /\ \A b \in Askers \ {a} : asker'[b] = asker[b]
    BY <1>1, <1>2, AsksTo DEF DeleteSlip, AskerStep
  <1>4. \/ slip' = [slip EXCEPT ![p] = "gone"] /\ UNCHANGED raced
        \/ UNCHANGED slip /\ raced' = raced \cup {p}
    BY <1>2 DEF DeleteSlip
  <1>5. CASE p \in Slips
    <2>1. SlipOK(p) /\ Reads(a, p)
      BY <1>2, <1>5 DEF IInv, DeleteSlip, Reads
    <2>2. /\ slip' \in [Slips -> {"none", "stored", "gone"}]
          /\ \A q \in Slips \ {p} : slip'[q] = slip[q]
          /\ slip[p] # "none" => slip'[p] # "none"
          /\ p \notin raced' => slip'[p] = "gone"
          /\ raced \subseteq raced' /\ raced' \subseteq raced \cup {p}
      BY <1>1, <1>4, <1>5 DEF Shape
    <2>3. /\ \A b \in Askers : Has(b, p)' => Has(b, p)
          /\ \A w \in Workers : Runs(w, p)' => Runs(w, p)
      BY <1>1, <1>3, <2>1 DEF Has, Reads, Checks, Runs
    <2>4. WasRead(p)'
      BY <1>1, <2>1, <2>2, <2>3 DEF SlipOK, WasRead
    <2>5. p \notin raced' => InOneHand(p)'
      BY <1>1, <2>1, <2>2, <2>3 DEF SlipOK, InOneHand
    <2>6. SlipOK(p)'
      BY <2>4, <2>5 DEF SlipOK
    <2> QED
      BY <1>1, <1>3, <1>5, <2>2, <2>6, AskOK
  <1>6. CASE p \notin Slips
    <2>1. UNCHANGED slip /\ raced \subseteq raced' /\ \A q \in Slips : q \in raced' <=> q \in raced
      BY <1>1, <1>4, <1>6 DEF Shape
    <2>2. ASSUME NEW q \in Slips PROVE SlipOK(q)'
      <3>1. /\ \A b \in Askers : (Has(b, q)' => Has(b, q)) /\ (Checks(b, q)' => Checks(b, q))
            /\ \A w \in Workers : Runs(w, q)' => Runs(w, q)
        BY <1>1, <1>3, <1>6 DEF Has, Reads, Checks, Runs
      <3>2. SlipOK(q)
        BY DEF IInv
      <3> QED
        BY <1>1, <2>1, <3>1, <3>2 DEF SlipOK, WasRead, InOneHand
    <2>3. Shape' /\ LockIsHeld'
      BY <1>1, <1>3, <2>1, LockRests DEF Shape, Holds
    <2> QED
      BY <2>2, <2>3 DEF IInv
  <1> QED
    BY <1>5, <1>6

(* The slip goes from the request to the goroutine.                        *)
LEMMA ResolveOK ==
  ASSUME IInv, NEW a \in Askers, Resolve(a)
  PROVE  IInv'
  <1>1. UNCHANGED <<slipVars, lock, lapsed>> /\ Shape /\ asker[a].step = "check"
    BY DEF Resolve, cacheVars, IInv
  <1>2. PICK p \in Slips \cup {None} : asker[a].slip = p
    BY <1>1 DEF Shape, Asker
  <1>3. PICK s \in {"done", "wait"} :
          /\ Asks(a, p, s)
          /\ IF s = "done" THEN UNCHANGED worker ELSE Starts(a, "confirmed", "go", p)
    BY <1>2 DEF Resolve
  <1>4. /\ asker' \in [Askers -> Asker] /\ asker'[a] = [step |-> s, slip |-> p]
        /\ \A b \in Askers \ {a} : asker'[b] = asker[b]
    <2>1. s \in AskerStep /\ Shape /\ Asks(a, p, s)
      BY <1>1, <1>3 DEF AskerStep
    <2> QED
      BY <2>1, AsksTo
  <1>5. /\ \A b \in Askers, q \in Slips :
             (Has(b, q)' => Has(b, q) /\ b # a) /\ (Checks(b, q)' => Checks(b, q))
        /\ p \in Slips => Has(a, p) /\ Checks(a, p)
    BY <1>1, <1>2, <1>4 DEF Has, Reads, Checks
  <1>6. CASE UNCHANGED worker
    <2>1. \A q \in Slips : SlipOK(q)'
      BY <1>1, <1>5, <1>6, SlipsRest DEF Runs
    <2>2. Shape' /\ LockIsHeld'
      BY <1>1, <1>4, <1>6, LockRests DEF Shape, Holds, slipVars
    <2> QED
      BY <2>1, <2>2 DEF IInv
  <1>7. CASE Starts(a, "confirmed", "go", p)
    <2>1. PICK w \in Workers :
            /\ worker' \in [Workers -> Worker]
            /\ worker'[w] = [tool |-> "confirmed", next |-> "go", for |-> a, slip |-> p]
            /\ \A x \in Workers \ {w} : worker'[x] = worker[x]
            /\ \A x \in Workers : Holds(x)' => Holds(x)
      BY <1>1, <1>7, StartsTo DEF Callers
    <2>2. Shape' /\ LockIsHeld'
      BY <1>1, <1>4, <2>1, LockRests DEF Shape, slipVars
    <2>3. ASSUME NEW q \in Slips PROVE SlipOK(q)'
      <3>0. SlipOK(q) /\ UNCHANGED <<slip, executed, read, raced>> /\ executed[q] \in Nat
        BY <1>1 DEF IInv, slipVars, Shape
      <3>1. CASE q = p
        <4>1. \A x \in Workers : Runs(x, p)' => x = w \/ Runs(x, p)
          BY <2>1 DEF Runs
        <4>2. WasRead(p)'
          BY <1>5, <3>0, <3>1 DEF SlipOK, WasRead
        <4>3. ASSUME p \notin raced PROVE InOneHand(p)'
          <5>1. InOneHand(p) /\ Has(a, p) /\ Checks(a, p)
            BY <1>5, <3>0, <3>1, <4>3 DEF SlipOK
          <5>2. /\ executed[p] = 0 /\ slip[p] # "stored"
                /\ \A b \in Askers : ~Has(b, p)'
                /\ \A x \in Workers : Runs(x, p)' => x = w
            BY <1>5, <3>0, <3>1, <4>1, <5>1 DEF InOneHand
          <5> QED
            BY <3>0, <5>2 DEF InOneHand
        <4> QED
          BY <3>0, <3>1, <4>2, <4>3 DEF SlipOK
      <3>2. CASE q # p
        <4>1. \A x \in Workers : Runs(x, q)' => Runs(x, q)
          BY <2>1, <3>2 DEF Runs
        <4>2. WasRead(q)'
          BY <1>5, <3>0, <4>1 DEF SlipOK, WasRead
        <4>3. InOneHand(q) => InOneHand(q)'
          BY <1>5, <3>0, <4>1 DEF InOneHand
        <4> QED
          BY <3>0, <4>2, <4>3 DEF SlipOK
      <3> QED
        BY <3>1, <3>2
    <2> QED
      BY <2>2, <2>3 DEF IInv
  <1> QED
    BY <1>3, <1>6, <1>7

LEMMA SlipEndsOK ==
  ASSUME IInv, SlipEnds
  PROVE  IInv'
  <1>1. PICK p \in Slips : slip[p] = "stored" /\ slip' = [slip EXCEPT ![p] = "gone"]
    BY DEF SlipEnds
  <1>2. UNCHANGED <<asker, executed, read, raced, worker, lock, lapsed>>
    BY DEF SlipEnds, cacheVars
  <1>3. Shape' /\ LockIsHeld'
    BY <1>1, <1>2, LockRests DEF IInv, Shape, Holds
  <1>4. ASSUME NEW q \in Slips PROVE SlipOK(q)'
    <2>1. /\ slip[q] # "none" => slip'[q] # "none"
          /\ slip'[q] = "stored" => slip[q] = "stored"
          /\ SlipOK(q)
      BY <1>1 DEF IInv, Shape
    <2> QED
      BY <1>2, <2>1 DEF SlipOK, WasRead, InOneHand, Has, Reads, Checks, Runs
  <1> QED
    BY <1>3, <1>4 DEF IInv

-----------------------------------------------------------------------------

LEMMA NextOK ==
  ASSUME ToolAssumption, IInv, [Next]_vars
  PROVE  IInv'
  <1>0. None \notin Workers /\ None \notin Slips
    BY DEF ToolAssumption
  <1>1. CASE \E l \in Loops : Loop(l)
    <2> PICK l \in Loops : Loop(l)
      BY <1>1
    <2>1. CASE ModelFails(l) \/ ModelAnswers(l) \/ CallUnknown(l)
      BY <2>1, LoopRests DEF ModelFails, ModelAnswers, CallUnknown, cacheVars
    <2>2. CASE PutAside(l) \/ CallTool(l)
      BY <2>2, PutAsideOK, CallToolOK
    <2> QED
      BY <2>1, <2>2 DEF Loop
  <1>2. CASE \E w \in Workers : Work(w)
    BY <1>0, <1>2, WorkOK
  <1>3. CASE \E a \in Askers : Ask(a)
    BY <1>0, <1>3, CancelOK, ReadSlipOK, DeleteSlipOK, ResolveOK DEF Ask
  <1>4. CASE LockEnds \/ SlipEnds
    BY <1>4, LockEndsOK, SlipEndsOK
  <1>5. CASE HourEnds \/ CacheEnds \/ UNCHANGED vars
    BY <1>5, LoopRests DEF HourEnds, CacheEnds, vars, cacheVars
  <1> QED
    BY <1>1, <1>2, <1>3, <1>4, <1>5 DEF Next

(* A tool with side effects runs only after its slip was read, and once at *)
(* most unless two requests read it before either deleted it, or Redis did *)
(* not delete it (PutAside, ConfirmToolCall).                              *)
THEOREM ConfirmedRunsOnce == ToolAssumption /\ Spec => []RunsOnceConfirmed
  <1> SUFFICES ASSUME ToolAssumption PROVE Spec => []RunsOnceConfirmed
    OBVIOUS
  <1>1. Init => IInv
    BY InitOK
  <1>2. IInv /\ [Next]_vars => IInv'
    BY NextOK
  <1>3. IInv => RunsOnceConfirmed
    BY DEF IInv, SlipOK, WasRead, InOneHand, RunsOnceConfirmed
  <1> QED
    BY <1>1, <1>2, <1>3, PTL DEF Spec

(* As long as no lock ends before the work it was taken for, one goroutine *)
(* at a time fetches under it (CachedExecute).                             *)
THEOREM FetchIsExclusive == ToolAssumption /\ Spec => []OneFetchUnderLock
  <1> SUFFICES ASSUME ToolAssumption PROVE Spec => []OneFetchUnderLock
    OBVIOUS
  <1>1. Init => IInv
    BY InitOK
  <1>2. IInv /\ [Next]_vars => IInv'
    BY NextOK
  <1>3. IInv => OneFetchUnderLock
    BY DEF IInv, LockIsHeld, OneFetchUnderLock
  <1> QED
    BY <1>1, <1>2, <1>3, PTL DEF Spec

-----------------------------------------------------------------------------
(* In what answers a question: the tools and the feedback chat are parts,  *)
(* and what holds of a part alone holds of it there.                       *)

ToolsInv == (side = "tools" => IInv) /\ (side # "tools" => NoTools)

LEMMA ToolsInvHolds == AssistantSpec => []ToolsInv
  <1>1. AssistantInit => ToolsInv
    <2> SUFFICES ASSUME AssistantInit PROVE ToolsInv
      OBVIOUS
    <2>1. side = "tools" => Init
      BY DEF AssistantInit
    <2>2. side # "tools" => NoTools
      BY DEF AssistantInit
    <2> QED
      BY <2>1, <2>2, InitOK DEF ToolsInv
  <1>2. ToolsInv /\ [AssistantNext]_assistantVars => ToolsInv'
    <2> SUFFICES ASSUME ToolsInv, [AssistantNext]_assistantVars PROVE ToolsInv'
      OBVIOUS
    <2>1. CASE side = "tools"
      <3>1. side' = "tools" /\ [Next]_vars
        BY <2>1 DEF AssistantNext, assistantVars
      <3> QED
        BY <2>1, <3>1, AssistantAssumption, NextOK DEF ToolsInv
    <2>2. CASE side # "tools"
      <3>1. side' = side /\ UNCHANGED vars
        BY <2>2 DEF AssistantNext, assistantVars
      <3>2. NoTools'
        BY <2>2, <3>1 DEF ToolsInv, NoTools, vars, slipVars, cacheVars
      <3> QED
        BY <2>2, <3>1, <3>2 DEF ToolsInv
    <2> QED
      BY <2>1, <2>2
  <1> QED
    BY <1>1, <1>2, PTL DEF AssistantSpec

(* What the registry marks as asking for a confirmation runs once, unless  *)
(* two requests read its slip before either deleted it, and what           *)
(* CachedExecute keeps is fetched by one while its lock lives, as the      *)
(* assistant's run checks it.                                              *)
THEOREM ToolsAlwaysRunOnce == AssistantSpec => []ToolsRunOnce
  <1>1. ToolsInv => ToolsRunOnce
    <2> SUFFICES ASSUME ToolsInv PROVE ToolsRunOnce
      OBVIOUS
    <2>1. CASE side = "tools"
      BY <2>1 DEF ToolsInv, IInv, SlipOK, WasRead, InOneHand, LockIsHeld, RunsOnceConfirmed,
                  OneFetchUnderLock, ToolsRunOnce
    <2>2. CASE side # "tools"
      <3>1. NoTools
        BY <2>2 DEF ToolsInv
      <3>2. RunsOnceConfirmed
        BY <3>1 DEF NoTools, RunsOnceConfirmed
      <3>3. \A w \in Workers : ~Holds(w)
        BY <3>1 DEF NoTools, NoWork, Holds
      <3> QED
        BY <3>2, <3>3 DEF OneFetchUnderLock, ToolsRunOnce
    <2> QED
      BY <2>1, <2>2
  <1> QED
    BY <1>1, ToolsInvHolds, PTL

-----------------------------------------------------------------------------
(* Types of the tools: a goroutine that a loop waits for finds it waiting, *)
(* at a depth below the last, and a slip's tool has run, or runs, at most  *)
(* as often as somebody resolved it.                                       *)

LoopRecord ==
    [step : {"ask", "call", "wait", "done"}, depth : 0..MaxDepth, left : 0..MaxCalls,
     ran : BOOLEAN, how : {"none", "answer", "fallback", "pending", "error"}]
Goes(q) == q \in LoopRecord /\ (q.step # "done" => q.depth < MaxDepth)

LoopTypes ==
    /\ loop \in [Loops -> LoopRecord] /\ \A l \in Loops : Goes(loop[l])
    /\ \A w \in Workers : worker[w].for \in Loops => loop[worker[w].for].step = "wait"
    /\ \A w, x \in Workers : worker[w].for \in Loops /\ worker[w].for = worker[x].for => w = x

StoreTypes ==
    /\ used \in 0..(HourLimit + 1) /\ cached \in BOOLEAN /\ lapsed \in BOOLEAN
    /\ facts \in 0..MaxFacts
    /\ read \subseteq Slips /\ raced \subseteq Slips
    /\ \A a \in Askers : asker[a].step \in {"delete", "check"} => asker[a].slip \in Slips

Running(p) == {w \in Workers : Runs(w, p)}
Resolved(p) == {a \in Askers : asker[a].slip = p /\ asker[a].step \in {"wait", "done"}}
Counted(p) ==
    /\ IsFiniteSet(Running(p))
    /\ executed[p] + Cardinality(Running(p)) <= Cardinality(Resolved(p))

ToolTypes == LoopTypes /\ StoreTypes /\ \A p \in Slips : Counted(p)

LEMMA ToolConstants ==
  ASSUME ToolAssumption
  PROVE  /\ MaxDepth \in Nat \ {0} /\ MaxCalls \in Nat \ {0} /\ HourLimit \in Nat \ {0}
         /\ MemoryCap \in Nat /\ MaxFacts \in Nat /\ IsFiniteSet(Askers)
         /\ Loops \cap Askers = {} /\ None \notin Loops
  BY DEF ToolAssumption

LEMMA ToolTypesInit == ASSUME ToolAssumption, Init PROVE ToolTypes
  <1>1. LoopTypes
    <2>1. NewLoop \in LoopRecord /\ Goes(NewLoop)
      BY ToolConstants DEF NewLoop, LoopRecord, Goes
    <2>2. \A w \in Workers : worker[w].for = None
      BY DEF Init, NoWork
    <2> QED
      BY <2>1, <2>2, ToolConstants DEF Init, LoopTypes
  <1>2. StoreTypes
    <2>1. 0 \in 0..(HourLimit + 1) /\ 0 \in 0..MaxFacts
      BY ToolConstants
    <2>2. \A a \in Askers : asker[a].step = "new"
      BY DEF Init
    <2> QED
      BY <2>1, <2>2 DEF Init, StoreTypes
  <1>3. ASSUME NEW p \in Slips PROVE Counted(p)
    <2>1. Running(p) = {} /\ Resolved(p) = {} /\ executed[p] = 0
      BY DEF Init, Running, Resolved, Runs, NoWork
    <2> QED
      BY <2>1, FS_EmptySet DEF Counted
  <1> QED
    BY <1>1, <1>2, <1>3 DEF ToolTypes

-----------------------------------------------------------------------------
(* The loops.                                                              *)

LEMMA RecordFields ==
  ASSUME ToolAssumption, NEW q \in LoopRecord, NEW s \in {"ask", "done"}, NEW d \in 0..MaxDepth,
         s = "done" \/ d < MaxDepth, NEW k \in {"none", "answer", "fallback", "pending", "error"}
  PROVE  /\ Goes([q EXCEPT !.step = s, !.left = 0, !.depth = d, !.ran = TRUE])
         /\ s = "done" => Goes([q EXCEPT !.step = s, !.left = 0, !.depth = d, !.ran = TRUE, !.how = k])
         /\ s = "done" => Goes([q EXCEPT !.step = s, !.left = 0, !.how = k])
  <1>1. 0 \in 0..MaxCalls
    BY ToolConstants
  <1> DEFINE F == [q EXCEPT !.step = s, !.left = 0, !.depth = d, !.ran = TRUE]
             G == [q EXCEPT !.step = s, !.left = 0, !.depth = d, !.ran = TRUE, !.how = k]
             H == [q EXCEPT !.step = s, !.left = 0, !.how = k]
  <1>2. F \in LoopRecord /\ F.step = s /\ F.depth = d
    BY <1>1 DEF LoopRecord
  <1>3. G \in LoopRecord /\ G.step = s
    BY <1>1 DEF LoopRecord
  <1>4. H \in LoopRecord /\ H.step = s
    BY <1>1 DEF LoopRecord
  <1> HIDE DEF F, G, H
  <1>5. Goes(F) /\ (s = "done" => Goes(G) /\ Goes(H))
    BY <1>2, <1>3, <1>4 DEF Goes
  <1> QED
    BY <1>5 DEF F, G, H

LEMMA RecordedGoes ==
  ASSUME ToolAssumption, NEW q \in LoopRecord, q.depth < MaxDepth
  PROVE  Goes(Recorded(q))
  <1>1. /\ q.depth \in 0..MaxDepth /\ q.left \in 0..MaxCalls /\ MaxDepth \in Nat /\ MaxCalls \in Nat
    BY ToolConstants DEF LoopRecord
  <1> DEFINE round == q.depth + 1
  <1>2. round \in 0..MaxDepth
    BY <1>1
  <1>3. CASE q.left > 1
    <2>1. q.left - 1 \in 0..MaxCalls
      BY <1>1, <1>3
    <2> QED
      BY <1>3, <2>1 DEF Recorded, LoopRecord, Goes
  <1>4. CASE ~(q.left > 1) /\ round < MaxDepth
    <2>1. Recorded(q) = [q EXCEPT !.step = "ask", !.left = 0, !.depth = round, !.ran = TRUE]
      BY <1>4 DEF Recorded
    <2>2. PICK s \in {"ask", "done"} : s = "ask"
      BY Zenon
    <2> HIDE DEF round
    <2>3. Goes([q EXCEPT !.step = s, !.left = 0, !.depth = round, !.ran = TRUE])
      BY <1>2, <1>4, RecordFields, Zenon
    <2> QED
      BY <2>1, <2>2, <2>3
  <1>5. CASE ~(q.left > 1) /\ ~(round < MaxDepth)
    <2>1. Recorded(q) = [q EXCEPT !.step = "done", !.left = 0, !.depth = round, !.ran = TRUE, !.how = "answer"]
      BY <1>5 DEF Recorded
    <2>2. PICK s \in {"ask", "done"} : s = "done"
      BY Zenon
    <2>3. PICK k \in {"none", "answer", "fallback", "pending", "error"} : k = "answer"
      BY Zenon
    <2> HIDE DEF round
    <2>4. Goes([q EXCEPT !.step = s, !.left = 0, !.depth = round, !.ran = TRUE, !.how = k])
      BY <1>2, <2>2, RecordFields, Zenon
    <2> QED
      BY <2>1, <2>2, <2>3, <2>4
  <1> QED
    BY <1>3, <1>4, <1>5

(* A loop that nobody works for goes on.                                   *)
LEMMA LoopGoesOn ==
  ASSUME LoopTypes, UNCHANGED worker, NEW l \in Loops, loop[l].step # "wait",
         NEW q, loop' = [loop EXCEPT ![l] = q], Goes(q)
  PROVE  LoopTypes'
  <1>1. /\ loop' \in [Loops -> LoopRecord] /\ loop'[l] = q
        /\ \A k \in Loops \ {l} : loop'[k] = loop[k]
    BY DEF LoopTypes, Goes
  <1>2. \A w \in Workers : worker[w].for # l
    BY DEF LoopTypes
  <1> QED
    BY <1>1, <1>2 DEF LoopTypes

LEMMA EndGoes ==
  ASSUME ToolAssumption, NEW q \in LoopRecord, NEW k \in {"answer", "fallback", "pending", "error"}
  PROVE  Goes([q EXCEPT !.step = "done", !.left = 0, !.how = k])
  <1>1. q.depth \in 0..MaxDepth
    BY DEF LoopRecord
  <1>2. PICK s \in {"ask", "done"} : s = "done"
    BY Zenon
  <1>3. k \in {"none", "answer", "fallback", "pending", "error"}
    BY Zenon
  <1>4. Goes([q EXCEPT !.step = s, !.left = 0, !.how = k])
    BY <1>1, <1>2, <1>3, RecordFields, Zenon
  <1> QED
    BY <1>2, <1>4

LEMMA LoopTyped ==
  ASSUME ToolAssumption, LoopTypes, UNCHANGED worker, NEW l \in Loops,
         loop[l].step \in {"ask", "call"},
         \/ \E k \in {"answer", "fallback", "pending", "error"} : LoopEnds(l, k)
         \/ \E n \in 1..MaxCalls : loop' = [loop EXCEPT ![l].step = "call", ![l].left = n]
         \/ Records(l)
  PROVE  LoopTypes'
  <1> DEFINE q == loop[l]
  <1>1. q \in LoopRecord /\ Goes(q) /\ q.step # "wait" /\ q.step # "done" /\ q.depth < MaxDepth
    <2>1. q \in LoopRecord /\ Goes(q)
      BY DEF LoopTypes
    <2> QED
      BY <2>1 DEF Goes
  <1>2. CASE \E k \in {"answer", "fallback", "pending", "error"} : LoopEnds(l, k)
    <2>1. PICK k \in {"answer", "fallback", "pending", "error"} : LoopEnds(l, k)
      BY <1>2
    <2>2. loop' = [loop EXCEPT ![l] = [q EXCEPT !.step = "done", !.left = 0, !.how = k]]
      BY <2>1 DEF LoopEnds
    <2> QED
      BY <1>1, <2>2, EndGoes, LoopGoesOn
  <1>3. CASE \E n \in 1..MaxCalls : loop' = [loop EXCEPT ![l].step = "call", ![l].left = n]
    <2>1. PICK n \in 1..MaxCalls : loop' = [loop EXCEPT ![l] = [q EXCEPT !.step = "call", !.left = n]]
      BY <1>3
    <2>2. n \in 0..MaxCalls
      BY ToolConstants
    <2>3. Goes([q EXCEPT !.step = "call", !.left = n])
      BY <1>1, <2>2 DEF Goes, LoopRecord
    <2> QED
      BY <1>1, <2>1, <2>3, LoopGoesOn
  <1>4. CASE Records(l)
    <2>1. loop' = [loop EXCEPT ![l] = Recorded(q)]
      BY <1>4 DEF Records
    <2> QED
      BY <1>1, <2>1, RecordedGoes, LoopGoesOn
  <1> QED
    BY <1>2, <1>3, <1>4

(* Who returns to a loop was the one it waited for.                        *)
LEMMA ReturnTyped ==
  ASSUME ToolAssumption, LoopTypes, NEW w \in Workers, Returns(worker[w].for),
         worker[w].for # None, worker'[w].for = None,
         \A x \in Workers \ {w} : worker'[x] = worker[x]
  PROVE  LoopTypes'
  <1> DEFINE l == worker[w].for
  <1>1. None \notin Loops
    BY ToolConstants
  <1>2. CASE l \in Loops
    <2>1. loop[l] \in LoopRecord /\ loop[l].depth < MaxDepth
      BY <1>2 DEF LoopTypes, Goes
    <2>2. loop' = [loop EXCEPT ![l] = Recorded(loop[l])]
      BY <1>2 DEF Returns, Records
    <2>3. Goes(Recorded(loop[l]))
      BY <2>1, RecordedGoes
    <2>4. /\ loop' \in [Loops -> LoopRecord] /\ loop'[l] = Recorded(loop[l])
          /\ \A k \in Loops \ {l} : loop'[k] = loop[k]
      <3>1. PICK q \in LoopRecord : q = Recorded(loop[l])
        BY <2>3 DEF Goes
      <3>2. loop \in [Loops -> LoopRecord] /\ loop' = [loop EXCEPT ![l] = q]
        BY <2>2, <3>1 DEF LoopTypes
      <3> HIDE DEF l
      <3>3. /\ loop' \in [Loops -> LoopRecord] /\ loop'[l] = q
            /\ \A k \in Loops \ {l} : loop'[k] = loop[k]
        BY <1>2, <3>2
      <3> QED
        BY <3>1, <3>3
    <2>5. \A x \in Workers \ {w} : worker[x].for # l
      BY <1>2 DEF LoopTypes
    <2>6. ASSUME NEW x \in Workers, worker'[x].for \in Loops
          PROVE  x # w /\ worker[x].for = worker'[x].for /\ worker[x].for # l
      BY <1>1, <2>5, <2>6
    <2>7. \A k \in Loops : Goes(loop'[k])
      BY <2>3, <2>4 DEF LoopTypes
    <2> HIDE DEF l
    <2> QED
      BY <2>4, <2>6, <2>7 DEF LoopTypes
  <1>3. CASE l \notin Loops
    <2>1. UNCHANGED loop
      BY <1>3 DEF Returns
    <2>2. ASSUME NEW x \in Workers, worker'[x].for \in Loops
          PROVE  x # w /\ worker[x].for = worker'[x].for
      BY <1>1, <2>2
    <2> QED
      BY <2>1, <2>2 DEF LoopTypes
  <1> QED
    BY <1>2, <1>3

LEMMA FinishTyped ==
  ASSUME ToolAssumption, Shape, LoopTypes, NEW w \in Workers, Finishes(w)
  PROVE  LoopTypes'
  <1>1. worker'[w].for = None /\ \A x \in Workers \ {w} : worker'[x] = worker[x]
    BY FinishesTo DEF NoWork
  <1>2. CASE worker[w].for = None
    <2>1. UNCHANGED loop
      BY <1>2 DEF Finishes
    <2>2. \A x \in Workers : worker'[x].for = worker[x].for
      BY <1>1, <1>2
    <2> QED
      BY <2>1, <2>2 DEF LoopTypes
  <1>3. CASE worker[w].for # None
    BY <1>1, <1>3, ReturnTyped DEF Finishes
  <1> QED
    BY <1>2, <1>3

LEMMA WorksTyped ==
  ASSUME Shape, LoopTypes, UNCHANGED loop, NEW w \in Workers, NEW s, Works(w, s)
  PROVE  LoopTypes'
  <1>1. \A x \in Workers : worker'[x].for = worker[x].for
    BY DEF Works, Shape, Worker
  <1> QED
    BY <1>1 DEF LoopTypes

LEMMA TimeOutTyped ==
  ASSUME ToolAssumption, Shape, LoopTypes, NEW w \in Workers, TimeOut(w)
  PROVE  LoopTypes'
  <1>1. worker'[w].for = None /\ \A x \in Workers \ {w} : worker'[x] = worker[x]
    BY DEF TimeOut, Shape, Worker
  <1> QED
    BY <1>1, ReturnTyped DEF TimeOut

(* A goroutine starts for a loop nobody works for, or for somebody else.   *)
LEMMA StartTyped ==
  ASSUME ToolAssumption, Shape, LoopTypes, NEW c \in Callers, NEW tool, NEW first, NEW p,
         Starts(c, tool, first, p),
         \/ c \in Loops /\ loop[c].step = "call" /\ loop' = [loop EXCEPT ![c].step = "wait"]
         \/ c \notin Loops /\ UNCHANGED loop
  PROVE  LoopTypes'
  <1>1. PICK w \in Workers :
            /\ worker[w] = NoWork
            /\ worker' = [worker EXCEPT ![w] = [tool |-> tool, next |-> first, for |-> c, slip |-> p]]
    BY DEF Starts
  <1>2. worker'[w].for = c /\ \A x \in Workers \ {w} : worker'[x] = worker[x]
    BY <1>1 DEF Shape
  <1>3. CASE c \notin Loops /\ UNCHANGED loop
    BY <1>2, <1>3 DEF LoopTypes
  <1>4. CASE c \in Loops /\ loop[c].step = "call" /\ loop' = [loop EXCEPT ![c].step = "wait"]
    <2>1. \A x \in Workers : worker[x].for # c
      BY <1>4 DEF LoopTypes
    <2>2. /\ loop[c] \in LoopRecord /\ Goes(loop[c])
          /\ loop' = [loop EXCEPT ![c] = [loop[c] EXCEPT !.step = "wait"]]
      BY <1>4 DEF LoopTypes
    <2>3. Goes([loop[c] EXCEPT !.step = "wait"]) /\ [loop[c] EXCEPT !.step = "wait"].step = "wait"
      BY <1>4, <2>2 DEF Goes, LoopRecord
    <2>4. /\ loop' \in [Loops -> LoopRecord] /\ Goes(loop'[c]) /\ loop'[c].step = "wait"
          /\ \A k \in Loops \ {c} : loop'[k] = loop[k]
      BY <1>4, <2>2, <2>3 DEF LoopTypes, Goes
    <2> QED
      BY <1>2, <2>1, <2>4 DEF LoopTypes
  <1> QED
    BY <1>3, <1>4

LEMMA LoopTypesNext ==
  ASSUME ToolAssumption, Shape, LoopTypes, [Next]_vars
  PROVE  LoopTypes'
  <1>1. CASE UNCHANGED <<loop, worker>>
    BY <1>1 DEF LoopTypes
  <1>2. ASSUME NEW l \in Loops, ModelFails(l) \/ ModelAnswers(l) \/ CallUnknown(l) \/ PutAside(l)
        PROVE  LoopTypes'
    <2>1. UNCHANGED worker /\ loop[l].step \in {"ask", "call"}
      BY <1>2 DEF ModelFails, ModelAnswers, CallUnknown, PutAside
    <2>2. \/ \E k \in {"answer", "fallback", "pending", "error"} : LoopEnds(l, k)
          \/ \E n \in 1..MaxCalls : loop' = [loop EXCEPT ![l].step = "call", ![l].left = n]
          \/ Records(l)
      BY <1>2 DEF ModelFails, ModelAnswers, CallUnknown, PutAside
    <2> QED
      BY <2>1, <2>2, LoopTyped
  <1>3. ASSUME NEW l \in Loops, CallTool(l) PROVE LoopTypes'
    <2>1. CASE UNCHANGED worker /\ Records(l)
      BY <1>3, <2>1, LoopTyped DEF CallTool
    <2>2. CASE \E tool \in Tools : /\ loop' = [loop EXCEPT ![l].step = "wait"]
                                   /\ Starts(l, tool, FirstStep(tool), None)
      BY <1>3, <2>2, StartTyped DEF CallTool, Callers
    <2> QED
      BY <1>3, <2>1, <2>2 DEF CallTool
  <1>4. ASSUME NEW w \in Workers, Work(w) PROVE LoopTypes'
    <2>1. CASE TimeOut(w)
      BY <2>1, TimeOutTyped
    <2>2. CASE Finishes(w)
      BY <2>2, FinishTyped
    <2>3. CASE UNCHANGED loop /\ \E s \in WorkerStep : Works(w, s)
      BY <2>3, WorksTyped
    <2> QED
      BY <1>4, <2>1, <2>2, <2>3
      DEF Work, RunPlain, RunConfirmed, SaveFact, EvictOverflow, ForgetFacts, GetCached, TakeLock,
          Fetch, Store, Unlock, FetchAlone, WorkerStep
  <1>5. ASSUME NEW a \in Askers, Ask(a) PROVE LoopTypes'
    <2>1. CASE Resolve(a) /\ Starts(a, "confirmed", "go", asker[a].slip)
      <3>1. a \notin Loops /\ a \in Callers
        BY ToolConstants DEF Callers
      <3> QED
        BY <2>1, <3>1, StartTyped DEF Resolve
    <2>2. CASE UNCHANGED <<loop, worker>>
      BY <1>1, <2>2
    <2> QED
      BY <1>5, <2>1, <2>2 DEF Ask, Cancel, ReadSlip, DeleteSlip, Resolve
  <1> QED
    BY <1>1, <1>2, <1>3, <1>4, <1>5
    DEF Next, Loop, vars, HourEnds, LockEnds, CacheEnds, SlipEnds

-----------------------------------------------------------------------------
(* What is stored.                                                         *)

LEMMA AskersKeep ==
  ASSUME StoreTypes, AskersRest
  PROVE  \A a \in Askers : asker'[a].step \in {"delete", "check"} => asker'[a].slip \in Slips
  BY DEF StoreTypes, AskersRest

LEMMA AskerTyped ==
  ASSUME Shape, StoreTypes, NEW a \in Askers, NEW p \in Slips, NEW s, Asks(a, p, s)
  PROVE  \A b \in Askers : asker'[b].step \in {"delete", "check"} => asker'[b].slip \in Slips
  BY DEF Shape, StoreTypes, Asks

LEMMA AskersNext ==
  ASSUME Shape, StoreTypes, [Next]_vars
  PROVE  \A a \in Askers : asker'[a].step \in {"delete", "check"} => asker'[a].slip \in Slips
  <1>1. CASE UNCHANGED asker
    BY <1>1 DEF StoreTypes
  <1>2. CASE AskersRest
    BY <1>2, AskersKeep
  <1>3. ASSUME NEW a \in Askers, Ask(a)
        PROVE  \A b \in Askers : asker'[b].step \in {"delete", "check"} => asker'[b].slip \in Slips
    <2>1. CASE \E p \in Slips, s \in AskerStep : Asks(a, p, s)
      BY <2>1, AskerTyped
    <2>2. CASE DeleteSlip(a) \/ Resolve(a)
      <3>1. asker[a].slip \in Slips
        BY <2>2 DEF DeleteSlip, Resolve, StoreTypes
      <3>2. \E s \in AskerStep : Asks(a, asker[a].slip, s)
        BY <2>2 DEF DeleteSlip, Resolve, AskerStep
      <3> QED
        BY <3>1, <3>2, AskerTyped
    <2>3. CASE Cancel(a) \/ ReadSlip(a)
      <3>1. \E p \in Slips, s \in AskerStep : Asks(a, p, s)
        BY <2>3 DEF Cancel, ReadSlip, AskerStep
      <3> QED
        BY <2>1, <3>1
    <2> QED
      BY <1>3, <2>2, <2>3 DEF Ask
  <1>4. ASSUME NEW w \in Workers, Work(w) PROVE UNCHANGED asker \/ AskersRest
    <2>1. CASE Finishes(w)
      BY <2>1, FinishesTo
    <2>2. CASE TimeOut(w)
      <3>1. PICK c : c = worker[w].for
        OBVIOUS
      <3>2. UNCHANGED asker \/ asker' = [asker EXCEPT ![c].step = "done"]
        BY <2>2, <3>1 DEF TimeOut, Returns
      <3> QED
        BY <3>2, ReturnsAsker
    <2> QED
      BY <1>4, <2>1, <2>2
      DEF Work, RunPlain, RunConfirmed, SaveFact, EvictOverflow, ForgetFacts, GetCached, TakeLock,
          Fetch, Store, Unlock, FetchAlone
  <1>5. ASSUME NEW l \in Loops, Loop(l) PROVE UNCHANGED asker
    BY <1>5 DEF Loop, ModelFails, ModelAnswers, CallUnknown, PutAside, CallTool
  <1> QED
    BY <1>1, <1>2, <1>3, <1>4, <1>5 DEF Next, vars, HourEnds, LockEnds, CacheEnds, SlipEnds

LEMMA StoreTypesNext ==
  ASSUME ToolAssumption, Shape, StoreTypes, [Next]_vars
  PROVE  StoreTypes'
  <1>1. /\ HourLimit \in Nat \ {0} /\ MemoryCap \in Nat /\ MaxFacts \in Nat
        /\ used \in 0..(HourLimit + 1) /\ facts \in 0..MaxFacts
    BY ToolConstants DEF StoreTypes
  <1>2. used' \in 0..(HourLimit + 1)
    <2>1. CASE UNCHANGED used
      BY <1>1, <2>1
    <2>2. ASSUME NEW l \in Loops, CallTool(l) PROVE used' \in 0..(HourLimit + 1)
      <3>1. used' = used \/ (used <= HourLimit /\ used' = used + 1)
        BY <2>2 DEF CallTool
      <3> QED
        BY <1>1, <3>1
    <2>3. CASE HourEnds
      BY <1>1, <2>3 DEF HourEnds
    <2> QED
      BY <2>1, <2>2, <2>3
      DEF Next, Loop, Work, Ask, vars, ModelFails, ModelAnswers, CallUnknown, PutAside, TimeOut, RunPlain,
          RunConfirmed, SaveFact, EvictOverflow, ForgetFacts, GetCached, TakeLock, Fetch, Store,
          Unlock, FetchAlone, Cancel, ReadSlip, DeleteSlip, Resolve, LockEnds, CacheEnds, SlipEnds
  <1>3. facts' \in 0..MaxFacts
    <2>1. CASE UNCHANGED facts
      BY <1>1, <2>1
    <2>2. ASSUME NEW w \in Workers, SaveFact(w) \/ EvictOverflow(w) \/ ForgetFacts(w)
          PROVE  facts' \in 0..MaxFacts
      <3>1. \/ facts' = facts \/ (facts < MaxFacts /\ facts' = facts + 1)
            \/ (facts > MemoryCap /\ facts' = MemoryCap) \/ facts' \in 0..facts
        BY <2>2 DEF SaveFact, EvictOverflow, ForgetFacts
      <3> QED
        BY <1>1, <3>1
    <2> QED
      BY <2>1, <2>2
      DEF Next, Loop, Work, Ask, vars, ModelFails, ModelAnswers, CallUnknown, PutAside, CallTool, TimeOut,
          RunPlain, RunConfirmed, GetCached, TakeLock, Fetch, Store,
          Unlock, FetchAlone, Cancel, ReadSlip, DeleteSlip, Resolve, HourEnds, LockEnds, CacheEnds, SlipEnds
  <1>4. cached' \in BOOLEAN
    <2>1. cached \in BOOLEAN
      BY DEF StoreTypes
    <2>2. cached' \in {cached, TRUE, FALSE}
      BY Zenon
      DEF Next, Loop, Work, Ask, vars, cacheVars, ModelFails, ModelAnswers, CallUnknown, PutAside, CallTool,
          TimeOut, RunPlain, RunConfirmed, SaveFact, EvictOverflow, ForgetFacts, GetCached,
          TakeLock, Fetch, Store, Unlock, FetchAlone, Cancel, ReadSlip, DeleteSlip, Resolve,
          HourEnds, LockEnds, CacheEnds, SlipEnds
    <2> QED
      BY <2>1, <2>2
  <1>5. lapsed' \in BOOLEAN
    <2>1. lapsed \in BOOLEAN
      BY DEF StoreTypes
    <2>2. lapsed' = lapsed \/ lapsed' = (lapsed \/ Holds(lock))
      BY Zenon
      DEF Next, Loop, Work, Ask, vars, cacheVars, ModelFails, ModelAnswers, CallUnknown, PutAside, CallTool,
          TimeOut, RunPlain, RunConfirmed, SaveFact, EvictOverflow, ForgetFacts, GetCached,
          TakeLock, Fetch, Store, Unlock, FetchAlone, Cancel, ReadSlip, DeleteSlip, Resolve,
          HourEnds, LockEnds, CacheEnds, SlipEnds
    <2>3. CASE lapsed' = lapsed
      BY <2>1, <2>3
    <2>4. CASE lapsed' = (lapsed \/ Holds(lock))
      BY <2>4
    <2> QED
      BY <2>2, <2>3, <2>4
  <1>6. read' \subseteq Slips /\ raced' \subseteq Slips
    <2>1. read \subseteq Slips /\ raced \subseteq Slips
      BY DEF StoreTypes
    <2>2. CASE UNCHANGED <<read, raced>>
      BY <2>1, <2>2
    <2>3. ASSUME NEW a \in Askers, Cancel(a) \/ ReadSlip(a)
          PROVE  read' \subseteq Slips /\ raced' \subseteq Slips
      BY <2>1, <2>3 DEF Cancel, ReadSlip
    <2>4. ASSUME NEW a \in Askers, DeleteSlip(a)
          PROVE  read' \subseteq Slips /\ raced' \subseteq Slips
      BY <2>1, <2>4 DEF DeleteSlip, StoreTypes
    <2> QED
      BY <2>2, <2>3, <2>4
      DEF Next, Loop, Work, Ask, vars, slipVars, ModelFails, ModelAnswers, CallUnknown, PutAside, CallTool,
          TimeOut, RunPlain, RunConfirmed, SaveFact, EvictOverflow, ForgetFacts, GetCached,
          TakeLock, Fetch, Store, Unlock, FetchAlone, Resolve, HourEnds, LockEnds, CacheEnds, SlipEnds
  <1>7. \A a \in Askers : asker'[a].step \in {"delete", "check"} => asker'[a].slip \in Slips
    BY AskersNext
  <1> QED
    BY <1>2, <1>3, <1>4, <1>5, <1>6, <1>7 DEF StoreTypes

-----------------------------------------------------------------------------
(* How often the tool of a slip runs.                                      *)

(* Nobody who resolved a slip is forgotten.                                *)
LEMMA ResolvedStays ==
  ASSUME ToolAssumption, Shape, [Next]_vars, NEW p \in Slips
  PROVE  Resolved(p) \subseteq Resolved(p)' /\ IsFiniteSet(Resolved(p)') /\ IsFiniteSet(Resolved(p))
  <1>1. asker \in [Askers -> Asker]
    BY DEF Shape
  <1>2. ASSUME NEW c, asker' = [asker EXCEPT ![c].step = "done"]
        PROVE  Resolved(p) \subseteq Resolved(p)'
    BY <1>1, <1>2 DEF Resolved, Asker
  <1>3. ASSUME UNCHANGED asker PROVE Resolved(p) \subseteq Resolved(p)'
    BY <1>3 DEF Resolved
  <1>4. ASSUME NEW a \in Askers, Ask(a) PROVE Resolved(p) \subseteq Resolved(p)'
    <2>1. PICK q, s : Asks(a, q, s)
      BY <1>4 DEF Ask, Cancel, ReadSlip, DeleteSlip, Resolve
    <2>2. a \notin Resolved(p)
      BY <1>4 DEF Resolved, Ask, Cancel, ReadSlip, DeleteSlip, Resolve
    <2>3. \A b \in Askers \ {a} : asker'[b] = asker[b]
      BY <1>1, <2>1 DEF Asks
    <2> QED
      BY <2>2, <2>3 DEF Resolved
  <1>5. ASSUME NEW w \in Workers, Work(w) PROVE UNCHANGED asker \/ \E c : asker' = [asker EXCEPT ![c].step = "done"]
    BY <1>5 DEF Work, TimeOut, RunPlain, RunConfirmed, SaveFact, EvictOverflow, ForgetFacts, GetCached,
                TakeLock, Fetch, Store, Unlock, FetchAlone, Finishes, Returns
  <1>6. ASSUME NEW l \in Loops, Loop(l) PROVE UNCHANGED asker
    BY <1>6 DEF Loop, ModelFails, ModelAnswers, CallUnknown, PutAside, CallTool
  <1>7. Resolved(p) \subseteq Resolved(p)'
    BY <1>2, <1>3, <1>4, <1>5, <1>6 DEF Next, vars, HourEnds, LockEnds, CacheEnds, SlipEnds
  <1>8. IsFiniteSet(Resolved(p)') /\ IsFiniteSet(Resolved(p))
    <2>1. Resolved(p)' \subseteq Askers /\ Resolved(p) \subseteq Askers
      BY DEF Resolved
    <2> QED
      BY <2>1, ToolConstants, FS_Subset
  <1> QED
    BY <1>7, <1>8

(* Where the tool of a slip does not run, and nobody new runs it.          *)
LEMMA CountRests ==
  ASSUME ToolAssumption, Shape, [Next]_vars, NEW p \in Slips, Counted(p), executed'[p] = executed[p],
         \A w \in Workers : Runs(w, p)' => Runs(w, p)
  PROVE  Counted(p)'
  <1>1. Running(p)' \subseteq Running(p)
    BY DEF Running
  <1>2. IsFiniteSet(Running(p)) /\ IsFiniteSet(Running(p)')
        /\ Cardinality(Running(p)') <= Cardinality(Running(p))
    BY <1>1, FS_Subset DEF Counted
  <1>3. Cardinality(Resolved(p)) <= Cardinality(Resolved(p)')
    BY ResolvedStays, FS_Subset
  <1>4. /\ Cardinality(Running(p)) \in Nat /\ Cardinality(Running(p)') \in Nat
        /\ Cardinality(Resolved(p)) \in Nat /\ Cardinality(Resolved(p)') \in Nat
    BY <1>2, ResolvedStays, FS_CardinalityType
  <1>5. executed[p] \in Nat
    BY DEF Shape
  <1> QED
    BY <1>2, <1>3, <1>4, <1>5 DEF Counted

(* A goroutine that runs it is one less that will.                         *)
LEMMA CountRun ==
  ASSUME ToolAssumption, Shape, [Next]_vars, NEW p \in Slips, Counted(p), NEW w \in Workers,
         RunConfirmed(w), worker[w].slip = p
  PROVE  Counted(p)'
  <1>1. Runs(w, p) /\ worker'[w] = NoWork /\ \A x \in Workers, q \in Slips : Runs(x, q)' => Runs(x, q)
    BY FinishesTo DEF RunConfirmed, DoesOne, Runs
  <1>2. ~Runs(w, p)' /\ w \in Running(p) /\ w \notin Running(p)' /\ Running(p)' \subseteq Running(p)
    BY <1>1 DEF Runs, NoWork, Running
  <1>3. Running(p)' \subseteq Running(p) \ {w}
    BY <1>2
  <1>4. IsFiniteSet(Running(p) \ {w}) /\ Cardinality(Running(p) \ {w}) = Cardinality(Running(p)) - 1
    BY <1>2, FS_RemoveElement DEF Counted
  <1>5. IsFiniteSet(Running(p)') /\ Cardinality(Running(p)') <= Cardinality(Running(p)) - 1
    BY <1>3, <1>4, FS_Subset
  <1>6. Cardinality(Resolved(p)) <= Cardinality(Resolved(p)')
    BY ResolvedStays, FS_Subset
  <1>7. /\ Cardinality(Running(p)) \in Nat /\ Cardinality(Running(p)') \in Nat
        /\ Cardinality(Resolved(p)) \in Nat /\ Cardinality(Resolved(p)') \in Nat
    BY <1>5, ResolvedStays, FS_CardinalityType DEF Counted
  <1>8. executed[p] \in Nat /\ executed'[p] \in {executed[p], executed[p] + 1}
    BY DEF Shape, RunConfirmed
  <1> QED
    BY <1>5, <1>6, <1>7, <1>8 DEF Counted

(* A goroutine starts for one more who resolved the slip.                  *)
LEMMA CountStart ==
  ASSUME ToolAssumption, Shape, [Next]_vars, NEW p \in Slips, Counted(p), NEW a \in Askers,
         asker[a].step = "check", asker[a].slip = p, Asks(a, p, "wait"), Starts(a, "confirmed", "go", p),
         UNCHANGED executed
  PROVE  Counted(p)'
  <1>1. PICK w \in Workers :
            worker' = [worker EXCEPT ![w] = [tool |-> "confirmed", next |-> "go", for |-> a, slip |-> p]]
    BY DEF Starts
  <1>2. \A x \in Workers \ {w} : worker'[x] = worker[x]
    BY <1>1 DEF Shape
  <1>3. Running(p)' \subseteq Running(p) \cup {w}
    BY <1>2 DEF Running, Runs
  <1>4. /\ IsFiniteSet(Running(p) \cup {w})
        /\ Cardinality(Running(p) \cup {w}) <= Cardinality(Running(p)) + 1
    <2>1. ASSUME NEW S, IsFiniteSet(S), NEW x
          PROVE  IsFiniteSet(S \cup {x}) /\ Cardinality(S \cup {x}) <= Cardinality(S) + 1
      <3>1. Cardinality(S) \in Nat
        BY <2>1, FS_CardinalityType
      <3>2. /\ IsFiniteSet(S \cup {x})
            /\ Cardinality(S \cup {x}) = IF x \in S THEN Cardinality(S) ELSE Cardinality(S) + 1
        BY <2>1, FS_AddElement
      <3> QED
        BY <3>1, <3>2
    <2>2. IsFiniteSet(Running(p))
      BY DEF Counted
    <2> QED
      BY <2>1, <2>2
  <1>5. IsFiniteSet(Running(p)') /\ Cardinality(Running(p)') <= Cardinality(Running(p) \cup {w})
    BY <1>3, <1>4, FS_Subset
  <1>6. a \notin Resolved(p) /\ a \in Resolved(p)'
    BY DEF Resolved, Asks, Shape
  <1>7. Resolved(p) \cup {a} \subseteq Resolved(p)'
    BY <1>6, ResolvedStays
  <1>8. Cardinality(Resolved(p)) + 1 <= Cardinality(Resolved(p)')
    <2>1. Cardinality(Resolved(p) \cup {a}) = Cardinality(Resolved(p)) + 1
      BY <1>6, ResolvedStays, FS_AddElement
    <2>2. Cardinality(Resolved(p) \cup {a}) <= Cardinality(Resolved(p)')
      BY <1>7, ResolvedStays, FS_Subset
    <2> QED
      BY <2>1, <2>2
  <1>9. /\ Cardinality(Running(p)) \in Nat /\ Cardinality(Running(p)') \in Nat
        /\ Cardinality(Running(p) \cup {w}) \in Nat
        /\ Cardinality(Resolved(p)) \in Nat /\ Cardinality(Resolved(p)') \in Nat
    BY <1>4, <1>5, ResolvedStays, FS_CardinalityType DEF Counted
  <1>10. executed[p] \in Nat /\ executed'[p] = executed[p]
    BY DEF Shape
  <1> QED
    BY <1>4, <1>5, <1>8, <1>9, <1>10 DEF Counted

LEMMA CountedNext ==
  ASSUME ToolAssumption, Shape, StoreTypes, [Next]_vars, NEW p \in Slips, Counted(p)
  PROVE  Counted(p)'
  <1>1. CASE UNCHANGED <<worker, executed>>
    BY <1>1, CountRests DEF Runs
  <1>2. ASSUME NEW l \in Loops, CallTool(l) PROVE Counted(p)'
    <2>1. UNCHANGED executed
      BY <1>2 DEF CallTool, slipVars
    <2>2. CASE UNCHANGED worker
      BY <1>1, <2>1, <2>2
    <2>3. CASE \E tool \in Tools : Starts(l, tool, FirstStep(tool), None)
      <3>1. PICK tool \in Tools, w \in Workers :
                worker' = [worker EXCEPT ![w] = [tool |-> tool, next |-> FirstStep(tool), for |-> l, slip |-> None]]
        BY <2>3 DEF Starts
      <3>2. /\ \A x \in Workers \ {w} : worker'[x] = worker[x]
            /\ worker'[w].tool = tool /\ tool # "confirmed"
        BY <3>1 DEF Shape, Tools
      <3>3. \A x \in Workers : Runs(x, p)' => Runs(x, p)
        BY <3>2 DEF Runs
      <3> QED
        BY <2>1, <3>3, CountRests
    <2> QED
      BY <1>2, <2>2, <2>3 DEF CallTool
  <1>3. ASSUME NEW w \in Workers, RunConfirmed(w) PROVE Counted(p)'
    <2>1. CASE worker[w].slip = p
      BY <1>3, <2>1, CountRun
    <2>2. CASE worker[w].slip # p
      <3>1. \A x \in Workers, q \in Slips : Runs(x, q)' => Runs(x, q)
        BY <1>3, FinishesTo DEF RunConfirmed
      <3>2. executed'[p] = executed[p]
        BY <1>3, <2>2 DEF RunConfirmed, Shape
      <3> QED
        BY <3>1, <3>2, CountRests
    <2> QED
      BY <2>1, <2>2
  <1>4. ASSUME NEW w \in Workers, UNCHANGED executed,
               TimeOut(w) \/ Finishes(w) \/ \E s \in WorkerStep : Works(w, s)
        PROVE  Counted(p)'
    <2>1. \A x \in Workers : Runs(x, p)' => Runs(x, p)
      <3>1. CASE Finishes(w)
        BY <3>1, FinishesTo
      <3>2. CASE \E s \in WorkerStep : Works(w, s)
        BY <3>2 DEF Works, Runs, Shape, Worker
      <3>3. CASE TimeOut(w)
        BY <3>3 DEF TimeOut, Runs, Shape, Worker
      <3> QED
        BY <1>4, <3>1, <3>2, <3>3
    <2> QED
      BY <1>4, <2>1, CountRests
  <1>5. ASSUME NEW w \in Workers, Work(w) PROVE Counted(p)'
    <2>1. RunConfirmed(w) \/ (UNCHANGED executed /\ (TimeOut(w) \/ Finishes(w) \/ \E s \in WorkerStep : Works(w, s)))
      BY <1>5
      DEF Work, TimeOut, RunPlain, SaveFact, EvictOverflow, ForgetFacts, GetCached, TakeLock,
          Fetch, Store, Unlock, FetchAlone, WorkerStep, slipVars
    <2> QED
      BY <1>3, <1>4, <2>1
  <1>6. ASSUME NEW a \in Askers, Ask(a) PROVE Counted(p)'
    <2>1. UNCHANGED executed
      BY <1>6 DEF Ask, Cancel, ReadSlip, DeleteSlip, Resolve, slipVars
    <2>2. CASE UNCHANGED worker
      BY <1>1, <2>1, <2>2
    <2>3. CASE asker[a].step = "check" /\ Asks(a, asker[a].slip, "wait") /\ Starts(a, "confirmed", "go", asker[a].slip)
      <3>1. CASE asker[a].slip = p
        BY <2>1, <2>3, <3>1, CountStart
      <3>2. CASE asker[a].slip # p
        <4>1. \A x \in Workers : Runs(x, p)' => Runs(x, p)
          BY <2>3, <3>2 DEF Starts, Runs, Shape
        <4> QED
          BY <2>1, <4>1, CountRests
      <3> QED
        BY <3>1, <3>2
    <2> QED
      BY <1>6, <2>2, <2>3 DEF Ask, Cancel, ReadSlip, DeleteSlip, Resolve
  <1> QED
    BY <1>1, <1>2, <1>5, <1>6
    DEF Next, Loop, vars, slipVars, ModelFails, ModelAnswers, CallUnknown, PutAside, HourEnds,
        LockEnds, CacheEnds, SlipEnds

LEMMA ToolTypesNext ==
  ASSUME ToolAssumption, IInv, ToolTypes, [Next]_vars
  PROVE  ToolTypes'
  <1>1. Shape
    BY DEF IInv
  <1> QED
    BY <1>1, LoopTypesNext, StoreTypesNext, CountedNext DEF ToolTypes

LEMMA ToolTypesMean ==
  ASSUME ToolAssumption, IInv, ToolTypes
  PROVE  TypeOK
  <1>1. Shape /\ LoopTypes /\ StoreTypes
    BY DEF IInv, ToolTypes
  <1>2. ASSUME NEW p \in Slips PROVE executed[p] \in 0..Cardinality(Askers)
    <2>1. IsFiniteSet(Askers) /\ Resolved(p) \subseteq Askers
      BY ToolConstants DEF Resolved
    <2>2. IsFiniteSet(Resolved(p)) /\ Cardinality(Resolved(p)) <= Cardinality(Askers)
      BY <2>1, FS_Subset
    <2>3. Counted(p) /\ executed[p] \in Nat
      BY <1>1 DEF ToolTypes, Shape
    <2>4. Cardinality(Running(p)) \in Nat /\ Cardinality(Resolved(p)) \in Nat /\ Cardinality(Askers) \in Nat
      BY <2>1, <2>2, <2>3, FS_CardinalityType DEF Counted
    <2> QED
      BY <2>2, <2>3, <2>4 DEF Counted
  <1>3. executed \in [Slips -> 0..Cardinality(Askers)]
    BY <1>1, <1>2 DEF Shape
  <1> QED
    BY <1>1, <1>3 DEF TypeOK, Shape, LoopTypes, StoreTypes, LoopRecord, Asker, AskerStep, Worker, WorkerStep

-----------------------------------------------------------------------------
(* The feedback chat, of FeedbackProofs.                                   *)

FeedbackInv == side = "feedback" => Talking!IInv /\ Talking!ShownInv

LEMMA FeedbackSteps ==
  ASSUME [AssistantNext]_assistantVars, side' = "feedback"
  PROVE  side = "feedback" /\ [Talking!Next]_(Talking!vars)
  BY DEF AssistantNext, assistantVars, feedbackVars, Talking!vars, Talking!hubVars, Talking!pumps

LEMMA FeedbackInvHolds == AssistantSpec => []FeedbackInv
  <1>1. Talking!FeedbackAssumption
    BY AssistantAssumption
  <1>2. AssistantInit => FeedbackInv
    <2> SUFFICES ASSUME AssistantInit, side = "feedback" PROVE Talking!IInv /\ Talking!ShownInv
      BY DEF FeedbackInv
    <2>1. Talking!Init
      BY DEF AssistantInit
    <2> QED
      BY <1>1, <2>1, Talking!InitOK, Talking!ShownInit
  <1>3. FeedbackInv /\ [AssistantNext]_assistantVars => FeedbackInv'
    <2> SUFFICES ASSUME FeedbackInv, [AssistantNext]_assistantVars, side' = "feedback"
                 PROVE  Talking!IInv' /\ Talking!ShownInv'
      BY DEF FeedbackInv
    <2>1. side = "feedback" /\ [Talking!Next]_(Talking!vars)
      BY FeedbackSteps
    <2>2. Talking!IInv /\ Talking!ShownInv
      BY <2>1 DEF FeedbackInv
    <2>3. Talking!IInv'
      BY <1>1, <2>1, <2>2, Talking!NextOK
    <2>4. Talking!ShownInv'
      BY <1>1, <2>1, <2>2, <2>3, Talking!ShownNext DEF Talking!IInv
    <2> QED
      BY <2>3, <2>4
  <1> QED
    BY <1>2, <1>3, PTL DEF AssistantSpec

(* As the assistant's run checks it: no message meets a closed channel,    *)
(* the hub stops only after an overflow, and a message is shown once but   *)
(* to an administrator whom an administrator answers (hub.go, feedback.go).*)
THEOREM FeedbackIsAlwaysServed == AssistantSpec => []FeedbackIsServed
  <1>1. FeedbackInv => FeedbackIsServed
    <2> SUFFICES ASSUME FeedbackInv, side = "feedback"
                 PROVE  Talking!MembersAreOpen /\ Talking!StopsAfterOverflow /\ Talking!ShownOnce
      BY DEF FeedbackIsServed
    <2>1. Talking!IInv /\ Talking!ShownInv
      BY DEF FeedbackInv
    <2> QED
      BY <2>1, Talking!ShownSafe DEF Talking!IInv, Talking!StopsAfterOverflow
  <1> QED
    BY <1>1, FeedbackInvHolds, PTL

-----------------------------------------------------------------------------
(* The providers: what a request has been shown is what it will answer,    *)
(* and which keys a loop has tried follows from where the counter is.      *)

ProviderOps == {"none", "embed", "stream", "whole", "tools"}
ProviderSteps == {"idle", "key", "try", "done", "failed", "panic"}
Asking == [op : ProviderOps, service : Providing!Services \cup {None}, step : ProviderSteps,
           at : Nat, part : Seq(Nat), shown : Seq(Nat), answer : Seq(Nat),
           tried : SUBSET Providing!Keys, left : Int,
           held : BOOLEAN, alone : BOOLEAN, broke : BOOLEAN]

VoiceOK(q) ==
    /\ \A i \in DOMAIN q.part : q.part[i] = q.at
    /\ \A i, j \in DOMAIN q.answer : q.answer[i] = q.answer[j]
    /\ q.op = "stream" /\ ~q.broke /\ q.step = "try" => q.shown = q.part
    /\ q.op = "stream" /\ ~q.broke /\ q.step = "done" => q.shown = q.answer

(* How many turns ago a key was last given out, by a counter at c.         *)
TurnsAgo(k, c) == IF k < c THEN c - k ELSE c + PoolSize - k

KeysOK(q, c) ==
    q.op = "embed" =>
        /\ q.step # "try" /\ q.left <= PoolSize
        /\ q.alone => q.tried = {k \in Providing!Keys : TurnsAgo(k, c) <= PoolSize - q.left}
        /\ q.alone /\ q.step = "failed" => q.left = 0

AskingOK(q, c) == q \in Asking /\ VoiceOK(q) /\ KeysOK(q, c)

ProviderInv ==
    /\ counter \in Providing!Keys
    /\ req \in [Handlers -> Asking]
    /\ \A r \in Handlers : AskingOK(req[r], counter)

LEMMA ProviderConstants ==
    /\ PoolSize \in Nat \ {0}
    /\ {"chat", "summary"} \subseteq Providing!Services
  BY AssistantAssumption DEF Providing!PoolAssumption, Providing!PrioritiesAssumption, Providing!Services

LEMMA IdleAsks ==
  ASSUME NEW c
  PROVE  AskingOK(Providing!Idle, c)
  <1>1. Providing!Idle \in Asking
    BY DEF Providing!Idle, Asking, ProviderOps, ProviderSteps
  <1>2. VoiceOK(Providing!Idle) /\ KeysOK(Providing!Idle, c)
    BY DEF Providing!Idle, VoiceOK, KeysOK
  <1> QED
    BY <1>1, <1>2 DEF AskingOK

LEMMA ProviderStart == ASSUME Providing!Init PROVE ProviderInv
  <1>1. counter \in Providing!Keys
    BY ProviderConstants DEF Providing!Init, Providing!Keys
  <1>2. \A r \in Handlers : req[r] = Providing!Idle
    BY DEF Providing!Init
  <1> QED
    BY <1>1, <1>2, IdleAsks DEF Providing!Init, ProviderInv, AskingOK

(* One request changes and no key is taken.                                *)
LEMMA BecomesOK ==
  ASSUME ProviderInv, NEW r \in Handlers, NEW q, req' = [req EXCEPT ![r] = q], UNCHANGED counter,
         AskingOK(q, counter)
  PROVE  ProviderInv'
  <1>1. req' \in [Handlers -> Asking]
    BY DEF ProviderInv, AskingOK
  <1>2. ASSUME NEW s \in Handlers PROVE AskingOK(req'[s], counter)
    <2>1. req'[s] = IF s = r THEN q ELSE req[s]
      BY DEF ProviderInv
    <2> QED
      BY <2>1 DEF ProviderInv
  <1> QED
    BY <1>1, <1>2 DEF ProviderInv

(* The fields that a loop and a fallback set.                              *)
LEMMA LeftAsks == ASSUME NEW q \in Asking, NEW n \in Int PROVE [q EXCEPT !.left = n] \in Asking
  BY DEF Asking
LEMMA AtAsks == ASSUME NEW q \in Asking, NEW n \in Nat PROVE [q EXCEPT !.at = n] \in Asking
  BY DEF Asking
LEMMA ClearedAsks ==
  ASSUME NEW q \in Asking, NEW n \in Int
  PROVE  [q EXCEPT !.part = << >>, !.tried = {}, !.left = n, !.held = FALSE] \in Asking
  <1>1. << >> \in Seq(Nat)
    OBVIOUS
  <1> QED
    BY <1>1 DEF Asking
LEMMA LoopAsks ==
  ASSUME NEW q \in Asking, NEW n \in Int
  PROVE  [q EXCEPT !.tried = {}, !.left = n, !.alone = TRUE] \in Asking
  BY DEF Asking

(* To the next provider: what was shown stays, the part begins anew.       *)
LEMMA FallbackIs ==
  ASSUME NEW q \in Asking
  PROVE  LET f == Providing!Fallback(q)
         IN  /\ f \in Asking
             /\ f.op = q.op /\ f.shown = q.shown /\ f.answer = q.answer /\ f.broke = q.broke
             /\ f.part = << >> /\ f.step \in {q.step, "failed"}
  <1> DEFINE f == Providing!Fallback(q)
             rest == [q EXCEPT !.part = << >>, !.tried = {}, !.left = 0, !.held = FALSE]
             next == [rest EXCEPT !.at = @ + 1]
             over == [rest EXCEPT !.step = "failed"]
             some == [next EXCEPT !.left = Providing!HFTries]
             loop1 == [next EXCEPT !.tried = {}, !.left = PoolSize, !.alone = TRUE]
             Good(x) == /\ x \in Asking
                        /\ x.op = q.op /\ x.shown = q.shown /\ x.answer = q.answer /\ x.broke = q.broke
                        /\ x.part = << >> /\ x.step \in {q.step, "failed"}
  <1>1. rest \in Asking /\ Good(rest) /\ rest.step = q.step
    <2>1. rest \in Asking
      <3>1. 0 \in Int
        OBVIOUS
      <3> QED
        BY <3>1, ClearedAsks, Zenon
    <2>2. /\ rest.op = q.op /\ rest.shown = q.shown /\ rest.answer = q.answer /\ rest.broke = q.broke
          /\ rest.part = << >> /\ rest.step = q.step
      BY DEF Asking
    <2> QED
      BY <2>1, <2>2
  <1>2. Good(over)
    BY <1>1 DEF Asking, ProviderSteps
  <1>3. Good(next)
    <2> HIDE DEF rest
    <2>1. next \in Asking
      <3>1. rest.at + 1 \in Nat
        BY <1>1 DEF Asking
      <3> QED
        BY <1>1, <3>1, AtAsks
    <2> QED
      BY <1>1, <2>1 DEF Asking
  <1>4. Good(some)
    <2> HIDE DEF next
    <2>1. some \in Asking
      <3>1. next \in Asking /\ Providing!HFTries \in Int
        BY <1>3 DEF Providing!HFTries
      <3> QED
        BY <3>1, LeftAsks, Zenon
    <2> QED
      BY <1>3, <2>1 DEF Asking
  <1>5. Good(loop1)
    <2> HIDE DEF next
    <2>1. loop1 \in Asking
      <3>1. PoolSize \in Int
        BY ProviderConstants
      <3> QED
        BY <1>3, <3>1, LoopAsks
    <2> QED
      BY <1>3, <2>1 DEF Asking
  <1>6. f \in {over, next, some, loop1}
    BY DEF Providing!Fallback, Providing!Loop
  <1> HIDE DEF f, over, next, some, loop1, rest
  <1> QED
    BY <1>2, <1>3, <1>4, <1>5, <1>6 DEF f

LEMMA FallbackAsks ==
  ASSUME NEW q \in Asking, NEW c, VoiceOK(q), q.op # "embed", q.step = "try",
         q.op = "stream" /\ ~q.broke => q.part = << >>
  PROVE  AskingOK(Providing!Fallback(q), c)
  <1> DEFINE f == Providing!Fallback(q)
  <1>1. /\ f \in Asking
        /\ f.op = q.op /\ f.shown = q.shown /\ f.answer = q.answer /\ f.broke = q.broke
        /\ f.part = << >> /\ f.step \in {q.step, "failed"}
    BY FallbackIs
  <1> HIDE DEF f
  <1>2. VoiceOK(f)
    BY <1>1 DEF VoiceOK
  <1>3. KeysOK(f, c)
    BY <1>1 DEF KeysOK
  <1> QED
    BY <1>1, <1>2, <1>3 DEF AskingOK, f

LEMMA ReturnsAsks ==
  ASSUME NEW q \in Asking, NEW c, VoiceOK(q), q.op # "embed", q.step = "try"
  PROVE  AskingOK(Providing!Returns(q), c)
  <1>1. CASE q.part = << >>
    BY <1>1, FallbackAsks DEF Providing!Returns
  <1>2. CASE q.part # << >>
    <2> DEFINE f == [q EXCEPT !.step = "done", !.answer = q.part, !.held = FALSE]
    <2>1. /\ f \in Asking /\ f.op = q.op /\ f.part = q.part /\ f.shown = q.shown /\ f.answer = q.part
          /\ f.broke = q.broke /\ f.at = q.at /\ f.step = "done"
      BY DEF Asking, ProviderSteps
    <2>2. Providing!Returns(q) = f
      BY <1>2 DEF Providing!Returns
    <2> HIDE DEF f
    <2>3. VoiceOK(f) /\ KeysOK(f, c)
      BY <2>1 DEF VoiceOK, KeysOK
    <2> QED
      BY <2>1, <2>2, <2>3 DEF AskingOK
  <1> QED
    BY <1>1, <1>2

LEMMA PieceAsks ==
  ASSUME NEW q \in Asking, NEW c, VoiceOK(q), q.op # "embed", q.step = "try"
  PROVE  AskingOK(Providing!Piece(q), c)
  <1> DEFINE f == Providing!Piece(q)
  <1>0. Append(q.part, q.at) \in Seq(Nat) /\ Append(q.shown, q.at) \in Seq(Nat)
    BY DEF Asking
  <1>1. /\ f \in Asking /\ f.op = q.op /\ f.part = Append(q.part, q.at) /\ f.shown = Append(q.shown, q.at)
        /\ f.answer = q.answer /\ f.broke = q.broke /\ f.at = q.at /\ f.step = "try"
    BY <1>0 DEF Asking, Providing!Piece
  <1>2. \A i \in DOMAIN f.part : f.part[i] = f.at
    <2>1. q.part \in Seq(Nat) /\ q.at \in Nat
      BY DEF Asking
    <2>2. \A i \in DOMAIN q.part : q.part[i] = q.at
      BY DEF VoiceOK
    <2> HIDE DEF f
    <2>3. \A i \in DOMAIN Append(q.part, q.at) : Append(q.part, q.at)[i] = q.at
      BY <2>1, <2>2
    <2> QED
      BY <1>1, <2>3
  <1> HIDE DEF f
  <1>3. VoiceOK(f) /\ KeysOK(f, c)
    BY <1>1, <1>2 DEF VoiceOK, KeysOK
  <1> QED
    BY <1>1, <1>3 DEF AskingOK, f

(* An answer in one piece, to a request that shows nothing before.         *)
LEMMA AnswerAsks ==
  ASSUME NEW q \in Asking, NEW c, q.op \notin {"embed", "stream"}, VoiceOK(q)
  PROVE  AskingOK([q EXCEPT !.step = "done", !.answer = <<q.at>>, !.held = FALSE], c)
  <1> DEFINE f == [q EXCEPT !.step = "done", !.answer = <<q.at>>, !.held = FALSE]
  <1>0. <<q.at>> \in Seq(Nat)
    BY DEF Asking
  <1>1. /\ f \in Asking /\ f.op = q.op /\ f.part = q.part /\ f.answer = <<q.at>> /\ f.at = q.at
    BY <1>0 DEF Asking, ProviderSteps
  <1> HIDE DEF f
  <1>2. \A i, j \in DOMAIN f.answer : f.answer[i] = f.answer[j]
    BY <1>1
  <1>3. VoiceOK(f) /\ KeysOK(f, c)
    BY <1>1, <1>2 DEF VoiceOK, KeysOK
  <1> QED
    BY <1>1, <1>3 DEF AskingOK, f

(* A request that ends, or lets its key go.                                *)
LEMMA EndAsks ==
  ASSUME NEW q \in Asking, NEW c, VoiceOK(q), q.op # "embed", q.step = "try", NEW h1 \in BOOLEAN,
         NEW s \in {"try", "failed", "panic"}
  PROVE  AskingOK([q EXCEPT !.step = s, !.held = h1], c)
  <1> DEFINE f == [q EXCEPT !.step = s, !.held = h1]
  <1>1. /\ f \in Asking /\ f.op = q.op /\ f.part = q.part /\ f.answer = q.answer /\ f.shown = q.shown
        /\ f.broke = q.broke /\ f.at = q.at /\ f.step = s
    BY DEF Asking, ProviderSteps
  <1> HIDE DEF f
  <1>2. VoiceOK(f) /\ KeysOK(f, c)
    BY <1>1 DEF VoiceOK, KeysOK
  <1> QED
    BY <1>1, <1>2 DEF AskingOK, f

LEMMA FirstAsks ==
  ASSUME NEW o \in {"stream", "whole", "tools"}, NEW s \in Providing!Services, NEW c
  PROVE  AskingOK(Providing!First(o, s), c)
  <1> DEFINE q == [Providing!Idle EXCEPT !.op = o, !.service = s, !.step = "try"]
  <1>0. Providing!Idle \in Asking /\ VoiceOK(Providing!Idle)
    BY IdleAsks DEF AskingOK
  <1>1. /\ q \in Asking /\ q.op = o /\ q.step = "try" /\ q.part = << >> /\ q.shown = << >>
        /\ q.answer = << >>
    <2>1. q \in Asking
      <3> HIDE DEF Providing!Idle
      <3> QED
        BY <1>0 DEF Asking, ProviderOps, ProviderSteps
    <2> QED
      BY <2>1 DEF Providing!Idle
  <1> HIDE DEF q
  <1>2. VoiceOK(q)
    BY <1>1 DEF VoiceOK
  <1> QED
    BY <1>1, <1>2, FallbackAsks DEF Providing!First, q

LEMMA RetryAsks ==
  ASSUME NEW q \in Asking, NEW c, VoiceOK(q), q.op # "embed", q.step = "try",
         q.op = "stream" /\ ~q.broke => q.part = << >>
  PROVE  AskingOK(Providing!Retry(q), c)
  <1>1. AskingOK(Providing!Fallback(q), c)
    BY FallbackAsks
  <1>2. AskingOK([q EXCEPT !.held = FALSE], c)
    <2> DEFINE f == [q EXCEPT !.held = FALSE]
    <2>1. /\ f \in Asking /\ f.op = q.op /\ f.part = q.part /\ f.answer = q.answer /\ f.shown = q.shown
          /\ f.broke = q.broke /\ f.at = q.at /\ f.step = q.step
      BY DEF Asking
    <2> HIDE DEF f
    <2>2. VoiceOK(f) /\ KeysOK(f, c)
      BY <2>1 DEF VoiceOK, KeysOK
    <2> QED
      BY <2>1, <2>2 DEF AskingOK, f
  <1> QED
    BY <1>1, <1>2 DEF Providing!Retry

-----------------------------------------------------------------------------

(* A key is taken: for who waits for none, nothing changes.                *)
LEMMA KeyTaken ==
  ASSUME ProviderInv, NEW r \in Handlers, Providing!GetKey(r)
  PROVE  ProviderInv'
  <1> DEFINE q == req[r]
             f == [q EXCEPT !.held = TRUE, !.tried = @ \cup {counter}, !.left = @ - 1]
             next == (counter + 1) % PoolSize
  <1>1. /\ q \in Asking /\ VoiceOK(q) /\ KeysOK(q, counter) /\ counter \in Providing!Keys
        /\ PoolSize \in Nat \ {0}
    BY ProviderConstants DEF ProviderInv, AskingOK
  <1>2. counter' = next /\ next \in Providing!Keys
        /\ next = IF counter = PoolSize - 1 THEN 0 ELSE counter + 1
    <2>1. counter' = next
      BY DEF Providing!GetKey
    <2>2. counter \in Nat /\ counter < PoolSize
      BY <1>1 DEF Providing!Keys
    <2>3. CASE counter = PoolSize - 1
      <3>1. next = 0
        BY <1>1, <2>3
      <3> QED
        BY <1>1, <2>1, <2>3, <3>1 DEF Providing!Keys
    <2>4. CASE counter # PoolSize - 1
      <3>1. next = counter + 1
        BY <1>1, <2>2, <2>4
      <3> QED
        BY <1>1, <2>1, <2>2, <2>4, <3>1 DEF Providing!Keys
    <2> QED
      BY <2>3, <2>4
  <1> HIDE DEF next
  <1>3. /\ f \in Asking /\ f.op = q.op /\ f.part = q.part /\ f.shown = q.shown /\ f.answer = q.answer
        /\ f.broke = q.broke /\ f.at = q.at /\ f.step = q.step /\ f.alone = q.alone
        /\ f.tried = q.tried \cup {counter} /\ f.left = q.left - 1
    <2>1. q.left - 1 \in Int /\ q.tried \cup {counter} \in SUBSET Providing!Keys
      BY <1>1 DEF Asking
    <2>2. ASSUME NEW n \in Int, NEW t \in SUBSET Providing!Keys
          PROVE  [q EXCEPT !.held = TRUE, !.tried = t, !.left = n] \in Asking
      BY <1>1 DEF Asking
    <2>3. f = [q EXCEPT !.held = TRUE, !.tried = q.tried \cup {counter}, !.left = q.left - 1]
      BY <1>1 DEF Asking
    <2>4. f \in Asking
      <3> HIDE DEF f
      <3> QED
        BY <2>1, <2>2, <2>3
    <2> QED
      BY <1>1, <2>4 DEF Asking
  <1>4. AskingOK(f, next)
    <2> HIDE DEF f
    <2>1. VoiceOK(f)
      BY <1>1, <1>3 DEF VoiceOK
    <2>2. ASSUME q.op = "embed" PROVE KeysOK(f, next)
      <3>1. /\ q.step # "try" /\ q.left <= PoolSize /\ q.left \in Int
            /\ q.alone => q.tried = {k \in Providing!Keys : TurnsAgo(k, counter) <= PoolSize - q.left}
        BY <1>1, <2>2 DEF KeysOK, Asking
      <3>2. q.step = "key"
        BY <2>2, <3>1 DEF Providing!GetKey, Providing!Turning
      <3>3. \A k \in Providing!Keys :
                TurnsAgo(k, next) = IF k = counter THEN 1 ELSE TurnsAgo(k, counter) + 1
        BY <1>1, <1>2 DEF TurnsAgo, Providing!Keys
      <3>4. \A k \in Providing!Keys : TurnsAgo(k, counter) \in Int
        BY <1>1 DEF TurnsAgo, Providing!Keys
      <3>5. ASSUME q.alone
            PROVE  f.tried = {k \in Providing!Keys : TurnsAgo(k, next) <= PoolSize - (q.left - 1)}
        <4>1. q.tried = {k \in Providing!Keys : TurnsAgo(k, counter) <= PoolSize - q.left}
          BY <3>1, <3>5
        <4>2. ASSUME NEW k \in Providing!Keys
              PROVE  k \in f.tried <=> TurnsAgo(k, next) <= PoolSize - (q.left - 1)
          <5>1. CASE k = counter
            BY <1>1, <1>3, <3>1, <3>3, <5>1
          <5>2. CASE k # counter
            <6>1. k \in f.tried <=> TurnsAgo(k, counter) <= PoolSize - q.left
              BY <1>3, <4>1, <5>2
            <6>2. TurnsAgo(k, next) = TurnsAgo(k, counter) + 1
              BY <3>3, <5>2
            <6> QED
              BY <1>1, <3>1, <3>4, <6>1, <6>2
          <5> QED
            BY <5>1, <5>2
        <4>3. f.tried \subseteq Providing!Keys
          BY <1>3 DEF Asking
        <4> QED
          BY <4>2, <4>3
      <3> QED
        BY <1>1, <1>3, <3>1, <3>2, <3>5 DEF KeysOK
    <2>3. ASSUME q.op # "embed" PROVE KeysOK(f, next)
      BY <1>3, <2>3 DEF KeysOK
    <2> QED
      BY <1>3, <2>1, <2>2, <2>3 DEF AskingOK
  <1>5. ASSUME NEW s \in Handlers, s # r
        PROVE  AskingOK([req[s] EXCEPT !.alone = @ /\ req[s] = Providing!Idle], next)
    <2> DEFINE p == req[s]
               g == [p EXCEPT !.alone = @ /\ p = Providing!Idle]
    <2>1. p \in Asking /\ VoiceOK(p) /\ KeysOK(p, counter)
      BY DEF ProviderInv, AskingOK
    <2>2. CASE p = Providing!Idle
      <3>1. g = p
        BY <2>1, <2>2 DEF Asking
      <3> HIDE DEF g
      <3> QED
        BY <2>2, <3>1, IdleAsks DEF g
    <2>3. CASE p # Providing!Idle
      <3>1. /\ g \in Asking /\ g.op = p.op /\ g.part = p.part /\ g.shown = p.shown /\ g.answer = p.answer
            /\ g.broke = p.broke /\ g.at = p.at /\ g.step = p.step /\ g.alone = FALSE /\ g.left = p.left
        BY <2>1, <2>3 DEF Asking
      <3> HIDE DEF g, p
      <3>2. VoiceOK(g) /\ KeysOK(g, next)
        BY <2>1, <3>1 DEF VoiceOK, KeysOK
      <3> QED
        BY <3>1, <3>2 DEF AskingOK, g, p
    <2> QED
      BY <2>2, <2>3
  <1> HIDE DEF f
  <1>6. req' = [s \in Handlers |-> IF s = r THEN f
                                   ELSE [req[s] EXCEPT !.alone = @ /\ req[s] = Providing!Idle]]
    BY DEF Providing!GetKey, f
  <1>7. \A s \in Handlers : AskingOK(req'[s], next)
    BY <1>4, <1>5, <1>6
  <1>8. req' \in [Handlers -> Asking]
    BY <1>6, <1>7 DEF AskingOK
  <1> QED
    BY <1>2, <1>7, <1>8 DEF ProviderInv

(* A request begins.                                                       *)
LEMMA ProviderBegins ==
  ASSUME ProviderInv, NEW r \in Handlers,
         \/ Providing!Embed(r)
         \/ \E s \in {"chat", "summary"} : Providing!ChatStream(r, s)
         \/ \E s \in Providing!Services : Providing!ChatNonStream(r, s)
         \/ Providing!ChatNonStreamWithTools(r)
  PROVE  ProviderInv'
  <1>1. ASSUME NEW q, Providing!Begins(r, q), AskingOK(q, counter) PROVE ProviderInv'
    BY <1>1, BecomesOK DEF Providing!Begins
  <1>2. CASE Providing!Embed(r)
    <2> DEFINE i == [Providing!Idle EXCEPT !.op = "embed", !.step = "key"]
               q == Providing!Loop(i)
    <2>1. i \in Asking /\ i.op = "embed" /\ i.step = "key" /\ i.part = << >> /\ i.answer = << >>
      <3>1. i \in Asking
        <4>1. Providing!Idle \in Asking
          BY IdleAsks DEF AskingOK
        <4> HIDE DEF Providing!Idle
        <4> QED
          BY <4>1 DEF Asking, ProviderOps, ProviderSteps
      <3> QED
        BY <3>1 DEF Providing!Idle
    <2> HIDE DEF i
    <2>2. /\ q \in Asking /\ q.op = "embed" /\ q.step = "key" /\ q.part = << >> /\ q.answer = << >>
          /\ q.tried = {} /\ q.left = PoolSize
      <3>1. PoolSize \in Int
        BY ProviderConstants
      <3>2. q \in Asking
        BY <2>1, <3>1, LoopAsks DEF Providing!Loop
      <3> QED
        BY <2>1, <3>2 DEF Asking, Providing!Loop
    <2> HIDE DEF q
    <2>3. VoiceOK(q)
      BY <2>2 DEF VoiceOK
    <2>4. KeysOK(q, counter)
      <3>1. \A k \in Providing!Keys : TurnsAgo(k, counter) \in Int /\ TurnsAgo(k, counter) > 0
        BY ProviderConstants DEF ProviderInv, TurnsAgo, Providing!Keys
      <3>2. PoolSize - q.left = 0 /\ PoolSize \in Int
        BY <2>2, ProviderConstants
      <3>3. {k \in Providing!Keys : TurnsAgo(k, counter) <= PoolSize - q.left} = {}
        BY <3>1, <3>2
      <3> QED
        BY <2>2, <3>2, <3>3 DEF KeysOK
    <2> QED
      BY <1>1, <1>2, <2>2, <2>3, <2>4 DEF Providing!Embed, AskingOK, q, i
  <1>3. CASE \E s \in {"chat", "summary"} : Providing!ChatStream(r, s)
    <2>1. PICK s \in {"chat", "summary"} : Providing!Begins(r, Providing!First("stream", s))
      BY <1>3 DEF Providing!ChatStream
    <2>2. AskingOK(Providing!First("stream", s), counter)
      BY ProviderConstants, FirstAsks
    <2> QED
      BY <1>1, <2>1, <2>2
  <1>4. CASE \E s \in Providing!Services : Providing!ChatNonStream(r, s)
    <2>1. PICK s \in Providing!Services : Providing!Begins(r, Providing!First("whole", s))
      BY <1>4 DEF Providing!ChatNonStream
    <2>2. AskingOK(Providing!First("whole", s), counter)
      BY FirstAsks
    <2> QED
      BY <1>1, <2>1, <2>2
  <1>5. CASE Providing!ChatNonStreamWithTools(r)
    <2>1. AskingOK(Providing!First("tools", "chat"), counter)
      BY ProviderConstants, FirstAsks
    <2> QED
      BY <1>1, <1>5, <2>1 DEF Providing!ChatNonStreamWithTools
  <1> QED
    BY <1>2, <1>3, <1>4, <1>5

(* An embedding.                                                           *)
LEMMA EmbedSteps ==
  ASSUME ProviderInv, NEW r \in Handlers, Providing!EmbedFails(r) \/ Providing!EmbedWorks(r)
  PROVE  ProviderInv'
  <1> DEFINE q == req[r]
  <1>1. q \in Asking /\ VoiceOK(q) /\ KeysOK(q, counter) /\ q.op = "embed"
    BY DEF ProviderInv, AskingOK, Providing!EmbedFails, Providing!EmbedWorks
  <1>2. PICK s \in {"key", "failed", "done"} :
            /\ Providing!Becomes(r, [q EXCEPT !.step = s, !.held = FALSE])
            /\ s = "failed" => q.left = 0
    BY DEF Providing!EmbedFails, Providing!EmbedWorks, Providing!GiveUp
  <1> DEFINE f == [q EXCEPT !.step = s, !.held = FALSE]
  <1>3. /\ f \in Asking /\ f.op = q.op /\ f.part = q.part /\ f.answer = q.answer /\ f.at = q.at
        /\ f.step = s /\ f.left = q.left /\ f.alone = q.alone /\ f.tried = q.tried
    BY <1>1 DEF Asking, ProviderSteps
  <1> HIDE DEF f
  <1>4. VoiceOK(f) /\ KeysOK(f, counter)
    BY <1>1, <1>2, <1>3 DEF VoiceOK, KeysOK
  <1> QED
    BY <1>2, <1>3, <1>4, BecomesOK DEF Providing!Becomes, AskingOK, f

LEMMA ProviderStreams ==
  ASSUME ProviderInv, NEW r \in Handlers,
         \/ Providing!Refused(r) \/ Providing!Token(r) \/ Providing!StreamEnds(r)
         \/ Providing!GeminiToken(r) \/ Providing!GeminiBusy(r) \/ Providing!GeminiEnds(r)
  PROVE  ProviderInv'
  <1> DEFINE q == req[r]
  <1>1. /\ q \in Asking /\ VoiceOK(q) /\ q.op = "stream" /\ q.step = "try"
    BY DEF ProviderInv, AskingOK, Providing!Trying, Providing!Refused, Providing!Token,
           Providing!StreamEnds, Providing!GeminiToken, Providing!GeminiBusy, Providing!GeminiEnds
  <1>2. ASSUME NEW f, Providing!Becomes(r, f), AskingOK(f, counter) PROVE ProviderInv'
    BY <1>2, BecomesOK DEF Providing!Becomes
  <1>3. AskingOK(Providing!Returns(q), counter) /\ AskingOK(Providing!Piece(q), counter)
    BY <1>1, ReturnsAsks, PieceAsks
  <1>4. CASE Providing!Token(r) \/ Providing!GeminiToken(r)
    BY <1>2, <1>3, <1>4 DEF Providing!Token, Providing!GeminiToken
  <1>5. CASE Providing!StreamEnds(r) \/ Providing!GeminiEnds(r)
    BY <1>2, <1>3, <1>5 DEF Providing!StreamEnds, Providing!GeminiEnds, Providing!BreaksOff
  <1>6. CASE Providing!Refused(r)
    <2>1. /\ q.part = << >>
          /\ \/ Providing!Becomes(r, Providing!Fallback(q))
             \/ Providing!Becomes(r, [q EXCEPT !.step = "failed"])
      BY <1>6 DEF Providing!Refused
    <2>2. AskingOK(Providing!Fallback(q), counter)
      BY <1>1, <2>1, FallbackAsks
    <2>3. AskingOK([q EXCEPT !.step = "failed"], counter)
      <3>1. [q EXCEPT !.step = "failed"] = [q EXCEPT !.step = "failed", !.held = q.held]
        BY <1>1 DEF Asking
      <3>2. q.held \in BOOLEAN
        BY <1>1 DEF Asking
      <3> QED
        BY <1>1, <3>1, <3>2, EndAsks
    <2> QED
      BY <1>2, <2>1, <2>2, <2>3
  <1>7. CASE Providing!GeminiBusy(r)
    <2>1. q.part = << >> /\ Providing!Becomes(r, Providing!Retry(q))
      BY <1>7 DEF Providing!GeminiBusy
    <2> QED
      BY <1>1, <1>2, <2>1, RetryAsks
  <1> QED
    BY <1>4, <1>5, <1>6, <1>7

LEMMA GeminiFailsOK ==
  ASSUME ProviderInv, NEW r \in Handlers, Providing!GeminiFails(r)
  PROVE  ProviderInv'
  <1> DEFINE q == req[r]
             f == [q EXCEPT !.broke = @ \/ q.part # << >>]
  <1>1. /\ q \in Asking /\ VoiceOK(q) /\ q.op = "stream" /\ q.step = "try"
    BY DEF ProviderInv, AskingOK, Providing!Trying, Providing!GeminiFails
  <1>2. /\ f \in Asking /\ f.op = "stream" /\ f.step = "try" /\ f.part = q.part /\ f.shown = q.shown
        /\ f.answer = q.answer /\ f.at = q.at /\ f.broke = (q.broke \/ q.part # << >>)
    BY <1>1 DEF Asking
  <1>3. \/ Providing!Becomes(r, Providing!Fallback(f))
        \/ Providing!Becomes(r, [f EXCEPT !.step = "failed", !.held = FALSE])
    BY DEF Providing!GeminiFails
  <1> HIDE DEF f
  <1>4. VoiceOK(f)
    <2>1. /\ \A i \in DOMAIN q.part : q.part[i] = q.at
          /\ \A i, j \in DOMAIN q.answer : q.answer[i] = q.answer[j]
          /\ ~q.broke => q.shown = q.part
      BY <1>1 DEF VoiceOK
    <2> HIDE DEF q
    <2> QED
      BY <1>2, <2>1 DEF VoiceOK
  <1>5. AskingOK(Providing!Fallback(f), counter)
    BY <1>2, <1>4, FallbackAsks
  <1>6. AskingOK([f EXCEPT !.step = "failed", !.held = FALSE], counter)
    BY <1>2, <1>4, EndAsks
  <1> QED
    BY <1>3, <1>5, <1>6, BecomesOK DEF Providing!Becomes

(* Answers in one piece, and the end of a handler.                         *)
LEMMA ProviderWhole ==
  ASSUME ProviderInv, NEW r \in Handlers,
         \/ Providing!WholeFails(r) \/ Providing!HFBusy(r) \/ Providing!HFErrs(r)
         \/ Providing!WholeBusy(r) \/ Providing!WholeErrs(r) \/ Providing!WholeAnswers(r)
         \/ Providing!ToolsSkipOrFail(r) \/ Providing!ToolsAnswer(r)
  PROVE  ProviderInv'
  <1> DEFINE q == req[r]
             answered == [q EXCEPT !.step = "done", !.answer = <<q.at>>, !.held = FALSE]
  <1>1. /\ q \in Asking /\ VoiceOK(q) /\ q.op \in {"whole", "tools"} /\ q.step = "try"
    BY DEF ProviderInv, AskingOK, Providing!Trying, Providing!WholeFails, Providing!HFBusy,
           Providing!HFErrs, Providing!WholeBusy, Providing!WholeErrs, Providing!WholeAnswers,
           Providing!ToolsSkipOrFail, Providing!ToolsAnswer
  <1>2. ASSUME NEW f, Providing!Becomes(r, f), AskingOK(f, counter) PROVE ProviderInv'
    BY <1>2, BecomesOK DEF Providing!Becomes
  <1>3. /\ AskingOK(Providing!Fallback(q), counter) /\ AskingOK(Providing!Retry(q), counter)
        /\ AskingOK(answered, counter)
    BY <1>1, FallbackAsks, RetryAsks, AnswerAsks
  <1>4. AskingOK([q EXCEPT !.left = @ - 1], counter)
    <2>1. q.left - 1 \in Int
      BY <1>1 DEF Asking
    <2> DEFINE f == [q EXCEPT !.left = q.left - 1]
    <2>2. f \in Asking
      BY <1>1, <2>1, LeftAsks
    <2>3. /\ f.op = q.op /\ f.step = q.step /\ f.part = q.part /\ f.answer = q.answer /\ f.at = q.at
      BY <1>1 DEF Asking
    <2>4. f = [q EXCEPT !.left = @ - 1]
      OBVIOUS
    <2> HIDE DEF f
    <2>5. VoiceOK(f) /\ KeysOK(f, counter)
      BY <1>1, <2>3 DEF VoiceOK, KeysOK
    <2> QED
      BY <2>2, <2>4, <2>5 DEF AskingOK
  <1>5. \/ Providing!Becomes(r, Providing!Fallback(q)) \/ Providing!Becomes(r, Providing!Retry(q))
        \/ Providing!Becomes(r, answered) \/ Providing!Becomes(r, [q EXCEPT !.left = @ - 1])
    BY DEF Providing!WholeFails, Providing!HFBusy, Providing!HFErrs, Providing!WholeBusy,
           Providing!WholeErrs, Providing!WholeAnswers, Providing!ToolsSkipOrFail,
           Providing!ToolsAnswer, Providing!Answers
  <1> HIDE DEF answered
  <1> QED
    BY <1>2, <1>3, <1>4, <1>5

LEMMA ProviderEnds ==
  ASSUME ProviderInv, NEW r \in Handlers, Providing!GeminiUnreachable(r) \/ Providing!Leave(r)
  PROVE  ProviderInv'
  <1>1. CASE Providing!GeminiUnreachable(r)
    <2> DEFINE q == req[r]
    <2>1. /\ q \in Asking /\ VoiceOK(q) /\ q.op # "embed" /\ q.step = "try"
      BY <1>1 DEF ProviderInv, AskingOK, KeysOK, Providing!GeminiUnreachable
    <2>2. AskingOK([q EXCEPT !.step = "panic", !.held = FALSE], counter)
      BY <2>1, EndAsks
    <2> QED
      BY <1>1, <2>2, BecomesOK DEF Providing!GeminiUnreachable, Providing!Becomes
  <1>2. CASE Providing!Leave(r)
    BY <1>2, IdleAsks, BecomesOK DEF Providing!Leave
  <1> QED
    BY <1>1, <1>2

LEMMA ProviderStep ==
  ASSUME ProviderInv, [Providing!Next]_(Providing!vars)
  PROVE  ProviderInv'
  <1>1. CASE UNCHANGED Providing!vars
    BY <1>1 DEF Providing!vars, ProviderInv
  <1>2. CASE Providing!AnswerExpires
    BY <1>2 DEF Providing!AnswerExpires, ProviderInv
  <1>3. ASSUME NEW r \in Handlers,
               \/ Providing!GetKey(r) \/ Providing!Embed(r) \/ Providing!EmbedFails(r) \/ Providing!EmbedWorks(r)
               \/ \E s \in {"chat", "summary"} : Providing!ChatStream(r, s)
               \/ \E s \in Providing!Services : Providing!ChatNonStream(r, s)
               \/ Providing!ChatNonStreamWithTools(r)
               \/ Providing!Refused(r) \/ Providing!Token(r) \/ Providing!StreamEnds(r)
               \/ Providing!GeminiToken(r) \/ Providing!GeminiBusy(r) \/ Providing!GeminiFails(r)
               \/ Providing!GeminiEnds(r) \/ Providing!GeminiUnreachable(r)
               \/ Providing!WholeFails(r) \/ Providing!HFBusy(r) \/ Providing!HFErrs(r)
               \/ Providing!WholeBusy(r) \/ Providing!WholeErrs(r) \/ Providing!WholeAnswers(r)
               \/ Providing!ToolsSkipOrFail(r) \/ Providing!ToolsAnswer(r) \/ Providing!Leave(r)
        PROVE  ProviderInv'
    BY <1>3, KeyTaken, ProviderBegins, EmbedSteps, ProviderStreams, GeminiFailsOK, ProviderWhole, ProviderEnds
  <1> QED
    BY <1>1, <1>2, <1>3 DEF Providing!Next

ProviderSide == side = "providers" => ProviderInv

LEMMA ProviderSideHolds == AssistantSpec => []ProviderSide
  <1>1. AssistantInit => ProviderSide
    BY ProviderStart DEF AssistantInit, ProviderSide
  <1>2. ProviderSide /\ [AssistantNext]_assistantVars => ProviderSide'
    <2> SUFFICES ASSUME ProviderSide, [AssistantNext]_assistantVars, side' = "providers" PROVE ProviderInv'
      BY DEF ProviderSide
    <2>1. side = "providers" /\ [Providing!Next]_(Providing!vars)
      BY DEF AssistantNext, assistantVars, providerVars, Providing!vars
    <2> QED
      BY <2>1, ProviderStep DEF ProviderSide
  <1> QED
    BY <1>1, <1>2, PTL DEF AssistantSpec

(* What a client was shown while it waited is the answer that is returned, *)
(* from one provider, but for Gemini failing in the middle (ChatStream);   *)
(* and an embedding is given up when every key of the pool has failed,     *)
(* unless another request took keys in between (EmbedWithRetry).           *)
THEOREM ProvidersAlwaysKeepFaith == AssistantSpec => []ProvidersKeepFaith
  <1>1. ProviderSide => ProvidersKeepFaith
    <2> SUFFICES ASSUME ProviderSide, side = "providers"
                 PROVE  Providing!OneVoice /\ Providing!EveryKeyIsTried
      BY DEF ProvidersKeepFaith
    <2>1. /\ counter \in Providing!Keys
          /\ \A r \in Handlers : req[r] \in Asking /\ VoiceOK(req[r]) /\ KeysOK(req[r], counter)
      BY DEF ProviderSide, ProviderInv, AskingOK
    <2>2. Providing!OneVoice
      <3> SUFFICES ASSUME NEW r \in Handlers
                   PROVE  /\ req[r].op = "stream" /\ req[r].step = "done" /\ ~req[r].broke =>
                                req[r].shown = req[r].answer
                          /\ \A i, j \in 1..Len(req[r].answer) : req[r].answer[i] = req[r].answer[j]
        BY DEF Providing!OneVoice
      <3>1. DOMAIN req[r].answer = 1..Len(req[r].answer)
        BY <2>1 DEF Asking
      <3> QED
        BY <2>1, <3>1 DEF VoiceOK
    <2>3. Providing!EveryKeyIsTried
      <3> SUFFICES ASSUME NEW r \in Handlers, req[r].op = "embed", req[r].step = "failed", req[r].alone
                   PROVE  req[r].tried = Providing!Keys
        BY DEF Providing!EveryKeyIsTried
      <3>1. /\ req[r].left = 0
            /\ req[r].tried = {k \in Providing!Keys : TurnsAgo(k, counter) <= PoolSize - req[r].left}
        BY <2>1 DEF KeysOK
      <3>2. \A k \in Providing!Keys : TurnsAgo(k, counter) <= PoolSize - 0
        BY <2>1, ProviderConstants DEF TurnsAgo, Providing!Keys
      <3> QED
        BY <3>1, <3>2
    <2> QED
      BY <2>2, <2>3
  <1> QED
    BY <1>1, ProviderSideHolds, PTL

-----------------------------------------------------------------------------
(* Types of a request: it is at a place of its service's list, with turns  *)
(* left for as long as it waits for a key.                                 *)

ListOps == {"stream", "whole", "tools"}

AskTyped(q) ==
    /\ q.op \in ListOps => q.service \in Providing!Services /\ q.at \in 0..Len(Priorities[q.service])
    /\ q.step = "try" \/ q.part # << >> => q.op \in ListOps /\ q.at # 0
    /\ q.op \notin ListOps => q.at = 0
    /\ Len(q.part) <= MaxTokens /\ q.answer \in Providing!Said
    /\ q.left \in 0..(PoolSize + Providing!HFTries)
    /\ ~q.held /\ q.op = "embed" /\ q.step = "key" => q.left # 0
    /\ ~q.held /\ q.step = "try" /\ Priorities[q.service][q.at] = "gemini" => q.left # 0

AsksTyped ==
    /\ asked \in 0..MaxRequests
    /\ answers = None \/ answers \in Providing!Said
    /\ \A r \in Handlers : AskTyped(req[r])

LEMMA MoreProviderConstants ==
    /\ PoolSize \in Nat \ {0} /\ MaxTokens \in Nat \ {0} /\ MaxRequests \in Nat
    /\ \A s \in Providing!Services : Priorities[s] \in Seq({"openai", "gemini", "hf"})
    /\ \A s \in Providing!Services : Len(Priorities[s]) \in Nat /\ 1..Len(Priorities[s]) \subseteq Providing!Places
    /\ Providing!Places \subseteq Nat
  <1>1. /\ PoolSize \in Nat \ {0} /\ MaxTokens \in Nat \ {0} /\ MaxRequests \in Nat
        /\ \A s \in Providing!Services : Priorities[s] \in Seq({"openai", "gemini", "hf"})
    BY AssistantAssumption DEF Providing!PoolAssumption, Providing!PrioritiesAssumption, Providing!Services
  <1>2. \A s \in Providing!Services : Len(Priorities[s]) \in Nat
    BY <1>1
  <1>3. \A s \in Providing!Services : 1..Len(Priorities[s]) \subseteq Providing!Places
    BY DEF Providing!Places
  <1>4. Providing!Places \subseteq Nat
    BY <1>2 DEF Providing!Places
  <1> QED
    BY <1>1, <1>2, <1>3, <1>4

(* What one provider says.                                                 *)
LEMMA SaidOK ==
  ASSUME NEW n \in Providing!Places
  PROVE  /\ << >> \in Providing!Said /\ <<n>> \in Providing!Said
         /\ \A t \in Seq(Nat) : (\A i \in DOMAIN t : t[i] = n) /\ Len(t) <= MaxTokens => t \in Providing!Said
  <1>1. MaxTokens \in Nat \ {0}
    BY MoreProviderConstants
  <1>2. << >> \in Seq(Providing!Places) /\ Len(<< >>) = 0
    OBVIOUS
  <1>3. <<n>> \in Seq(Providing!Places) /\ Len(<<n>>) = 1
    OBVIOUS
  <1>4. ASSUME NEW t \in Seq(Nat), \A i \in DOMAIN t : t[i] = n PROVE t \in Seq(Providing!Places)
    BY <1>4
  <1> QED
    BY <1>1, <1>2, <1>3, <1>4 DEF Providing!Said

LEMMA NothingSaid == << >> \in Providing!Said
  <1>1. << >> \in Seq(Providing!Places) /\ Len(<< >>) = 0
    OBVIOUS
  <1> QED
    BY <1>1, MoreProviderConstants DEF Providing!Said

LEMMA IdleTyped == AskTyped(Providing!Idle)
  <1>1. 0 \in 0..(PoolSize + Providing!HFTries) /\ Len(<< >>) <= MaxTokens
    BY MoreProviderConstants DEF Providing!HFTries
  <1> QED
    BY <1>1, NothingSaid DEF AskTyped, Providing!Idle, ListOps

LEMMA PlaceTyped ==
  ASSUME NEW x, x.op \in ListOps, x.service \in Providing!Services,
         x.at \in 0..Len(Priorities[x.service]), x.at # 0, x.part = << >>,
         x.answer \in Providing!Said, x.left \in 0..(PoolSize + Providing!HFTries), x.step = "try",
         Priorities[x.service][x.at] = "gemini" => x.left # 0
  PROVE  AskTyped(x)
  <1>1. Len(x.part) <= MaxTokens
    BY MoreProviderConstants
  <1>2. x.op # "embed"
    BY DEF ListOps
  <1> QED
    BY <1>1, <1>2 DEF AskTyped

(* The next place of the list, or the end.                                 *)
LEMMA FallbackTyped ==
  ASSUME NEW q \in Asking, q.op \in ListOps, q.step = "try", q.service \in Providing!Services,
         q.at \in 0..Len(Priorities[q.service]), q.answer \in Providing!Said
  PROVE  AskTyped(Providing!Fallback(q))
  <1> DEFINE f == Providing!Fallback(q)
             rest == [q EXCEPT !.part = << >>, !.tried = {}, !.left = 0, !.held = FALSE]
             next == [rest EXCEPT !.at = @ + 1]
             over == [rest EXCEPT !.step = "failed"]
             some == [next EXCEPT !.left = Providing!HFTries]
             loop1 == [next EXCEPT !.tried = {}, !.left = PoolSize, !.alone = TRUE]
             kind == Priorities[q.service][q.at + 1]
             Good(x) == /\ x.op = q.op /\ x.service = q.service /\ x.answer = q.answer
                        /\ x.part = << >> /\ x.held = FALSE
  <1>1. rest \in Asking
    <2>1. 0 \in Int
      OBVIOUS
    <2> QED
      BY <2>1, ClearedAsks, Zenon
  <1>2. Good(rest) /\ rest.at = q.at /\ rest.left = 0 /\ rest.step = "try"
    BY DEF Asking
  <1>3. q.at \in Nat /\ Len(Priorities[q.service]) \in Nat
    BY MoreProviderConstants DEF Asking
  <1> HIDE DEF rest
  <1>4. Good(over) /\ over.at = q.at /\ over.left = 0 /\ over.step = "failed"
    BY <1>1, <1>2 DEF Asking
  <1>5. next \in Asking /\ Good(next) /\ next.at = q.at + 1 /\ next.left = 0 /\ next.step = "try"
    <2>1. rest.at + 1 \in Nat
      BY <1>2, <1>3
    <2>2. next \in Asking
      BY <1>1, <2>1, AtAsks
    <2> QED
      BY <1>1, <1>2, <2>2 DEF Asking
  <1> HIDE DEF next
  <1>6. Good(some) /\ some.at = q.at + 1 /\ some.left = Providing!HFTries /\ some.step = "try"
    BY <1>5 DEF Asking
  <1>7. Good(loop1) /\ loop1.at = q.at + 1 /\ loop1.left = PoolSize /\ loop1.step = "try"
    BY <1>5 DEF Asking
  <1>8. f = IF q.at < Len(Priorities[q.service])
            THEN CASE kind = "gemini" -> loop1 [] kind = "hf" -> some [] OTHER -> next
            ELSE over
    BY <1>2, <1>5 DEF Providing!Fallback, Providing!Loop, rest, next
  <1>9. 0 <= MaxTokens /\ PoolSize \in Nat \ {0}
    BY MoreProviderConstants
  <1>10. /\ 0 \in 0..(PoolSize + Providing!HFTries) /\ PoolSize \in 0..(PoolSize + Providing!HFTries)
         /\ Providing!HFTries \in 0..(PoolSize + Providing!HFTries)
    BY <1>9 DEF Providing!HFTries
  <1> HIDE DEF f, over, some, loop1
  <1>11. CASE q.at < Len(Priorities[q.service])
    <2>1. q.at + 1 \in 0..Len(Priorities[q.service]) /\ q.at + 1 # 0
      BY <1>3, <1>11
    <2>2. CASE kind = "gemini"
      <3>1. AskTyped(loop1)
        BY <1>7, <1>9, <1>10, <2>1, PlaceTyped
      <3> QED
        BY <1>8, <1>11, <2>2, <3>1 DEF f
    <2>3. CASE kind = "hf"
      <3>1. kind # "gemini"
        BY <2>3
      <3>2. AskTyped(some)
        BY <1>6, <1>10, <2>1, <3>1, PlaceTyped
      <3>3. f = some
        BY <1>8, <1>11, <2>3, <3>1
      <3> QED
        BY <3>2, <3>3 DEF f
    <2>4. CASE kind # "gemini" /\ kind # "hf"
      <3>1. AskTyped(next)
        BY <1>5, <1>10, <2>1, <2>4, PlaceTyped
      <3>2. f = next
        BY <1>8, <1>11, <2>4
      <3> QED
        BY <3>1, <3>2 DEF f
    <2> QED
      BY <2>2, <2>3, <2>4 DEF f
  <1>12. CASE ~(q.at < Len(Priorities[q.service]))
    BY <1>4, <1>8, <1>9, <1>10, <1>12 DEF AskTyped, ListOps, f
  <1> QED
    BY <1>11, <1>12

(* A request that goes on at its place, says more or ends.                 *)
LEMMA ReturnsTyped ==
  ASSUME NEW q \in Asking, VoiceOK(q), AskTyped(q), q.step = "try"
  PROVE  AskTyped(Providing!Returns(q))
  <1>1. q.op \in ListOps /\ q.at # 0 /\ q.service \in Providing!Services /\ q.at \in 0..Len(Priorities[q.service])
    BY DEF AskTyped
  <1>2. q.at \in Providing!Places
    BY <1>1, MoreProviderConstants
  <1>3. CASE q.part = << >>
    BY <1>1, <1>3, FallbackTyped DEF Providing!Returns, AskTyped
  <1>4. CASE q.part # << >>
    <2> DEFINE f == [q EXCEPT !.step = "done", !.answer = q.part, !.held = FALSE]
    <2>1. /\ f.op = q.op /\ f.service = q.service /\ f.at = q.at /\ f.part = q.part /\ f.answer = q.part
          /\ f.left = q.left /\ f.step = "done"
      BY DEF Asking
    <2>2. Providing!Returns(q) = f
      BY <1>4 DEF Providing!Returns
    <2>3. q.part \in Providing!Said
      BY <1>2, SaidOK DEF VoiceOK, AskTyped, Asking
    <2> HIDE DEF f
    <2> QED
      BY <1>1, <2>1, <2>2, <2>3 DEF AskTyped
  <1> QED
    BY <1>3, <1>4

LEMMA PieceTyped ==
  ASSUME NEW q \in Asking, AskTyped(q), q.step = "try", Len(q.part) < MaxTokens
  PROVE  AskTyped(Providing!Piece(q))
  <1> DEFINE f == Providing!Piece(q)
  <1>1. /\ f.op = q.op /\ f.service = q.service /\ f.at = q.at /\ f.part = Append(q.part, q.at)
        /\ f.answer = q.answer /\ f.left = q.left /\ f.step = "try" /\ f.held = q.held
    BY DEF Asking, Providing!Piece
  <1>2. Len(f.part) <= MaxTokens
    <2>1. q.part \in Seq(Nat) /\ MaxTokens \in Nat
      BY MoreProviderConstants DEF Asking
    <2>2. Len(Append(q.part, q.at)) = Len(q.part) + 1 /\ Len(q.part) \in Nat
      BY <2>1
    <2> QED
      BY <1>1, <2>1, <2>2
  <1> HIDE DEF f
  <1> QED
    BY <1>1, <1>2 DEF AskTyped, f

LEMMA AnswerTyped ==
  ASSUME NEW q \in Asking, AskTyped(q), q.step = "try"
  PROVE  AskTyped([q EXCEPT !.step = "done", !.answer = <<q.at>>, !.held = FALSE])
  <1> DEFINE f == [q EXCEPT !.step = "done", !.answer = <<q.at>>, !.held = FALSE]
  <1>1. q.op \in ListOps /\ q.at # 0 /\ q.service \in Providing!Services /\ q.at \in 0..Len(Priorities[q.service])
    BY DEF AskTyped
  <1>2. q.at \in Providing!Places
    BY <1>1, MoreProviderConstants
  <1>3. <<q.at>> \in Providing!Said
    BY <1>2, SaidOK
  <1>4. /\ f.op = q.op /\ f.service = q.service /\ f.at = q.at /\ f.part = q.part /\ f.answer = <<q.at>>
        /\ f.left = q.left /\ f.step = "done"
    BY DEF Asking
  <1> HIDE DEF f
  <1> QED
    BY <1>1, <1>3, <1>4 DEF AskTyped, f

(* A key let go, with turns left, or the end.                              *)
LEMMA EndTyped ==
  ASSUME NEW q \in Asking, AskTyped(q), NEW s \in {"try", "key", "done", "failed", "panic"}, NEW h1 \in BOOLEAN,
         s = "try" => q.step = "try" /\ q.left # 0, s = "key" => q.left # 0
  PROVE  AskTyped([q EXCEPT !.step = s, !.held = h1])
  <1> DEFINE f == [q EXCEPT !.step = s, !.held = h1]
  <1>1. /\ f.op = q.op /\ f.service = q.service /\ f.at = q.at /\ f.part = q.part /\ f.answer = q.answer
        /\ f.left = q.left /\ f.step = s
    BY DEF Asking
  <1> HIDE DEF f
  <1>2. /\ f.op \in ListOps => f.service \in Providing!Services /\ f.at \in 0..Len(Priorities[f.service])
        /\ f.step = "try" \/ f.part # << >> => f.op \in ListOps /\ f.at # 0
        /\ f.op \notin ListOps => f.at = 0
        /\ Len(f.part) <= MaxTokens /\ f.answer \in Providing!Said
        /\ f.left \in 0..(PoolSize + Providing!HFTries)
    BY <1>1 DEF AskTyped
  <1>3. f.step \in {"key", "try"} => f.left # 0
    BY <1>1
  <1> QED
    BY <1>2, <1>3 DEF AskTyped, f

LEMMA RetryTyped ==
  ASSUME NEW q \in Asking, AskTyped(q), q.step = "try"
  PROVE  AskTyped(Providing!Retry(q))
  <1>1. q.op \in ListOps /\ q.service \in Providing!Services /\ q.at \in 0..Len(Priorities[q.service])
        /\ q.answer \in Providing!Said
    BY DEF AskTyped
  <1>2. CASE q.left = 0
    BY <1>1, <1>2, FallbackTyped DEF Providing!Retry, Providing!GiveUp
  <1>3. CASE q.left # 0
    <2>1. [q EXCEPT !.held = FALSE] = [q EXCEPT !.step = "try", !.held = FALSE]
      BY DEF Asking
    <2>2. AskTyped([q EXCEPT !.step = "try", !.held = FALSE])
      BY <1>3, EndTyped
    <2> QED
      BY <1>3, <2>1, <2>2 DEF Providing!Retry, Providing!GiveUp
  <1> QED
    BY <1>2, <1>3

-----------------------------------------------------------------------------
(* The steps.                                                              *)

LEMMA OneTyped ==
  ASSUME ProviderInv, AsksTyped, NEW r \in Handlers, NEW q, req' = [req EXCEPT ![r] = q], AskTyped(q),
         asked' \in 0..MaxRequests, answers' = None \/ answers' \in Providing!Said
  PROVE  AsksTyped'
  <1>1. \A s \in Handlers : req'[s] = IF s = r THEN q ELSE req[s]
    BY DEF ProviderInv
  <1> QED
    BY <1>1 DEF AsksTyped

LEMMA BecomesTyped ==
  ASSUME ProviderInv, AsksTyped, NEW r \in Handlers, NEW q, Providing!Becomes(r, q), AskTyped(q)
  PROVE  AsksTyped'
  <1>1. asked' \in 0..MaxRequests /\ (answers' = None \/ answers' \in Providing!Said)
    BY DEF Providing!Becomes, AsksTyped
  <1> QED
    BY <1>1, OneTyped DEF Providing!Becomes

LEMMA GetKeyTyped ==
  ASSUME ProviderInv, AsksTyped, NEW r \in Handlers, Providing!GetKey(r)
  PROVE  AsksTyped'
  <1> DEFINE q == req[r]
             f == [q EXCEPT !.held = TRUE, !.tried = @ \cup {counter}, !.left = @ - 1]
  <1>1. q \in Asking /\ AskTyped(q)
    BY DEF ProviderInv, AsksTyped
  <1>2. q.left # 0
    BY <1>1 DEF Providing!GetKey, Providing!Turning, Providing!Kind, AskTyped
  <1>3. q.left - 1 \in 0..(PoolSize + Providing!HFTries)
    BY <1>1, <1>2, MoreProviderConstants DEF AskTyped, Providing!HFTries
  <1>4. /\ f.op = q.op /\ f.service = q.service /\ f.at = q.at /\ f.part = q.part /\ f.answer = q.answer
        /\ f.left = q.left - 1 /\ f.step = q.step /\ f.held = TRUE
    BY <1>1 DEF Asking
  <1> HIDE DEF f
  <1>5. AskTyped(f)
    BY <1>1, <1>3, <1>4 DEF AskTyped
  <1>6. ASSUME NEW s \in Handlers, s # r
        PROVE  AskTyped([req[s] EXCEPT !.alone = @ /\ req[s] = Providing!Idle])
    <2> DEFINE p == req[s]
               g == [p EXCEPT !.alone = @ /\ p = Providing!Idle]
    <2>1. p \in Asking /\ AskTyped(p)
      BY DEF ProviderInv, AsksTyped
    <2>2. /\ g.op = p.op /\ g.service = p.service /\ g.at = p.at /\ g.part = p.part /\ g.answer = p.answer
          /\ g.left = p.left /\ g.step = p.step /\ g.held = p.held
      BY <2>1 DEF Asking
    <2> HIDE DEF g
    <2>3. AskTyped(g)
      BY <2>1, <2>2 DEF AskTyped
    <2> QED
      BY <2>3 DEF g
  <1>7. req' = [s \in Handlers |-> IF s = r THEN f
                                   ELSE [req[s] EXCEPT !.alone = @ /\ req[s] = Providing!Idle]]
    BY DEF Providing!GetKey, f
  <1>8. \A s \in Handlers : AskTyped(req'[s])
    BY <1>5, <1>6, <1>7
  <1>9. UNCHANGED <<answers, asked>>
    BY DEF Providing!GetKey
  <1> QED
    BY <1>8, <1>9 DEF AsksTyped

LEMMA BeginsTyped ==
  ASSUME ProviderInv, AsksTyped, NEW r \in Handlers,
         \/ Providing!Embed(r)
         \/ \E s \in {"chat", "summary"} : Providing!ChatStream(r, s)
         \/ \E s \in Providing!Services : Providing!ChatNonStream(r, s)
         \/ Providing!ChatNonStreamWithTools(r)
  PROVE  AsksTyped'
  <1>1. ASSUME NEW q, Providing!Begins(r, q), AskTyped(q) PROVE AsksTyped'
    <2>1. asked' \in 0..MaxRequests
      BY <1>1, MoreProviderConstants DEF Providing!Begins, AsksTyped
    <2>2. UNCHANGED answers /\ req' = [req EXCEPT ![r] = q]
      BY <1>1 DEF Providing!Begins
    <2> QED
      BY <1>1, <2>1, <2>2, OneTyped DEF AsksTyped
  <1>2. ASSUME NEW k \in ListOps, NEW s \in Providing!Services PROVE AskTyped(Providing!First(k, s))
    <2> DEFINE q == [Providing!Idle EXCEPT !.op = k, !.service = s, !.step = "try"]
    <2>1. Providing!Idle \in Asking
      BY IdleAsks DEF AskingOK
    <2>2. q \in Asking
      <3> HIDE DEF Providing!Idle
      <3> QED
        BY <2>1 DEF Asking, ProviderOps, ProviderSteps, ListOps
    <2>3. q.op = k /\ q.step = "try" /\ q.service = s /\ q.at = 0 /\ q.answer = << >>
      BY DEF Providing!Idle
    <2>4. 0 \in 0..Len(Priorities[s])
      BY MoreProviderConstants
    <2> HIDE DEF q
    <2> QED
      BY <2>2, <2>3, <2>4, NothingSaid, FallbackTyped DEF Providing!First, q
  <1>3. CASE Providing!Embed(r)
    <2> DEFINE q == Providing!Loop([Providing!Idle EXCEPT !.op = "embed", !.step = "key"])
    <2>1. /\ q.op = "embed" /\ q.at = 0 /\ q.part = << >> /\ q.answer = << >> /\ q.left = PoolSize
          /\ q.step = "key"
      BY DEF Providing!Loop, Providing!Idle
    <2>2. 0 <= MaxTokens /\ PoolSize # 0 /\ PoolSize \in 0..(PoolSize + Providing!HFTries)
      BY MoreProviderConstants DEF Providing!HFTries
    <2> HIDE DEF q
    <2>3. AskTyped(q)
      BY <2>1, <2>2, NothingSaid DEF AskTyped, ListOps
    <2> QED
      BY <1>1, <1>3, <2>3 DEF Providing!Embed, q
  <1>4. CASE \E s \in {"chat", "summary"} : Providing!ChatStream(r, s)
    BY <1>1, <1>2, <1>4, ProviderConstants DEF Providing!ChatStream, ListOps
  <1>5. CASE \E s \in Providing!Services : Providing!ChatNonStream(r, s)
    BY <1>1, <1>2, <1>5 DEF Providing!ChatNonStream, ListOps
  <1>6. CASE Providing!ChatNonStreamWithTools(r)
    BY <1>1, <1>2, <1>6, ProviderConstants DEF Providing!ChatNonStreamWithTools, ListOps
  <1> QED
    BY <1>3, <1>4, <1>5, <1>6

LEMMA TryTyped ==
  ASSUME ProviderInv, AsksTyped, NEW r \in Handlers,
         \/ Providing!Refused(r) \/ Providing!Token(r) \/ Providing!StreamEnds(r)
         \/ Providing!GeminiToken(r) \/ Providing!GeminiBusy(r) \/ Providing!GeminiFails(r)
         \/ Providing!GeminiEnds(r) \/ Providing!GeminiUnreachable(r)
         \/ Providing!WholeFails(r) \/ Providing!HFBusy(r) \/ Providing!HFErrs(r)
         \/ Providing!WholeBusy(r) \/ Providing!WholeErrs(r) \/ Providing!WholeAnswers(r)
         \/ Providing!ToolsSkipOrFail(r) \/ Providing!ToolsAnswer(r)
  PROVE  AsksTyped'
  <1> DEFINE q == req[r]
             broken == [q EXCEPT !.broke = @ \/ q.part # << >>]
  <1>1. q \in Asking /\ VoiceOK(q) /\ AskTyped(q)
    BY DEF ProviderInv, AsksTyped, AskingOK
  <1>2. q.step = "try"
    BY DEF Providing!Trying, Providing!Refused, Providing!Token, Providing!StreamEnds, Providing!GeminiToken,
           Providing!GeminiBusy, Providing!GeminiFails, Providing!GeminiEnds, Providing!GeminiUnreachable,
           Providing!WholeFails, Providing!HFBusy, Providing!HFErrs, Providing!WholeBusy,
           Providing!WholeErrs, Providing!WholeAnswers, Providing!ToolsSkipOrFail, Providing!ToolsAnswer
  <1>3. q.op \in ListOps /\ q.service \in Providing!Services /\ q.at \in 0..Len(Priorities[q.service])
        /\ q.answer \in Providing!Said
    BY <1>1, <1>2 DEF AskTyped
  <1>4. /\ AskTyped(Providing!Fallback(q)) /\ AskTyped(Providing!Returns(q)) /\ AskTyped(Providing!Retry(q))
        /\ AskTyped([q EXCEPT !.step = "done", !.answer = <<q.at>>, !.held = FALSE])
    BY <1>1, <1>2, <1>3, FallbackTyped, ReturnsTyped, RetryTyped, AnswerTyped
  <1>5. ASSUME NEW f, Providing!Becomes(r, f), AskTyped(f) PROVE AsksTyped'
    BY <1>5, BecomesTyped
  <1>6. CASE Providing!Refused(r)
    <2>1. [q EXCEPT !.step = "failed"] = [q EXCEPT !.step = "failed", !.held = q.held] /\ q.held \in BOOLEAN
      BY <1>1 DEF Asking
    <2>2. AskTyped([q EXCEPT !.step = "failed"])
      BY <1>1, <2>1, EndTyped
    <2> QED
      BY <1>4, <1>5, <1>6, <2>2 DEF Providing!Refused
  <1>7. CASE Providing!Token(r) \/ Providing!GeminiToken(r)
    <2>1. Len(q.part) < MaxTokens /\ Providing!Becomes(r, Providing!Piece(q))
      BY <1>7 DEF Providing!Token, Providing!GeminiToken
    <2> QED
      BY <1>1, <1>2, <1>5, <2>1, PieceTyped
  <1>8. CASE Providing!GeminiFails(r)
    <2>1. /\ broken \in Asking /\ broken.op = q.op /\ broken.service = q.service /\ broken.at = q.at
          /\ broken.part = q.part /\ broken.answer = q.answer /\ broken.left = q.left
          /\ broken.step = q.step /\ broken.held = q.held
      BY <1>1 DEF Asking
    <2>2. \/ Providing!Becomes(r, Providing!Fallback(broken))
          \/ Providing!Becomes(r, [broken EXCEPT !.step = "failed", !.held = FALSE])
      BY <1>8 DEF Providing!GeminiFails
    <2> HIDE DEF broken
    <2>3. AskTyped(broken)
      BY <1>1, <2>1 DEF AskTyped
    <2>4. AskTyped(Providing!Fallback(broken)) /\ AskTyped([broken EXCEPT !.step = "failed", !.held = FALSE])
      BY <1>2, <1>3, <2>1, <2>3, FallbackTyped, EndTyped
    <2> QED
      BY <1>5, <2>2, <2>4
  <1>9. CASE Providing!GeminiUnreachable(r)
    <2>1. AskTyped([q EXCEPT !.step = "panic", !.held = FALSE])
      BY <1>1, EndTyped
    <2> QED
      BY <1>5, <1>9, <2>1 DEF Providing!GeminiUnreachable
  <1>10. CASE Providing!HFBusy(r)
    <2>1. ASSUME q.left > 1 PROVE AskTyped([q EXCEPT !.left = @ - 1])
      <3> DEFINE f == [q EXCEPT !.left = @ - 1]
      <3>1. q.left - 1 \in 0..(PoolSize + Providing!HFTries) /\ q.left - 1 # 0
        BY <1>1, <2>1, MoreProviderConstants DEF AskTyped, Providing!HFTries
      <3>2. /\ f.op = q.op /\ f.service = q.service /\ f.at = q.at /\ f.part = q.part /\ f.answer = q.answer
            /\ f.left = q.left - 1 /\ f.step = q.step /\ f.held = q.held
        BY <1>1 DEF Asking
      <3> HIDE DEF f
      <3>3. AskTyped(f)
        BY <1>1, <3>1, <3>2 DEF AskTyped
      <3> QED
        BY <3>3 DEF f
    <2>2. \/ q.left > 1 /\ Providing!Becomes(r, [q EXCEPT !.left = @ - 1])
          \/ Providing!Becomes(r, [q EXCEPT !.step = "done", !.answer = <<q.at>>, !.held = FALSE])
          \/ Providing!Becomes(r, Providing!Fallback(q))
      BY <1>10 DEF Providing!HFBusy, Providing!Answers
    <2> QED
      BY <1>4, <1>5, <2>1, <2>2
  <1>11. CASE Providing!StreamEnds(r) \/ Providing!GeminiEnds(r)
    BY <1>4, <1>5, <1>11 DEF Providing!StreamEnds, Providing!GeminiEnds, Providing!BreaksOff
  <1>12. CASE Providing!GeminiBusy(r) \/ Providing!WholeBusy(r)
    BY <1>4, <1>5, <1>12 DEF Providing!GeminiBusy, Providing!WholeBusy
  <1>13. CASE \/ Providing!WholeFails(r) \/ Providing!HFErrs(r) \/ Providing!WholeErrs(r)
              \/ Providing!ToolsSkipOrFail(r)
    BY <1>4, <1>5, <1>13 DEF Providing!WholeFails, Providing!HFErrs, Providing!WholeErrs, Providing!ToolsSkipOrFail
  <1>14. CASE Providing!WholeAnswers(r) \/ Providing!ToolsAnswer(r)
    BY <1>4, <1>5, <1>14 DEF Providing!WholeAnswers, Providing!ToolsAnswer, Providing!Answers
  <1> QED
    BY <1>6, <1>7, <1>8, <1>9, <1>10, <1>11, <1>12, <1>13, <1>14

LEMMA AsksTypedNext ==
  ASSUME ProviderInv, AsksTyped, [Providing!Next]_(Providing!vars)
  PROVE  AsksTyped'
  <1>1. CASE UNCHANGED Providing!vars
    BY <1>1 DEF Providing!vars, AsksTyped
  <1>2. CASE Providing!AnswerExpires
    BY <1>2 DEF Providing!AnswerExpires, AsksTyped
  <1>3. ASSUME NEW r \in Handlers, Providing!EmbedFails(r) \/ Providing!EmbedWorks(r) PROVE AsksTyped'
    <2>1. req[r] \in Asking /\ AskTyped(req[r])
      BY DEF ProviderInv, AsksTyped
    <2>2. PICK s \in {"key", "failed", "done"} :
              /\ Providing!Becomes(r, [req[r] EXCEPT !.step = s, !.held = FALSE])
              /\ s = "key" => req[r].left # 0
      BY <1>3 DEF Providing!EmbedFails, Providing!EmbedWorks, Providing!GiveUp
    <2>3. AskTyped([req[r] EXCEPT !.step = s, !.held = FALSE])
      BY <2>1, <2>2, EndTyped
    <2> QED
      BY <2>2, <2>3, BecomesTyped
  <1>4. ASSUME NEW r \in Handlers, Providing!Leave(r) PROVE AsksTyped'
    <2>1. answers' = answers \/ answers' = req[r].answer
      BY <1>4 DEF Providing!Leave
    <2>2. answers' = None \/ answers' \in Providing!Said
      BY <2>1 DEF AsksTyped, AskTyped
    <2> QED
      BY <1>4, <2>2, IdleTyped, OneTyped DEF Providing!Leave, AsksTyped
  <1> QED
    BY <1>1, <1>2, <1>3, <1>4, GetKeyTyped, BeginsTyped, TryTyped DEF Providing!Next

LEMMA AsksTypedInit == ASSUME Providing!Init PROVE AsksTyped
  <1>1. \A r \in Handlers : req[r] = Providing!Idle
    BY DEF Providing!Init
  <1>2. asked \in 0..MaxRequests /\ answers = None
    BY MoreProviderConstants DEF Providing!Init
  <1> QED
    BY <1>1, <1>2, IdleTyped DEF AsksTyped

LEMMA AsksTypedMean ==
  ASSUME ProviderInv, AsksTyped
  PROVE  Providing!TypeOK
  <1>1. ASSUME NEW r \in Handlers
        PROVE  /\ req[r].op \in {"none", "embed", "stream", "whole", "tools"}
               /\ req[r].step \in {"idle", "key", "try", "done", "failed", "panic"}
               /\ req[r].service \in Providing!Services \cup {None} /\ req[r].at \in Providing!Places \cup {0}
               /\ req[r].part \in Providing!Said /\ req[r].answer \in Providing!Said
               /\ req[r].tried \subseteq Providing!Keys
               /\ req[r].left \in 0..(PoolSize + Providing!HFTries) /\ req[r].held \in BOOLEAN
    <2>1. req[r] \in Asking /\ VoiceOK(req[r]) /\ AskTyped(req[r])
      BY DEF ProviderInv, AsksTyped, AskingOK
    <2>2. req[r].at = 0 \/ req[r].at \in Providing!Places
      BY <2>1, MoreProviderConstants DEF AskTyped
    <2>3. req[r].part \in Providing!Said
      <3>1. CASE req[r].part = << >>
        BY <3>1, NothingSaid
      <3>2. CASE req[r].part # << >>
        <4>1. req[r].at \in Providing!Places
          BY <2>1, <2>2, <3>2 DEF AskTyped
        <4> QED
          BY <2>1, <4>1, SaidOK DEF VoiceOK, AskTyped, Asking
      <3> QED
        BY <3>1, <3>2
    <2>4. /\ req[r].op \in {"none", "embed", "stream", "whole", "tools"}
          /\ req[r].step \in {"idle", "key", "try", "done", "failed", "panic"}
          /\ req[r].service \in Providing!Services \cup {None}
          /\ req[r].tried \subseteq Providing!Keys /\ req[r].held \in BOOLEAN
      BY <2>1 DEF Asking, ProviderOps, ProviderSteps
    <2>5. req[r].answer \in Providing!Said /\ req[r].left \in 0..(PoolSize + Providing!HFTries)
      BY <2>1 DEF AskTyped
    <2> QED
      BY <2>2, <2>3, <2>4, <2>5
  <1> QED
    BY <1>1 DEF Providing!TypeOK, ProviderInv, AsksTyped

-----------------------------------------------------------------------------
(* Files sent with a question: who uploads one has its name alone, what is *)
(* in a row or in the cache of analyses is about its content, and a file   *)
(* is in a row, in the hands of who will enter or destroy it, or lost.     *)

Hand == [op : {"none", "video", "image", "status"},
         step : {"idle", "cache", "upload", "insert", "mark", "take", "save", "remember"},
         video : Names \cup {None}, content : Contents \cup {None}, hash : Contents \cup {None},
         raced : BOOLEAN]
Uploads(q) == q.op \in {"video", "image"}

HandOK(q) ==
    /\ q \in Hand
    /\ Uploads(q) => q.video \in Names \ Files!Rows /\ start[q.video] = "none"
    /\ q.op = "video" => q.content \in Contents /\ q.hash \in {q.content, None}
    /\ q.op = "status" => q.video \in Names /\ start[q.video] # "mark"
    /\ q.step = "insert" => Uploads(q)

HandsOK ==
    /\ \A w \in Handlers : HandOK(h[w])
    /\ \A w, u \in Handlers : Uploads(h[w]) /\ w # u => h[w].video # h[u].video

RowOK(r) ==
    /\ r.hash \in {r.content, None} /\ r.context \in {r.content, None}
    /\ r.status = "done" => r.context = r.content

RowsOK ==
    /\ \A v \in Files!Rows : RowOK(videos[v])
    /\ \A x \in Contents : analysed[x] \in {x, None}
    /\ \A v \in Files!Rows : start[v] = "mark" => videos[v].status = "uploaded"

Named(f) ==
    \/ \E v \in Files!Rows : videos[v].file = f
    \/ images[f] # None
    \/ \E w \in Handlers : h[w].video = f /\ h[w].step = "insert"
    \/ f \in sweeping
NamedOK == \A f \in files \ lost : Named(f)

QuotaOK ==
    ~overlap /\ ~late =>
        /\ Files!Used <= VideoLimit
        /\ \A w \in Handlers : h[w].op = "video" /\ ~h[w].raced => Files!Used < VideoLimit

FilesInv ==
    /\ Files!TypeOK /\ h \in [Handlers -> Hand]
    /\ HandsOK /\ RowsOK /\ NamedOK /\ QuotaOK

LEMMA FilesCount ==
    /\ \A S : Files!Cardinality(S) = Cardinality(S)
    /\ \A S : Files!IsFiniteSet(S) <=> IsFiniteSet(S)
  <1>1. \A S : Files!Cardinality(S) = Cardinality(S)
    BY DEF Files!Cardinality, Cardinality
  <1>2. \A S : Files!IsFiniteSet(S) <=> IsFiniteSet(S)
    BY DEF Files!IsFiniteSet, IsFiniteSet
  <1> QED
    BY <1>1, <1>2

LEMMA FileConstants ==
    /\ VideoLimit \in Nat \ {0} /\ IsFiniteSet(Names) /\ None \notin Names /\ None \notin Contents
    /\ None \notin Files!Row /\ None # "done" /\ None # "error"
  <1>1. Files!AttachmentAssumption /\ Files!NoneAssumption
    BY AssistantAssumption
  <1> QED
    BY <1>1, FilesCount DEF Files!AttachmentAssumption, Files!NoneAssumption

LEMMA IdleHand ==
    /\ Files!Idle \in Hand /\ ~Uploads(Files!Idle) /\ Files!Idle.op = "none" /\ Files!Idle.step = "idle"
    /\ Files!Idle.video = None /\ HandOK(Files!Idle) /\ HandOK(Files!Idle)'
  <1>1. /\ Files!Idle \in Hand /\ ~Uploads(Files!Idle) /\ Files!Idle.op = "none"
        /\ Files!Idle.step = "idle" /\ Files!Idle.video = None
    BY DEF Files!Idle, Hand, Uploads
  <1> QED
    BY <1>1 DEF HandOK

(* What counts today, which can only grow when a video enters.             *)
CountedToday == {v \in Files!Rows : Files!Counts(videos[v])}

LEMMA UsedType ==
    Files!Used = Cardinality(CountedToday) /\ IsFiniteSet(CountedToday) /\ Files!Used \in Nat
  <1>1. CountedToday \subseteq Names
    BY DEF CountedToday, Files!Rows
  <1>2. IsFiniteSet(CountedToday)
    BY <1>1, FileConstants, FS_Subset
  <1>3. Files!Used = Cardinality(CountedToday)
    BY FilesCount DEF CountedToday, Files!Used
  <1> QED
    BY <1>2, <1>3, FS_CardinalityType

LEMMA UsedFalls ==
  ASSUME CountedToday' \subseteq CountedToday
  PROVE  Files!Used' <= Files!Used /\ Files!Used' \in Nat /\ Files!Used \in Nat
  <1>1. Files!Used = Cardinality(CountedToday) /\ IsFiniteSet(CountedToday) /\ Files!Used \in Nat
    BY UsedType
  <1>2. IsFiniteSet(CountedToday') /\ Cardinality(CountedToday') <= Cardinality(CountedToday)
    BY <1>1, FS_Subset
  <1>3. Cardinality(CountedToday') \in Nat
    BY <1>2, FS_CardinalityType
  <1>4. Files!Used' = Cardinality(CountedToday')
    BY FilesCount DEF Files!Used, CountedToday
  <1> QED
    BY <1>1, <1>2, <1>3, <1>4

LEMMA FilesStart == ASSUME Files!Init PROVE FilesInv
  <1>1. Files!TypeOK
    BY DEF Files!Init, Files!TypeOK
  <1>2. h \in [Handlers -> Hand] /\ \A w \in Handlers : h[w] = Files!Idle
    BY IdleHand DEF Files!Init
  <1>3. HandsOK
    BY <1>2, IdleHand DEF HandsOK
  <1>4. Files!Rows = {}
    BY DEF Files!Init, Files!Rows
  <1>5. RowsOK /\ NamedOK
    BY <1>4 DEF Files!Init, RowsOK, NamedOK
  <1>6. QuotaOK
    <2>1. CountedToday = {}
      BY <1>4 DEF CountedToday
    <2>2. Files!Used = 0
      BY <2>1, UsedType, FS_EmptySet
    <2> QED
      BY <1>2, <2>2, IdleHand, FileConstants DEF QuotaOK
  <1> QED
    BY <1>1, <1>2, <1>3, <1>5, <1>6 DEF FilesInv

(* One handler goes on: a file it has in hand it enters, destroys or loses. *)
LEMMA OneHandMoves ==
  ASSUME FilesInv, Files!TypeOK', NEW w \in Handlers, NEW q,
         h' = [h EXCEPT ![w] = q],
         UNCHANGED <<videos, analysed, start, sweeping, overlap, late>>,
         HandOK(q),
         \A u \in Handlers \ {w} : Uploads(q) \/ Uploads(h[u]) => h[u].video # q.video,
         \A f \in files' \ lost' : f \in files \ lost \/ (f = q.video /\ q.step = "insert"),
         \A f \in Names : images[f] # None => images'[f] # None,
         h[w].step = "insert" /\ h[w].video \in files' \ lost' => images'[h[w].video] # None,
         q.op = "video" /\ ~q.raced /\ ~overlap /\ ~late => Files!Used < VideoLimit
  PROVE  FilesInv'
  <1>1. h' \in [Handlers -> Hand] /\ h'[w] = q /\ \A u \in Handlers \ {w} : h'[u] = h[u]
    BY DEF FilesInv, HandOK
  <1>2. UNCHANGED <<Files!Rows, Files!Used>>
    BY DEF Files!Rows, Files!Used, Files!Counts
  <1>3. HandsOK'
    <2>1. ASSUME NEW u \in Handlers PROVE HandOK(h[u])'
      <3>1. HandOK(h'[u])
        BY <1>1 DEF FilesInv, HandsOK
      <3> QED
        BY <1>2, <3>1 DEF HandOK, Uploads
    <2>2. ASSUME NEW u \in Handlers, NEW x \in Handlers, Uploads(h'[u]), u # x PROVE h'[u].video # h'[x].video
      BY <1>1, <2>2 DEF FilesInv, HandsOK
    <2> QED
      BY <2>1, <2>2 DEF HandsOK, Uploads
  <1>4. RowsOK'
    BY <1>2 DEF FilesInv, RowsOK, RowOK
  <1>5. NamedOK'
    <2> SUFFICES ASSUME NEW f \in files' \ lost' PROVE Named(f)'
      BY DEF NamedOK
    <2>1. CASE f = q.video /\ q.step = "insert"
      BY <1>1, <2>1 DEF Named
    <2>2. CASE f \in files \ lost
      <3>1. f \in Names /\ Named(f)
        BY <2>2 DEF FilesInv, NamedOK, Files!TypeOK
      <3>2. CASE \E v \in Files!Rows : videos[v].file = f
        BY <1>2, <3>2 DEF Named
      <3>3. CASE images[f] # None
        BY <3>1, <3>3 DEF Named
      <3>4. CASE \E u \in Handlers : h[u].video = f /\ h[u].step = "insert"
        <4>1. PICK u \in Handlers : h[u].video = f /\ h[u].step = "insert"
          BY <3>4
        <4>2. CASE u = w
          BY <4>1, <4>2 DEF Named
        <4>3. CASE u # w
          BY <1>1, <4>1, <4>3 DEF Named
        <4> QED
          BY <4>2, <4>3
      <3>5. CASE f \in sweeping
        BY <3>5 DEF Named
      <3> QED
        BY <3>1, <3>2, <3>3, <3>4, <3>5 DEF Named
    <2> QED
      BY <2>1, <2>2
  <1>6. QuotaOK'
    BY <1>1, <1>2 DEF FilesInv, QuotaOK
  <1> QED
    BY <1>1, <1>3, <1>4, <1>5, <1>6 DEF FilesInv

(* Rows change where they are, as who asks for them does.                  *)
Answered(p, q) ==
    \/ q = p
    \/ /\ p.op = "status" /\ q.op \in {"none", "status"} /\ q.step # "insert" /\ q \in Hand
       /\ q.video \in {None, p.video}
       /\ q.op = "status" => q.video = p.video

LEMMA RowsMove ==
  ASSUME FilesInv, Files!TypeOK', UNCHANGED <<files, images, sweeping, lost, overlap>>,
         late => late',
         \A v \in Names :
            \/ videos'[v] = videos[v]
            \/ /\ v \in Files!Rows /\ videos'[v] # None /\ videos'[v].file = videos[v].file
               /\ RowOK(videos'[v])
               /\ ~late' /\ Files!Counts(videos'[v]) => Files!Counts(videos[v])
               /\ start'[v] = "mark" => videos'[v].status = "uploaded",
         \A v \in Names : start'[v] = start[v] \/ (start[v] # "none" /\ start'[v] # "mark"),
         \A x \in Contents : analysed'[x] \in {x, None},
         h' \in [Handlers -> Hand],
         \A w \in Handlers : Answered(h[w], h'[w])
  PROVE  FilesInv'
  <1>1. Files!Rows' = Files!Rows
    BY DEF Files!Rows
  <1>2. HandsOK'
    <2>1. ASSUME NEW w \in Handlers PROVE HandOK(h[w])'
      <3>1. HandOK(h[w]) /\ Answered(h[w], h'[w])
        BY DEF FilesInv, HandsOK
      <3>2. h[w].video \in Names => start'[h[w].video] = start[h[w].video]
                 \/ (start[h[w].video] # "none" /\ start'[h[w].video] # "mark")
        OBVIOUS
      <3>3. CASE h'[w] = h[w]
        BY <1>1, <3>1, <3>2, <3>3 DEF HandOK, Uploads
      <3>4. CASE h'[w] # h[w]
        <4>1. /\ h[w].op = "status" /\ h'[w].op \in {"none", "status"} /\ h'[w].step # "insert" /\ h'[w] \in Hand
              /\ h'[w].op = "status" => h'[w].video = h[w].video
          BY <3>1, <3>4 DEF Answered
        <4> QED
          BY <3>1, <3>2, <4>1 DEF HandOK, Uploads
      <3> QED
        BY <3>3, <3>4
    <2>2. ASSUME NEW u \in Handlers, NEW x \in Handlers, Uploads(h'[u]), u # x PROVE h'[u].video # h'[x].video
      <3>1. h'[u] = h[u] /\ h[u].video # h[x].video /\ h[u].video \in Names
        <4>1. Answered(h[u], h'[u]) /\ HandOK(h[u])
          BY DEF FilesInv, HandsOK
        <4>2. h'[u] = h[u]
          BY <2>2, <4>1 DEF Answered, Uploads
        <4> QED
          BY <2>2, <4>1, <4>2 DEF FilesInv, HandsOK, HandOK
      <3>2. h'[x].video \in {None, h[x].video}
        BY DEF Answered
      <3> QED
        BY <3>1, <3>2, FileConstants
    <2> QED
      BY <2>1, <2>2 DEF HandsOK, Uploads
  <1>3. RowsOK'
    <2>1. ASSUME NEW v \in Files!Rows
          PROVE  RowOK(videos'[v]) /\ (start'[v] = "mark" => videos'[v].status = "uploaded")
      <3>1. v \in Names /\ RowOK(videos[v]) /\ (start[v] = "mark" => videos[v].status = "uploaded")
        BY DEF FilesInv, RowsOK, Files!Rows
      <3> QED
        BY <3>1
    <2> QED
      BY <1>1, <2>1 DEF RowsOK, RowOK
  <1>4. NamedOK'
    <2> SUFFICES ASSUME NEW f \in files \ lost PROVE Named(f)'
      BY DEF NamedOK
    <2>1. Named(f)
      BY DEF FilesInv, NamedOK
    <2>2. CASE \E v \in Files!Rows : videos[v].file = f
      <3>1. PICK v \in Files!Rows : videos[v].file = f
        BY <2>2
      <3>2. videos'[v].file = f
        BY <3>1 DEF Files!Rows
      <3> QED
        BY <1>1, <3>2 DEF Named
    <2>3. CASE \E w \in Handlers : h[w].video = f /\ h[w].step = "insert"
      <3>1. PICK w \in Handlers : h[w].video = f /\ h[w].step = "insert"
        BY <2>3
      <3>2. HandOK(h[w]) /\ Answered(h[w], h'[w])
        BY DEF FilesInv, HandsOK
      <3>3. h'[w] = h[w]
        BY <3>1, <3>2 DEF HandOK, Uploads, Answered
      <3> QED
        BY <3>1, <3>3 DEF Named
    <2>4. CASE images[f] # None \/ f \in sweeping
      BY <2>4 DEF Named
    <2> QED
      BY <2>1, <2>2, <2>3, <2>4 DEF Named
  <1>5. QuotaOK'
    <2> SUFFICES ASSUME ~overlap', ~late'
                 PROVE  /\ Files!Used' <= VideoLimit
                        /\ \A w \in Handlers : h'[w].op = "video" /\ ~h'[w].raced => Files!Used' < VideoLimit
      BY DEF QuotaOK
    <2>1. CountedToday' \subseteq CountedToday
      <3> SUFFICES ASSUME NEW v \in Files!Rows, Files!Counts(videos'[v]) PROVE Files!Counts(videos[v])
        BY <1>1 DEF CountedToday, Files!Counts
      <3>1. v \in Names
        BY DEF Files!Rows
      <3> QED
        BY <3>1
    <2>2. Files!Used' <= Files!Used /\ Files!Used' \in Nat /\ Files!Used \in Nat
      BY <2>1, UsedFalls
    <2>3. \A w \in Handlers : h'[w].op = "video" => h[w] = h'[w]
      BY DEF Answered
    <2>4. QuotaOK /\ ~overlap /\ ~late
      BY DEF FilesInv
    <2> QED
      BY <2>2, <2>3, <2>4, FileConstants DEF QuotaOK
  <1> QED
    BY <1>2, <1>3, <1>4, <1>5 DEF FilesInv

(* A video's row enters: uploads that go on beside it are raced.           *)
LEMMA EntersOK ==
  ASSUME FilesInv, NEW w \in Handlers, h[w].op = "video", NEW r \in Files!Row, RowOK(r),
         Files!Enters(w, r), UNCHANGED <<files, lost, late>>,
         h[w].step = "insert" => r.file = h[w].video,
         \/ UNCHANGED start
         \/ start' = [start EXCEPT ![h[w].video] = "mark"] /\ r.status = "uploaded"
  PROVE  FilesInv'
  <1> DEFINE v0 == h[w].video
  <1>1. v0 \in Names /\ v0 \notin Files!Rows /\ start[v0] = "none"
    BY DEF FilesInv, HandsOK, HandOK, Uploads
  <1>2. /\ videos' = [videos EXCEPT ![v0] = r] /\ overlap' = (overlap \/ h[w].raced)
        /\ h' = [u \in Handlers |-> IF u = w THEN Files!Idle
                                    ELSE IF h[u].op = "video" THEN [h[u] EXCEPT !.raced = TRUE] ELSE h[u]]
        /\ UNCHANGED <<analysed, images, attached, queue, results, sweeping>>
    BY DEF Files!Enters, Files!imageVars, Files!serviceVars
  <1>3. /\ videos \in [Names -> Files!Row \cup {None}] /\ h \in [Handlers -> Hand]
        /\ start \in [Names -> {"none", "mark", "task", "push"}]
    BY DEF FilesInv, Files!TypeOK
  <1>4. Files!TypeOK'
    <2>1. videos' \in [Names -> Files!Row \cup {None}]
      BY <1>1, <1>2, <1>3
    <2>2. start' \in [Names -> {"none", "mark", "task", "push"}]
      BY <1>1, <1>3
    <2> QED
      BY <1>2, <2>1, <2>2 DEF FilesInv, Files!TypeOK
  <1>5. /\ videos'[v0] = r /\ \A v \in Names \ {v0} : videos'[v] = videos[v] /\ start'[v] = start[v]
        /\ start'[v0] = "mark" => r.status = "uploaded"
    BY <1>1, <1>2, <1>3
  <1>6. Files!Rows' = Files!Rows \cup {v0}
    BY <1>1, <1>5, FileConstants DEF Files!Rows
  <1>7. h'[w] = Files!Idle
    BY <1>2
  <1>8. ASSUME NEW u \in Handlers \ {w}
        PROVE  /\ h'[u] \in Hand /\ h'[u].op = h[u].op /\ h'[u].step = h[u].step /\ h'[u].video = h[u].video
               /\ h'[u].content = h[u].content /\ h'[u].hash = h[u].hash
               /\ h'[u].op = "video" => h'[u].raced
               /\ h[u].video # v0
    <2>1. h[u] \in Hand /\ h'[u] \in {h[u], [h[u] EXCEPT !.raced = TRUE]}
      BY <1>2, <1>3
    <2>2. h'[u].op = "video" => h'[u].raced
      <3>1. CASE h[u].op = "video"
        <4>1. h'[u] = [h[u] EXCEPT !.raced = TRUE]
          BY <1>2, <3>1
        <4> QED
          BY <2>1, <4>1 DEF Hand
      <3>2. CASE h[u].op # "video"
        <4>1. h'[u] = h[u]
          BY <1>2, <3>2
        <4> QED
          BY <3>2, <4>1
      <3> QED
        BY <3>1, <3>2
    <2>3. h[u].video # v0
      BY DEF FilesInv, HandsOK, Uploads
    <2>4. /\ h'[u] \in Hand /\ h'[u].op = h[u].op /\ h'[u].step = h[u].step /\ h'[u].video = h[u].video
          /\ h'[u].content = h[u].content /\ h'[u].hash = h[u].hash
      BY <2>1 DEF Hand
    <2> QED
      BY <2>2, <2>3, <2>4
  <1>9. h' \in [Handlers -> Hand]
    BY <1>2, <1>7, <1>8, IdleHand
  <1>10. HandsOK'
    <2>1. ASSUME NEW u \in Handlers PROVE HandOK(h[u])'
      <3>1. CASE u = w
        BY <1>7, <3>1, IdleHand DEF HandOK, Uploads
      <3>2. CASE u # w
        <4>1. HandOK(h[u]) /\ u \in Handlers \ {w}
          BY <3>2 DEF FilesInv, HandsOK
        <4>2. h[u].video \in Names => start'[h[u].video] = start[h[u].video]
          BY <1>5, <1>8, <4>1
        <4> QED
          BY <1>6, <1>8, <4>1, <4>2 DEF HandOK, Uploads
      <3> QED
        BY <3>1, <3>2
    <2>2. ASSUME NEW u \in Handlers, NEW x \in Handlers, Uploads(h'[u]), u # x PROVE h'[u].video # h'[x].video
      <3>1. u # w
        BY <1>7, <2>2, IdleHand
      <3>2. Uploads(h[u]) /\ h'[u].video = h[u].video /\ h[u].video # h[x].video /\ h[u].video \in Names
        BY <1>8, <2>2, <3>1 DEF Uploads, FilesInv, HandsOK, HandOK
      <3>3. CASE x = w
        BY <1>7, <3>2, <3>3, IdleHand, FileConstants
      <3>4. CASE x # w
        BY <1>8, <3>2, <3>4
      <3> QED
        BY <3>3, <3>4
    <2> QED
      BY <2>1, <2>2 DEF HandsOK, Uploads
  <1>11. RowsOK'
    <2>1. ASSUME NEW v \in Files!Rows'
          PROVE  RowOK(videos'[v]) /\ (start'[v] = "mark" => videos'[v].status = "uploaded")
      <3>1. CASE v = v0
        BY <1>5, <3>1
      <3>2. CASE v # v0
        <4>1. v \in Files!Rows /\ v \in Names \ {v0}
          BY <1>6, <3>2 DEF Files!Rows
        <4> QED
          BY <1>5, <4>1 DEF FilesInv, RowsOK
      <3> QED
        BY <3>1, <3>2
    <2> QED
      BY <1>2, <2>1 DEF RowsOK, RowOK, FilesInv
  <1>12. NamedOK'
    <2> SUFFICES ASSUME NEW f \in files \ lost PROVE Named(f)'
      BY DEF NamedOK
    <2>1. Named(f)
      BY DEF FilesInv, NamedOK
    <2>2. CASE \E v \in Files!Rows : videos[v].file = f
      <3>1. PICK v \in Files!Rows : videos[v].file = f
        BY <2>2
      <3>2. videos'[v] = videos[v] /\ v \in Files!Rows'
        BY <1>1, <1>5, <1>6, <3>1 DEF Files!Rows
      <3> QED
        BY <3>1, <3>2 DEF Named
    <2>3. CASE \E u \in Handlers : h[u].video = f /\ h[u].step = "insert"
      <3>1. PICK u \in Handlers : h[u].video = f /\ h[u].step = "insert"
        BY <2>3
      <3>2. CASE u = w
        <4>1. videos'[v0].file = f /\ v0 \in Files!Rows'
          BY <1>5, <1>6, <3>1, <3>2
        <4> QED
          BY <4>1 DEF Named
      <3>3. CASE u # w
        BY <1>8, <3>1, <3>3 DEF Named
      <3> QED
        BY <3>2, <3>3
    <2>4. CASE images[f] # None \/ f \in sweeping
      BY <1>2, <2>4 DEF Named
    <2> QED
      BY <2>1, <2>2, <2>3, <2>4 DEF Named
  <1>13. QuotaOK'
    <2> SUFFICES ASSUME ~overlap', ~late'
                 PROVE  /\ Files!Used' <= VideoLimit
                        /\ \A u \in Handlers : h'[u].op = "video" /\ ~h'[u].raced => Files!Used' < VideoLimit
      BY DEF QuotaOK
    <2>1. Files!Used < VideoLimit
      <3>1. ~overlap /\ ~h[w].raced /\ ~late
        BY <1>2
      <3> QED
        BY <3>1 DEF FilesInv, QuotaOK
    <2>2. CountedToday' \subseteq CountedToday \cup {v0}
      BY <1>5, <1>6 DEF CountedToday, Files!Counts, Files!Rows
    <2>3. Files!Used' <= Files!Used + 1 /\ Files!Used' \in Nat /\ Files!Used \in Nat
      <3>1. Files!Used = Cardinality(CountedToday) /\ IsFiniteSet(CountedToday) /\ Files!Used \in Nat
        BY UsedType
      <3>2. /\ IsFiniteSet(CountedToday \cup {v0})
            /\ Cardinality(CountedToday \cup {v0}) <= Cardinality(CountedToday) + 1
            /\ Cardinality(CountedToday \cup {v0}) \in Nat
        <4>1. /\ IsFiniteSet(CountedToday \cup {v0})
              /\ Cardinality(CountedToday \cup {v0}) = IF v0 \in CountedToday THEN Cardinality(CountedToday) ELSE Cardinality(CountedToday) + 1
          BY <3>1, FS_AddElement
        <4> QED
          BY <3>1, <4>1
      <3>3. IsFiniteSet(CountedToday') /\ Cardinality(CountedToday') <= Cardinality(CountedToday \cup {v0})
        BY <2>2, <3>2, FS_Subset
      <3>4. Cardinality(CountedToday') \in Nat
        BY <3>3, FS_CardinalityType
      <3>5. Files!Used' = Cardinality(CountedToday')
        BY FilesCount DEF Files!Used, CountedToday
      <3> QED
        BY <3>1, <3>2, <3>3, <3>4, <3>5
    <2>4. \A u \in Handlers : ~(h'[u].op = "video" /\ ~h'[u].raced)
      BY <1>7, <1>8, IdleHand
    <2> QED
      BY <2>1, <2>3, <2>4, FileConstants
  <1> QED
    BY <1>4, <1>9, <1>10, <1>11, <1>12, <1>13 DEF FilesInv

(* The fields of a row, and what changes in one.                           *)
LEMMA RowFields ==
  ASSUME NEW r \in Files!Row
  PROVE  /\ \A s \in {"uploaded", "processing", "done", "error"} :
               LET q == [r EXCEPT !.status = s]
               IN  /\ q \in Files!Row /\ q.status = s /\ q.file = r.file /\ q.content = r.content
                   /\ q.hash = r.hash /\ q.context = r.context /\ q.age = r.age
         /\ LET q == [r EXCEPT !.task = TRUE]
            IN  /\ q \in Files!Row /\ q.status = r.status /\ q.file = r.file /\ q.content = r.content
                /\ q.hash = r.hash /\ q.context = r.context /\ q.age = r.age
         /\ LET q == [r EXCEPT !.status = "done", !.context = r.content]
            IN  /\ q \in Files!Row /\ q.status = "done" /\ q.file = r.file /\ q.content = r.content
                /\ q.hash = r.hash /\ q.context = r.content /\ q.age = r.age
  BY DEF Files!Row

LEMMA RowAges ==
  ASSUME NEW r \in Files!Row, r.age < 3
  PROVE  LET q == [r EXCEPT !.age = @ + 1]
         IN  /\ q \in Files!Row /\ q.status = r.status /\ q.file = r.file /\ q.content = r.content
             /\ q.hash = r.hash /\ q.context = r.context /\ q.age = r.age + 1
             /\ Files!Counts(q) => Files!Counts(r)
  <1>1. r.age \in 0..3
    BY DEF Files!Row, Files!Ages
  <1>2. PICK n \in Files!Ages : n = r.age + 1
    BY <1>1 DEF Files!Ages
  <1> DEFINE q == [r EXCEPT !.age = n]
  <1>3. /\ q \in Files!Row /\ q.status = r.status /\ q.file = r.file /\ q.content = r.content
        /\ q.hash = r.hash /\ q.context = r.context /\ q.age = n
    BY DEF Files!Row
  <1>4. [r EXCEPT !.age = @ + 1] = q
    BY <1>2 DEF Files!Row
  <1> HIDE DEF q
  <1>5. Files!Counts(q) => Files!Counts(r)
    BY <1>1, <1>2, <1>3 DEF Files!Counts
  <1> QED
    BY <1>2, <1>3, <1>4, <1>5

(* An UPDATE of one row, by its name.                                      *)
RowMoves(u) ==
    \/ videos'[u] = videos[u]
    \/ /\ u \in Files!Rows /\ videos'[u] # None /\ videos'[u].file = videos[u].file
       /\ RowOK(videos'[u])
       /\ ~late' /\ Files!Counts(videos'[u]) => Files!Counts(videos[u])
       /\ start'[u] = "mark" => videos'[u].status = "uploaded"

LEMMA SetMoves ==
  ASSUME FilesInv, NEW v \in Names, NEW q, Files!Set(v, q),
         v \in Files!Rows =>
            /\ q \in Files!Row /\ q.file = videos[v].file /\ RowOK(q) /\ start'[v] # "mark"
            /\ ~late' /\ Files!Counts(q) => Files!Counts(videos[v])
  PROVE  videos' \in [Names -> Files!Row \cup {None}] /\ \A u \in Names : RowMoves(u)
  <1>1. videos \in [Names -> Files!Row \cup {None}]
    BY DEF FilesInv, Files!TypeOK
  <1>2. CASE v \notin Files!Rows
    BY <1>1, <1>2 DEF Files!Set, RowMoves
  <1>3. CASE v \in Files!Rows
    <2>1. videos' = [videos EXCEPT ![v] = q] /\ q \in Files!Row /\ q # None
      BY <1>3, FileConstants DEF Files!Set
    <2>2. videos'[v] = q /\ \A u \in Names \ {v} : videos'[u] = videos[u]
      BY <1>1, <2>1
    <2>3. videos' \in [Names -> Files!Row \cup {None}]
      BY <1>1, <2>1
    <2>4. RowMoves(v)
      BY <1>3, <2>1, <2>2 DEF RowMoves
    <2> QED
      BY <2>2, <2>3, <2>4 DEF RowMoves
  <1> QED
    BY <1>2, <1>3

(* A row becomes an error.                                                 *)
LEMMA MarkedMoves ==
  ASSUME FilesInv, NEW v \in Names, Files!Set(v, Files!Marked(v)), start'[v] # "mark"
  PROVE  videos' \in [Names -> Files!Row \cup {None}] /\ \A u \in Names : RowMoves(u)
  <1>1. CASE v \notin Files!Rows
    BY <1>1, SetMoves
  <1>2. CASE v \in Files!Rows
    <2> DEFINE q == [videos[v] EXCEPT !.status = "error"]
    <2>1. videos[v] \in Files!Row /\ RowOK(videos[v])
      BY <1>2 DEF FilesInv, Files!TypeOK, Files!Rows, RowsOK
    <2>2. /\ q \in Files!Row /\ q.status = "error" /\ q.file = videos[v].file /\ q.content = videos[v].content
          /\ q.hash = videos[v].hash /\ q.context = videos[v].context
      BY <2>1, RowFields
    <2>3. Files!Marked(v) = q
      BY <1>2 DEF Files!Marked
    <2> HIDE DEF q
    <2>4. RowOK(q) /\ ~Files!Counts(q)
      BY <2>1, <2>2 DEF RowOK, Files!Counts
    <2> QED
      BY <2>2, <2>3, <2>4, SetMoves
  <1> QED
    BY <1>1, <1>2

-----------------------------------------------------------------------------
(* The goroutine of a new row, and the service.                            *)

LEMMA ServiceOK ==
  ASSUME FilesInv, NEW v \in Names,
         \/ Files!MarkProcessing(v) \/ Files!KeepTask(v) \/ Files!PushVideo(v)
         \/ Files!Process(v) \/ Files!ResultExpires(v)
  PROVE  FilesInv'
  <1>1. /\ UNCHANGED <<analysed, files, images, attached, h, sweeping, lost, overlap, late>>
        /\ h \in [Handlers -> Hand] /\ Files!TypeOK
    BY DEF Files!MarkProcessing, Files!KeepTask, Files!PushVideo, Files!Process, Files!ResultExpires,
           Files!StartKeeps, Files!imageVars, Files!history, FilesInv
  <1>2. /\ \A x \in Contents : analysed'[x] \in {x, None}
        /\ \A w \in Handlers : Answered(h[w], h'[w])
    BY <1>1 DEF FilesInv, RowsOK, Answered
  <1>3. ASSUME videos' \in [Names -> Files!Row \cup {None}], \A u \in Names : RowMoves(u),
               start' = start \/ (start[v] # "none" /\ \E s \in {"none", "task", "push"} : start' = [start EXCEPT ![v] = s]),
               queue' \subseteq Names, results' \in [Names -> {None, "done", "failed"}]
        PROVE  FilesInv'
    <2>1. start' \in [Names -> {"none", "mark", "task", "push"}]
      BY <1>1, <1>3 DEF Files!TypeOK
    <2>2. Files!TypeOK'
      BY <1>1, <1>3, <2>1 DEF Files!TypeOK
    <2>3. \A u \in Names : start'[u] = start[u] \/ (start[u] # "none" /\ start'[u] # "mark")
      BY <1>1, <1>3 DEF Files!TypeOK
    <2> QED
      BY <1>1, <1>2, <1>3, <2>2, <2>3, RowsMove DEF RowMoves
  <1>4. queue \subseteq Names /\ results \in [Names -> {None, "done", "failed"}]
        /\ videos \in [Names -> Files!Row \cup {None}] /\ start \in [Names -> {"none", "mark", "task", "push"}]
    BY <1>1 DEF Files!TypeOK
  <1>5. CASE Files!MarkProcessing(v)
    <2>1. start[v] = "mark" /\ UNCHANGED <<queue, results>>
      BY <1>5 DEF Files!MarkProcessing, Files!Starting, Files!serviceVars
    <2>2. CASE Files!Set(v, [videos[v] EXCEPT !.status = "processing"]) /\ start' = [start EXCEPT ![v] = "task"]
      <3> DEFINE q == [videos[v] EXCEPT !.status = "processing"]
      <3>1. start'[v] = "task"
        BY <1>4, <2>2
      <3>2. ASSUME v \in Files!Rows
            PROVE  /\ q \in Files!Row /\ q.file = videos[v].file /\ RowOK(q)
                   /\ Files!Counts(q) => Files!Counts(videos[v])
        <4>1. videos[v] \in Files!Row /\ RowOK(videos[v]) /\ videos[v].status = "uploaded"
          BY <1>4, <2>1, <3>2 DEF FilesInv, Files!Rows, RowsOK
        <4>2. /\ q \in Files!Row /\ q.status = "processing" /\ q.file = videos[v].file /\ q.content = videos[v].content
              /\ q.hash = videos[v].hash /\ q.context = videos[v].context /\ q.age = videos[v].age
          BY <4>1, RowFields
        <4> HIDE DEF q
        <4> QED
          BY <4>1, <4>2 DEF RowOK, Files!Counts
      <3> HIDE DEF q
      <3>3. Files!Set(v, q)
        BY <2>2 DEF q
      <3>4. videos' \in [Names -> Files!Row \cup {None}] /\ \A u \in Names : RowMoves(u)
        BY <3>1, <3>2, <3>3, SetMoves
      <3> QED
        BY <1>3, <1>4, <2>1, <2>2, <3>4
    <2>3. CASE Files!Set(v, Files!Marked(v)) /\ start' = [start EXCEPT ![v] = "none"]
      <3>1. start'[v] # "mark"
        BY <1>4, <2>3
      <3> QED
        BY <1>3, <1>4, <2>1, <2>3, <3>1, MarkedMoves
    <2> QED
      BY <1>5, <2>2, <2>3 DEF Files!MarkProcessing
  <1>6. CASE Files!KeepTask(v)
    <2>1. start[v] = "task" /\ UNCHANGED <<queue, results>> /\ start' = [start EXCEPT ![v] = "push"]
      BY <1>6 DEF Files!KeepTask, Files!Starting, Files!serviceVars
    <2>2. start'[v] = "push"
      BY <1>4, <2>1
    <2>3. CASE UNCHANGED videos
      BY <1>3, <1>4, <2>1, <2>3 DEF RowMoves
    <2>4. CASE Files!Set(v, [videos[v] EXCEPT !.task = TRUE])
      <3> DEFINE q == [videos[v] EXCEPT !.task = TRUE]
      <3>1. ASSUME v \in Files!Rows
            PROVE  /\ q \in Files!Row /\ q.file = videos[v].file /\ RowOK(q)
                   /\ Files!Counts(q) => Files!Counts(videos[v])
        <4>1. videos[v] \in Files!Row /\ RowOK(videos[v])
          BY <1>4, <3>1 DEF FilesInv, Files!Rows, RowsOK
        <4>2. /\ q \in Files!Row /\ q.status = videos[v].status /\ q.file = videos[v].file /\ q.content = videos[v].content
              /\ q.hash = videos[v].hash /\ q.context = videos[v].context /\ q.age = videos[v].age
          BY <4>1, RowFields
        <4> HIDE DEF q
        <4> QED
          BY <4>1, <4>2 DEF RowOK, Files!Counts
      <3> HIDE DEF q
      <3>2. Files!Set(v, q)
        BY <2>4 DEF q
      <3>3. videos' \in [Names -> Files!Row \cup {None}] /\ \A u \in Names : RowMoves(u)
        BY <2>2, <3>1, <3>2, SetMoves
      <3> QED
        BY <1>3, <1>4, <2>1, <3>3
    <2> QED
      BY <1>6, <2>3, <2>4 DEF Files!KeepTask
  <1>7. CASE Files!PushVideo(v)
    <2>1. start[v] = "push" /\ UNCHANGED results /\ start' = [start EXCEPT ![v] = "none"]
      BY <1>7 DEF Files!PushVideo, Files!Starting
    <2>2. start'[v] = "none"
      BY <1>4, <2>1
    <2>3. CASE queue' = queue \cup {v} /\ UNCHANGED videos
      BY <1>3, <1>4, <2>1, <2>3 DEF RowMoves
    <2>4. CASE Files!Set(v, Files!Marked(v)) /\ UNCHANGED queue
      BY <1>3, <1>4, <2>1, <2>2, <2>4, MarkedMoves
    <2> QED
      BY <1>7, <2>3, <2>4 DEF Files!PushVideo
  <1>8. CASE Files!Process(v) \/ Files!ResultExpires(v)
    <2>1. /\ UNCHANGED <<videos, start>> /\ queue' \subseteq Names
          /\ results' \in [Names -> {None, "done", "failed"}]
      BY <1>4, <1>8 DEF Files!Process, Files!ResultExpires
    <2> QED
      BY <1>3, <1>4, <2>1 DEF RowMoves
  <1> QED
    BY <1>5, <1>6, <1>7, <1>8

-----------------------------------------------------------------------------
(* The owner asks for the status.                                          *)

LEMMA StepOf ==
  ASSUME NEW q \in Hand, NEW s \in {"idle", "cache", "upload", "insert", "mark", "take", "save", "remember"}
  PROVE  LET p == [q EXCEPT !.step = s]
         IN  /\ p \in Hand /\ p.step = s /\ p.op = q.op /\ p.video = q.video
             /\ p.content = q.content /\ p.hash = q.hash /\ p.raced = q.raced
  BY DEF Hand

(* What a handler that asks for a status becomes.                          *)
LEMMA StatusHand ==
  ASSUME FilesInv, NEW w \in Handlers, h[w].op = "status",
         \/ Files!Leaves(w)
         \/ \E s \in {"mark", "save", "remember"} : Files!Goes(w, s)
  PROVE  h' \in [Handlers -> Hand] /\ \A u \in Handlers : Answered(h[u], h'[u])
  <1>1. h \in [Handlers -> Hand]
    BY DEF FilesInv
  <1>2. PICK q \in Hand : h' = [h EXCEPT ![w] = q] /\ Answered(h[w], q)
    <2>1. CASE Files!Leaves(w)
      BY <2>1, IdleHand DEF Files!Leaves, Answered
    <2>2. CASE \E s \in {"mark", "save", "remember"} : Files!Goes(w, s)
      <3>1. PICK s \in {"mark", "save", "remember"} : h' = [h EXCEPT ![w].step = s]
        BY <2>2 DEF Files!Goes
      <3> DEFINE q == [h[w] EXCEPT !.step = s]
      <3>2. q \in Hand /\ q.step = s /\ q.op = "status" /\ q.video = h[w].video
        <4>1. h[w] \in Hand /\ s \in {"idle", "cache", "upload", "insert", "mark", "take", "save", "remember"}
          BY <1>1
        <4>2. q \in Hand /\ q.step = s /\ q.op = h[w].op /\ q.video = h[w].video
          BY <4>1, StepOf, Zenon
        <4> QED
          BY <4>2
      <3>3. h' = [h EXCEPT ![w] = q]
        BY <3>1
      <3> HIDE DEF q
      <3>4. Answered(h[w], q)
        BY <3>2 DEF Answered
      <3> QED
        BY <3>2, <3>3, <3>4
    <2> QED
      BY <2>1, <2>2
  <1>3. h' \in [Handlers -> Hand] /\ h'[w] = q /\ \A u \in Handlers \ {w} : h'[u] = h[u]
    BY <1>1, <1>2
  <1> QED
    BY <1>2, <1>3 DEF Answered

LEMMA StatusOK ==
  ASSUME FilesInv, NEW w \in Handlers,
         Files!TimeOut(w) \/ Files!TakeAnswer(w) \/ Files!SaveAnswer(w) \/ Files!Remember(w)
  PROVE  FilesInv'
  <1> DEFINE v == h[w].video
  <1>1. /\ UNCHANGED <<files, images, attached, queue, start, sweeping, lost, overlap>>
        /\ h[w].op = "status" /\ Files!TypeOK
    BY DEF Files!TimeOut, Files!TakeAnswer, Files!SaveAnswer, Files!Remember, Files!StatusKeeps,
           Files!imageVars, Files!At, FilesInv
  <1>2. v \in Names /\ start[v] # "mark" /\ start'[v] # "mark"
    BY <1>1 DEF FilesInv, HandsOK, HandOK
  <1>3. h' \in [Handlers -> Hand] /\ \A u \in Handlers : Answered(h[u], h'[u])
    <2>1. \/ Files!Leaves(w)
          \/ \E s \in {"mark", "save", "remember"} : Files!Goes(w, s)
      BY DEF Files!TimeOut, Files!TakeAnswer, Files!SaveAnswer, Files!Remember
    <2> QED
      BY <1>1, <2>1, StatusHand
  <1>4. /\ videos \in [Names -> Files!Row \cup {None}] /\ results \in [Names -> {None, "done", "failed"}]
        /\ analysed \in [Contents \cup {None} -> Contents \cup {None}]
        /\ \A x \in Contents : analysed[x] \in {x, None}
    BY <1>1 DEF Files!TypeOK, FilesInv, RowsOK
  <1>5. ASSUME videos' \in [Names -> Files!Row \cup {None}], \A u \in Names : RowMoves(u),
               late => late', results' \in [Names -> {None, "done", "failed"}],
               analysed' \in [Contents \cup {None} -> Contents \cup {None}],
               \A x \in Contents : analysed'[x] \in {x, None}
        PROVE  FilesInv'
    <2>1. Files!TypeOK'
      BY <1>1, <1>5 DEF Files!TypeOK
    <2> QED
      BY <1>1, <1>3, <1>5, <2>1, RowsMove DEF RowMoves
  <1>6. CASE Files!TimeOut(w)
    <2>1. UNCHANGED <<analysed, results, late>>
      BY <1>6 DEF Files!TimeOut
    <2>2. CASE UNCHANGED videos
      BY <1>4, <1>5, <2>1, <2>2 DEF RowMoves
    <2>3. CASE Files!Set(v, Files!Marked(v))
      BY <1>2, <1>4, <1>5, <2>1, <2>3, MarkedMoves
    <2> QED
      BY <1>6, <2>2, <2>3 DEF Files!TimeOut
  <1>7. CASE Files!TakeAnswer(w)
    <2>1. UNCHANGED <<videos, analysed, late>> /\ results' = [results EXCEPT ![v] = None]
      BY <1>7 DEF Files!TakeAnswer
    <2>2. results' \in [Names -> {None, "done", "failed"}]
      BY <1>4, <2>1
    <2> QED
      BY <1>4, <1>5, <2>1, <2>2 DEF RowMoves
  <1>8. CASE Files!SaveAnswer(w)
    <2>1. UNCHANGED <<analysed, results>>
      BY <1>8 DEF Files!SaveAnswer
    <2>2. CASE UNCHANGED <<videos, late>>
      BY <1>4, <1>5, <2>1, <2>2 DEF RowMoves
    <2>3. CASE /\ Files!Set(v, [videos[v] EXCEPT !.status = "done", !.context = videos[v].content])
               /\ late' = (late \/ (v \in Files!Rows /\ videos[v].status = "error"))
      <3> DEFINE q == [videos[v] EXCEPT !.status = "done", !.context = videos[v].content]
      <3>1. ASSUME v \in Files!Rows
            PROVE  /\ q \in Files!Row /\ q.file = videos[v].file /\ RowOK(q)
                   /\ ~late' /\ Files!Counts(q) => Files!Counts(videos[v])
        <4>1. videos[v] \in Files!Row /\ RowOK(videos[v])
          BY <1>4, <3>1 DEF FilesInv, Files!Rows, RowsOK
        <4>2. /\ q \in Files!Row /\ q.status = "done" /\ q.file = videos[v].file /\ q.content = videos[v].content
              /\ q.hash = videos[v].hash /\ q.context = videos[v].content /\ q.age = videos[v].age
          BY <4>1, RowFields
        <4> HIDE DEF q
        <4>3. ~late' => videos[v].status # "error"
          BY <2>3, <3>1
        <4> QED
          BY <4>1, <4>2, <4>3 DEF RowOK, Files!Counts
      <3> HIDE DEF q
      <3>2. Files!Set(v, q)
        BY <2>3 DEF q
      <3>3. videos' \in [Names -> Files!Row \cup {None}] /\ \A u \in Names : RowMoves(u)
        BY <1>2, <3>1, <3>2, SetMoves
      <3> QED
        BY <1>4, <1>5, <2>1, <2>3, <3>3
    <2> QED
      BY <1>8, <2>2, <2>3 DEF Files!SaveAnswer
  <1>9. CASE Files!Remember(w)
    <2>1. UNCHANGED <<videos, results, late>>
      BY <1>9 DEF Files!Remember
    <2>2. /\ analysed' \in [Contents \cup {None} -> Contents \cup {None}]
          /\ \A x \in Contents : analysed'[x] \in {x, None}
      <3>1. CASE UNCHANGED analysed
        BY <1>4, <3>1
      <3>2. CASE /\ v \in Files!Rows /\ Files!Hashed(videos[v].hash)
                 /\ analysed' = [analysed EXCEPT ![videos[v].hash] = videos[v].context]
        <4>1. videos[v] \in Files!Row /\ RowOK(videos[v])
          BY <1>4, <3>2 DEF FilesInv, Files!Rows, RowsOK
        <4>2. /\ videos[v].hash = videos[v].content /\ videos[v].content \in Contents
              /\ videos[v].context \in {videos[v].hash, None}
          BY <3>2, <4>1 DEF RowOK, Files!Hashed, Files!Row
        <4> QED
          BY <1>4, <3>2, <4>2
      <3> QED
        BY <1>9, <3>1, <3>2 DEF Files!Remember
    <2> QED
      BY <1>4, <1>5, <2>1, <2>2 DEF RowMoves
  <1> QED
    BY <1>6, <1>7, <1>8, <1>9

(* A day or a month goes by.                                               *)
LEMMA LaterOK ==
  ASSUME FilesInv, Files!Later
  PROVE  FilesInv'
  <1>1. /\ UNCHANGED <<analysed, files, images, attached, queue, results, start, h, sweeping, lost, overlap, late>>
        /\ h \in [Handlers -> Hand] /\ Files!TypeOK
    BY DEF Files!Later, Files!imageVars, Files!serviceVars, Files!history, FilesInv
  <1>2. videos' = [v \in Names |-> IF v \in Files!Rows /\ videos[v].age < 3
                                  THEN [videos[v] EXCEPT !.age = @ + 1] ELSE videos[v]]
    BY DEF Files!Later
  <1>3. ASSUME NEW v \in Names
        PROVE  videos'[v] \in Files!Row \cup {None} /\ RowMoves(v)
    <2>1. CASE v \in Files!Rows /\ videos[v].age < 3
      <3> DEFINE q == [videos[v] EXCEPT !.age = @ + 1]
      <3>1. videos[v] \in Files!Row /\ RowOK(videos[v]) /\ (start[v] = "mark" => videos[v].status = "uploaded")
        BY <1>1, <2>1 DEF FilesInv, Files!TypeOK, Files!Rows, RowsOK
      <3>2. /\ q \in Files!Row /\ q.status = videos[v].status /\ q.file = videos[v].file
            /\ q.content = videos[v].content /\ q.hash = videos[v].hash /\ q.context = videos[v].context
            /\ Files!Counts(q) => Files!Counts(videos[v])
        BY <2>1, <3>1, RowAges
      <3>3. videos'[v] = q
        BY <1>2, <2>1
      <3> HIDE DEF q
      <3>4. q # None /\ RowOK(q)
        BY <3>1, <3>2, FileConstants DEF RowOK
      <3> QED
        BY <1>1, <2>1, <3>1, <3>2, <3>3, <3>4 DEF RowMoves
    <2>2. CASE ~(v \in Files!Rows /\ videos[v].age < 3)
      BY <1>1, <1>2, <2>2 DEF RowMoves, Files!TypeOK
    <2> QED
      BY <2>1, <2>2
  <1>4. videos' \in [Names -> Files!Row \cup {None}]
    BY <1>2, <1>3
  <1>5. Files!TypeOK'
    BY <1>1, <1>4 DEF Files!TypeOK
  <1>6. /\ \A x \in Contents : analysed'[x] \in {x, None}
        /\ \A w \in Handlers : Answered(h[w], h'[w])
    BY <1>1 DEF FilesInv, RowsOK, Answered
  <1> QED
    BY <1>1, <1>3, <1>5, <1>6, RowsMove DEF RowMoves

(* A question names images.                                                *)
LEMMA AttachOK ==
  ASSUME FilesInv, NEW ids \in SUBSET Names, Files!AttachImages(ids)
  PROVE  FilesInv'
  <1>1. /\ UNCHANGED <<videos, analysed, files, images, queue, results, start, h, sweeping, lost, overlap, late>>
        /\ h \in [Handlers -> Hand] /\ Files!TypeOK /\ attached' \subseteq Names
    BY DEF Files!AttachImages, Files!serviceVars, Files!history, FilesInv, Files!TypeOK
  <1>2. Files!TypeOK'
    BY <1>1 DEF Files!TypeOK
  <1>3. /\ \A x \in Contents : analysed'[x] \in {x, None}
        /\ \A w \in Handlers : Answered(h[w], h'[w])
    BY <1>1 DEF FilesInv, RowsOK, Answered
  <1> QED
    BY <1>1, <1>2, <1>3, RowsMove

-----------------------------------------------------------------------------
(* A video or an image is uploaded, or a video's status is read.           *)

LEMMA BeginsOK ==
  ASSUME FilesInv, NEW w \in Handlers, NEW v \in Names,
         \/ \E c \in Contents : \E hash \in {c, None} : Files!BeginVideo(w, v, c, hash)
         \/ Files!BeginImage(w, v)
         \/ Files!ReadStatus(w, v)
  PROVE  FilesInv'
  <1>1. /\ UNCHANGED <<videos, analysed, files, images, attached, queue, results, start, sweeping, lost, overlap, late>>
        /\ h[w] = Files!Idle /\ Files!TypeOK
    BY DEF Files!BeginVideo, Files!BeginImage, Files!ReadStatus, Files!Begins, Files!imageVars,
           Files!serviceVars, Files!history, FilesInv
  <1>2. Files!TypeOK'
    BY <1>1 DEF Files!TypeOK
  <1>3. h[w].step # "insert" /\ ~Uploads(h[w])
    BY <1>1, IdleHand
  <1>4. ASSUME NEW q, h' = [h EXCEPT ![w] = q], HandOK(q), q.step # "insert", q.video = v,
               \/ Uploads(q) /\ \A u \in Handlers : h[u].video # v
               \/ ~Uploads(q) /\ v \in Files!Rows,
               q.op = "video" => Files!Used < VideoLimit
        PROVE  FilesInv'
    <2>1. \A u \in Handlers \ {w} : Uploads(q) \/ Uploads(h[u]) => h[u].video # q.video
      BY <1>4 DEF FilesInv, HandsOK, HandOK
    <2> QED
      BY <1>1, <1>2, <1>3, <1>4, <2>1, OneHandMoves
  <1>5. ASSUME NEW c \in Contents, NEW hash \in {c, None}, Files!BeginVideo(w, v, c, hash) PROVE FilesInv'
    <2> DEFINE q == [Files!Idle EXCEPT !.op = "video", !.step = "cache", !.video = v, !.content = c, !.hash = hash]
    <2>1. /\ h' = [h EXCEPT ![w] = q] /\ Files!Used < VideoLimit /\ v \notin Files!Rows /\ start[v] = "none"
          /\ \A u \in Handlers : h[u].video # v
      BY <1>5 DEF Files!BeginVideo, Files!Begins, Files!Fresh
    <2>2. /\ q \in Hand /\ q.op = "video" /\ q.step = "cache" /\ q.video = v /\ q.content = c /\ q.hash = hash
      BY <1>5 DEF Hand, Files!Idle
    <2> HIDE DEF q
    <2>3. HandOK(q) /\ Uploads(q)
      BY <1>5, <2>1, <2>2 DEF HandOK, Uploads
    <2> QED
      BY <1>4, <2>1, <2>2, <2>3
  <1>6. CASE Files!BeginImage(w, v)
    <2> DEFINE q == [Files!Idle EXCEPT !.op = "image", !.step = "upload", !.video = v]
    <2>1. /\ h' = [h EXCEPT ![w] = q] /\ v \notin Files!Rows /\ start[v] = "none"
          /\ \A u \in Handlers : h[u].video # v
      BY <1>6 DEF Files!BeginImage, Files!Begins, Files!Fresh
    <2>2. q \in Hand /\ q.op = "image" /\ q.step = "upload" /\ q.video = v
      BY DEF Hand, Files!Idle
    <2> HIDE DEF q
    <2>3. HandOK(q) /\ Uploads(q)
      BY <2>1, <2>2 DEF HandOK, Uploads
    <2> QED
      BY <1>4, <2>1, <2>2, <2>3
  <1>7. CASE Files!ReadStatus(w, v)
    <2> DEFINE q == [Files!Idle EXCEPT !.op = "status", !.video = v,
                                       !.step = IF videos[v].age > 0 THEN "mark" ELSE "take"]
    <2>1. h' = [h EXCEPT ![w] = q] /\ v \in Files!Rows /\ videos[v].status = "processing"
      BY <1>7 DEF Files!ReadStatus, Files!Begins
    <2>2. q \in Hand /\ q.op = "status" /\ q.step # "insert" /\ q.video = v
      BY DEF Hand, Files!Idle
    <2>3. start[v] # "mark"
      BY <2>1 DEF FilesInv, RowsOK
    <2> HIDE DEF q
    <2>4. HandOK(q) /\ ~Uploads(q)
      BY <2>2, <2>3 DEF HandOK, Uploads
    <2> QED
      BY <1>4, <2>1, <2>2, <2>4
  <1> QED
    BY <1>5, <1>6, <1>7

(* An upload goes on, or ends without a row of a video.                    *)
LEMMA UploadsGoOn ==
  ASSUME FilesInv, NEW w \in Handlers,
         \/ Files!Refuse(w) \/ Files!CacheMiss(w) \/ Files!UploadVideo(w) \/ Files!InsertVideoFails(w)
         \/ Files!UploadImage(w) \/ Files!InsertImage(w) \/ Files!InsertImageFails(w)
  PROVE  FilesInv'
  <1> DEFINE f == h[w].video
  <1>1. /\ UNCHANGED <<videos, analysed, attached, queue, results, start, sweeping, overlap, late>>
        /\ Uploads(h[w]) /\ Files!TypeOK
    BY DEF Files!Refuse, Files!CacheMiss, Files!UploadVideo, Files!InsertVideoFails, Files!UploadImage,
           Files!InsertImage, Files!InsertImageFails, Files!Uploaded, Files!At, Uploads,
           Files!imageVars, Files!serviceVars, Files!history, FilesInv
  <1>2. h \in [Handlers -> Hand] /\ f \in Names /\ f \notin Files!Rows /\ start[f] = "none" /\ HandOK(h[w])
    BY <1>1 DEF FilesInv, HandsOK, HandOK
  <1>3. \A u \in Handlers \ {w} : h[u].video # f
    BY <1>1 DEF FilesInv, HandsOK
  <1>4. ASSUME files' \subseteq Names, lost' \subseteq Names, images' \in [Names -> {None, "done", "error"}]
        PROVE  Files!TypeOK'
    BY <1>1, <1>4 DEF Files!TypeOK
  <1>5. /\ files \subseteq Names /\ lost \subseteq Names /\ images \in [Names -> {None, "done", "error"}]
    BY <1>1 DEF Files!TypeOK
  <1>6. ASSUME Files!Leaves(w), files' \subseteq Names, lost' \subseteq Names,
               images' \in [Names -> {None, "done", "error"}],
               files' \ lost' \subseteq files \ lost,
               \A g \in Names : images[g] # None => images'[g] # None,
               h[w].step = "insert" /\ f \in files' \ lost' => images'[f] # None
        PROVE  FilesInv'
    <2>1. h' = [h EXCEPT ![w] = Files!Idle]
      BY <1>6 DEF Files!Leaves
    <2>2. \A u \in Handlers \ {w} : Uploads(Files!Idle) \/ Uploads(h[u]) => h[u].video # Files!Idle.video
      BY IdleHand, FileConstants DEF FilesInv, HandsOK, HandOK
    <2> QED
      BY <1>1, <1>4, <1>6, <2>1, <2>2, IdleHand, OneHandMoves
  <1>7. ASSUME NEW s \in {"upload", "insert"}, Files!Goes(w, s), UNCHANGED <<images, lost>>,
               h[w].step # "insert",
               files' \subseteq files \cup (IF s = "insert" THEN {f} ELSE {})
        PROVE  FilesInv'
    <2> DEFINE q == [h[w] EXCEPT !.step = s]
    <2>1. /\ q \in Hand /\ q.step = s /\ q.op = h[w].op /\ q.video = f
          /\ q.content = h[w].content /\ q.hash = h[w].hash /\ q.raced = h[w].raced
      <3>1. h[w] \in Hand /\ s \in {"idle", "cache", "upload", "insert", "mark", "take", "save", "remember"}
        BY <1>2
      <3> QED
        BY <3>1, StepOf
    <2>2. h' = [h EXCEPT ![w] = q]
      BY <1>7 DEF Files!Goes
    <2> HIDE DEF q
    <2>3. HandOK(q)
      BY <1>1, <1>2, <2>1 DEF HandOK, Uploads
    <2>4. Files!TypeOK'
      BY <1>2, <1>4, <1>5, <1>7
    <2>5. q.op = "video" /\ ~q.raced /\ ~overlap /\ ~late => Files!Used < VideoLimit
      BY <2>1 DEF FilesInv, QuotaOK
    <2>6. \A g \in files' \ lost' : g \in files \ lost \/ (g = q.video /\ q.step = "insert")
      BY <1>7, <2>1
    <2>7. \A u \in Handlers \ {w} : Uploads(q) \/ Uploads(h[u]) => h[u].video # q.video
      BY <1>3, <2>1
    <2>8. \A g \in Names : images[g] # None => images'[g] # None
      BY <1>7
    <2>9. UNCHANGED <<videos, analysed, start, sweeping, overlap, late>>
      BY <1>1
    <2> HIDE DEF f
    <2> QED
      BY <1>7, <2>2, <2>3, <2>4, <2>5, <2>6, <2>7, <2>8, <2>9, OneHandMoves
  <1>8. CASE Files!Refuse(w)
    BY <1>5, <1>6, <1>8 DEF Files!Refuse, Files!At, Files!imageVars, Files!history
  <1>9. CASE Files!CacheMiss(w)
    BY <1>7, <1>9 DEF Files!CacheMiss, Files!At, Files!imageVars, Files!history
  <1>10. CASE Files!UploadVideo(w) \/ Files!UploadImage(w)
    <2>1. /\ h[w].step = "upload" /\ UNCHANGED images
          /\ \/ files' = files \cup {f} /\ Files!Goes(w, "insert") /\ UNCHANGED lost
             \/ Files!Leaves(w) /\ UNCHANGED <<files, lost>>
             \/ Files!Leaves(w) /\ files' = files \cup {f} /\ lost' = lost \cup {f}
      BY <1>10 DEF Files!UploadVideo, Files!UploadImage, Files!Uploaded, Files!At, Files!imageVars
    <2>2. CASE files' = files \cup {f} /\ Files!Goes(w, "insert") /\ UNCHANGED lost
      BY <1>7, <2>1, <2>2
    <2>3. CASE Files!Leaves(w) /\ UNCHANGED <<files, lost>>
      BY <1>5, <1>6, <2>1, <2>3
    <2>4. CASE Files!Leaves(w) /\ files' = files \cup {f} /\ lost' = lost \cup {f}
      <3>1. files' \subseteq Names /\ lost' \subseteq Names /\ files' \ lost' \subseteq files \ lost
        BY <1>2, <1>5, <2>4
      <3> QED
        BY <1>5, <1>6, <2>1, <2>4, <3>1
    <2> QED
      BY <2>1, <2>2, <2>3, <2>4
  <1>11. CASE Files!InsertVideoFails(w) \/ Files!InsertImageFails(w)
    <2>1. Files!Destroyed(f) /\ Files!Leaves(w) /\ UNCHANGED images
      BY <1>11 DEF Files!InsertVideoFails, Files!InsertImageFails, Files!DestroyVideo, Files!DestroyImage,
                   Files!imageVars
    <2>2. (files' = files \ {f} /\ lost' = lost) \/ (lost' = lost \cup {f} /\ files' = files)
      BY <2>1 DEF Files!Destroyed
    <2>3. files' \subseteq Names /\ lost' \subseteq Names /\ files' \ lost' \subseteq (files \ lost) \ {f}
      BY <1>2, <1>5, <2>2
    <2> QED
      BY <1>5, <1>6, <2>1, <2>3
  <1>12. CASE Files!InsertImage(w)
    <2>1. /\ Files!Leaves(w) /\ UNCHANGED <<files, lost>>
          /\ \E status \in {"done", "error"} : images' = [images EXCEPT ![f] = status]
      BY <1>12 DEF Files!InsertImage, Files!history, Files!CallSync
    <2>2. images' \in [Names -> {None, "done", "error"}] /\ images'[f] # None
          /\ \A g \in Names : images[g] # None => images'[g] # None
      BY <1>2, <1>5, <2>1, FileConstants
    <2> QED
      BY <1>5, <1>6, <2>1, <2>2
  <1> QED
    BY <1>8, <1>9, <1>10, <1>11, <1>12

(* The row of a video: of content that was analysed, or of the file        *)
(* uploaded for it.                                                        *)
LEMMA RowEntersOK ==
  ASSUME FilesInv, NEW w \in Handlers, Files!CacheHit(w) \/ Files!InsertVideo(w)
  PROVE  FilesInv'
  <1>1. h[w].op = "video" /\ h[w] \in Hand /\ HandOK(h[w]) /\ Files!TypeOK
    BY DEF Files!CacheHit, Files!InsertVideo, Files!At, FilesInv, HandsOK
  <1>2. /\ h[w].content \in Contents /\ h[w].hash \in {h[w].content, None} /\ h[w].video \in Names
    BY <1>1 DEF HandOK, Uploads
  <1>3. ASSUME NEW status \in {"uploaded", "done"}, NEW file \in Names \cup {None},
               NEW context \in {h[w].content, None}, status = "done" => context = h[w].content
        PROVE  LET r == Files!NewRow(w, status, file, context)
               IN  r \in Files!Row /\ RowOK(r) /\ r.file = file /\ r.status = status
    BY <1>2, <1>3 DEF Files!NewRow, Files!Row, RowOK, Files!Ages
  <1>4. CASE Files!CacheHit(w)
    <2> DEFINE earlier == {videos[v].file : v \in {u \in Files!Rows : videos[u].hash = h[w].hash}} \ {None}
    <2>1. /\ h[w].step = "cache" /\ Files!Hashed(h[w].hash) /\ analysed[h[w].hash] # None
          /\ UNCHANGED <<files, start, lost, late>>
          /\ \E file \in IF earlier = {} THEN {None} ELSE earlier :
                 Files!Enters(w, Files!NewRow(w, "done", file, analysed[h[w].hash]))
      BY <1>4 DEF Files!CacheHit, Files!At
    <2>2. earlier \subseteq Names
      <3> SUFFICES ASSUME NEW v \in Files!Rows, videos[v].file # None PROVE videos[v].file \in Names
        OBVIOUS
      <3>1. videos[v] \in Files!Row
        BY <1>1 DEF Files!TypeOK, Files!Rows
      <3> QED
        BY <3>1 DEF Files!Row
    <2>3. PICK file \in Names \cup {None} : Files!Enters(w, Files!NewRow(w, "done", file, analysed[h[w].hash]))
      BY <2>1, <2>2
    <2>4. analysed[h[w].hash] = h[w].content
      <3>1. h[w].hash = h[w].content
        BY <1>2, <2>1 DEF Files!Hashed
      <3> QED
        BY <1>2, <2>1, <3>1 DEF FilesInv, RowsOK
    <2> DEFINE r == Files!NewRow(w, "done", file, analysed[h[w].hash])
    <2>5. r \in Files!Row /\ RowOK(r)
      BY <1>3, <2>4
    <2> HIDE DEF r
    <2>6. Files!Enters(w, r)
      BY <2>3 DEF r
    <2> QED
      BY <1>1, <2>1, <2>5, <2>6, EntersOK
  <1>5. CASE Files!InsertVideo(w)
    <2> DEFINE r == Files!NewRow(w, "uploaded", h[w].video, None)
    <2>1. /\ Files!Enters(w, r) /\ UNCHANGED <<files, lost, late>>
          /\ start' = [start EXCEPT ![h[w].video] = "mark"]
      BY <1>5 DEF Files!InsertVideo
    <2>2. r \in Files!Row /\ RowOK(r) /\ r.file = h[w].video /\ r.status = "uploaded"
      BY <1>2, <1>3
    <2> HIDE DEF r
    <2> QED
      BY <1>1, <2>1, <2>2, EntersOK
  <1> QED
    BY <1>4, <1>5

-----------------------------------------------------------------------------
(* Rows are swept and their files destroyed, and the process ends.         *)

(* Hands that do not move, as no video enters and no send begins.          *)
LEMMA HandsStay ==
  ASSUME HandsOK, UNCHANGED h, UNCHANGED start, Files!Rows' \subseteq Files!Rows
  PROVE  HandsOK'
  BY DEF HandsOK, HandOK, Uploads

LEMMA SweepOK ==
  ASSUME FilesInv, Files!SweepVideos
  PROVE  FilesInv'
  <1> DEFINE gone == {v \in Files!Rows : Files!Swept(videos[v])}
  <1>1. /\ videos' = [v \in Names |-> IF v \in gone THEN None ELSE videos[v]]
        /\ sweeping' = sweeping \cup ({videos[v].file : v \in gone} \ {None})
        /\ UNCHANGED <<analysed, files, images, attached, queue, results, start, h, lost, overlap, late>>
        /\ Files!TypeOK
    BY DEF Files!SweepVideos, Files!imageVars, Files!serviceVars, Files!history, FilesInv
  <1>2. gone \subseteq Files!Rows /\ Files!Rows \subseteq Names
    BY DEF Files!Rows
  <1> HIDE DEF gone
  <1>3. /\ \A v \in gone : videos'[v] = None
        /\ \A v \in Names \ gone : videos'[v] = videos[v]
        /\ Files!Rows' = Files!Rows \ gone
    BY <1>1, <1>2 DEF Files!Rows
  <1>4. Files!TypeOK'
    <2>1. \A v \in gone : videos[v].file \in Names \cup {None}
      <3> SUFFICES ASSUME NEW v \in gone PROVE videos[v].file \in Names \cup {None}
        OBVIOUS
      <3>1. videos[v] \in Files!Row
        BY <1>1, <1>2 DEF Files!TypeOK, Files!Rows
      <3> QED
        BY <3>1 DEF Files!Row
    <2>2. sweeping' \subseteq Names
      BY <1>1, <2>1 DEF Files!TypeOK
    <2>3. videos' \in [Names -> Files!Row \cup {None}]
      BY <1>1 DEF Files!TypeOK
    <2> QED
      BY <1>1, <2>2, <2>3 DEF Files!TypeOK
  <1>5. h' \in [Handlers -> Hand] /\ HandsOK'
    BY <1>1, <1>3, HandsStay DEF FilesInv
  <1>6. RowsOK'
    BY <1>1, <1>2, <1>3 DEF FilesInv, RowsOK, RowOK
  <1>7. NamedOK'
    <2> SUFFICES ASSUME NEW f \in files \ lost PROVE Named(f)'
      BY <1>1 DEF NamedOK
    <2>1. Named(f) /\ f # None
      BY <1>1, FileConstants DEF FilesInv, NamedOK, Files!TypeOK
    <2>2. CASE \E v \in Files!Rows : videos[v].file = f
      <3>1. PICK v \in Files!Rows : videos[v].file = f
        BY <2>2
      <3>2. CASE v \in gone
        BY <1>1, <2>1, <3>1, <3>2 DEF Named
      <3>3. CASE v \notin gone
        BY <1>2, <1>3, <3>1, <3>3 DEF Named
      <3> QED
        BY <3>2, <3>3
    <2>3. CASE images[f] # None \/ (\E w \in Handlers : h[w].video = f /\ h[w].step = "insert") \/ f \in sweeping
      BY <1>1, <2>3 DEF Named
    <2> QED
      BY <2>1, <2>2, <2>3 DEF Named
  <1>8. QuotaOK'
    <2>1. CountedToday' \subseteq CountedToday
      BY <1>2, <1>3 DEF CountedToday, Files!Counts
    <2>2. Files!Used' <= Files!Used /\ Files!Used' \in Nat /\ Files!Used \in Nat
      BY <2>1, UsedFalls
    <2>3. QuotaOK
      BY DEF FilesInv
    <2> QED
      BY <1>1, <2>2, <2>3, FileConstants DEF QuotaOK
  <1> QED
    BY <1>4, <1>5, <1>6, <1>7, <1>8 DEF FilesInv

(* The rows of a deleted session go, and their files have no name.         *)
LEMMA DeleteSessionOK ==
  ASSUME FilesInv, NEW gone \in SUBSET Names, Files!DeleteSession(gone)
  PROVE  FilesInv'
  <1> DEFINE theirs == {v \in gone : images[v] # None} \cup {videos[v].file : v \in gone \cap Files!Rows}
             others == {videos[v].file : v \in Files!Rows \ gone}
  <1>1. /\ videos' = [v \in Names |-> IF v \in gone THEN None ELSE videos[v]]
        /\ images' = [v \in Names |-> IF v \in gone THEN None ELSE images[v]]
        /\ attached' = attached \ gone
        /\ lost' = lost \cup ((files \cap theirs) \ others)
        /\ UNCHANGED <<analysed, files, queue, results, start, h, sweeping, overlap, late>>
        /\ Files!TypeOK
    BY DEF Files!DeleteSession, Files!serviceVars, FilesInv
  <1>2. /\ \A v \in Names \ gone : videos'[v] = videos[v] /\ images'[v] = images[v]
        /\ Files!Rows' = Files!Rows \ gone
    BY <1>1 DEF Files!Rows
  <1>3. Files!TypeOK'
    <2>1. videos' \in [Names -> Files!Row \cup {None}] /\ images' \in [Names -> {None, "done", "error"}]
      BY <1>1 DEF Files!TypeOK
    <2>2. lost' \subseteq Names /\ attached' \subseteq Names
      BY <1>1 DEF Files!TypeOK
    <2> QED
      BY <1>1, <2>1, <2>2 DEF Files!TypeOK
  <1>4. h' \in [Handlers -> Hand] /\ HandsOK'
    BY <1>1, <1>2, HandsStay DEF FilesInv
  <1>5. RowsOK'
    BY <1>1, <1>2 DEF FilesInv, RowsOK, RowOK, Files!Rows
  <1>6. NamedOK'
    <2> SUFFICES ASSUME NEW f \in files \ lost, f \notin theirs \/ f \in others PROVE Named(f)'
      BY <1>1 DEF NamedOK
    <2>1. Named(f) /\ f \in Names
      BY <1>1 DEF FilesInv, NamedOK, Files!TypeOK
    <2>2. CASE f \in others
      <3>1. PICK v \in Files!Rows \ gone : videos[v].file = f
        BY <2>2
      <3>2. v \in Files!Rows' /\ videos'[v].file = f
        BY <1>2, <3>1 DEF Files!Rows
      <3> QED
        BY <3>2 DEF Named
    <2>3. CASE (\E w \in Handlers : h[w].video = f /\ h[w].step = "insert") \/ f \in sweeping
      BY <1>1, <2>3 DEF Named
    <2>4. CASE f \notin theirs /\ images[f] # None
      <3>1. f \notin gone
        BY <2>4
      <3> QED
        BY <1>2, <2>1, <2>4, <3>1 DEF Named
    <2>5. CASE f \notin theirs /\ \E v \in Files!Rows : videos[v].file = f
      <3>1. PICK v \in Files!Rows : videos[v].file = f
        BY <2>5
      <3>2. v \notin gone
        BY <2>5, <3>1
      <3> QED
        BY <2>2, <3>1, <3>2
    <2> QED
      BY <2>1, <2>2, <2>3, <2>4, <2>5 DEF Named
  <1>7. QuotaOK'
    <2>1. CountedToday' \subseteq CountedToday
      BY <1>2 DEF CountedToday, Files!Counts, Files!Rows
    <2>2. Files!Used' <= Files!Used /\ Files!Used' \in Nat /\ Files!Used \in Nat
      BY <2>1, UsedFalls
    <2>3. QuotaOK
      BY DEF FilesInv
    <2> QED
      BY <1>1, <2>2, <2>3, FileConstants DEF QuotaOK
  <1> QED
    BY <1>3, <1>4, <1>5, <1>6, <1>7 DEF FilesInv

LEMMA DestroyOK ==
  ASSUME FilesInv, NEW file \in Names, Files!DestroySwept(file)
  PROVE  FilesInv'
  <1>1. /\ file \in sweeping /\ sweeping' = sweeping \ {file}
        /\ UNCHANGED <<videos, analysed, images, attached, queue, results, start, h, overlap, late>>
        /\ (files' = files \ {file} /\ lost' = lost) \/ (lost' = lost \cup {file} /\ files' = files)
        /\ Files!TypeOK
    BY DEF Files!DestroySwept, Files!DestroyVideo, Files!Destroyed, Files!imageVars, Files!serviceVars, FilesInv
  <1>2. UNCHANGED <<Files!Rows, Files!Used>>
    BY <1>1 DEF Files!Rows, Files!Used, Files!Counts
  <1>3. Files!TypeOK'
    BY <1>1 DEF Files!TypeOK
  <1>4. HandsOK' /\ h' \in [Handlers -> Hand]
    BY <1>1, <1>2, HandsStay DEF FilesInv
  <1>5. RowsOK' /\ QuotaOK'
    BY <1>1, <1>2 DEF FilesInv, RowsOK, RowOK, QuotaOK
  <1>6. NamedOK'
    <2> SUFFICES ASSUME NEW f \in files' \ lost' PROVE Named(f)'
      BY DEF NamedOK
    <2>1. f \in files \ lost /\ f # file
      BY <1>1
    <2>2. Named(f)
      BY <2>1 DEF FilesInv, NamedOK
    <2> QED
      BY <1>1, <1>2, <2>1, <2>2 DEF Named
  <1> QED
    BY <1>3, <1>4, <1>5, <1>6 DEF FilesInv

LEMMA CrashOK ==
  ASSUME FilesInv, Files!Crash
  PROVE  FilesInv'
  <1> DEFINE held == {h[w].video : w \in {u \in Handlers : h[u].step = "insert"}}
  <1>1. /\ lost' = lost \cup sweeping \cup held /\ sweeping' = {}
        /\ start' = [v \in Names |-> "none"] /\ h' = [w \in Handlers |-> Files!Idle]
        /\ UNCHANGED <<videos, analysed, files, images, attached, queue, results, overlap, late>>
        /\ Files!TypeOK
    BY DEF Files!Crash, Files!imageVars, Files!serviceVars, FilesInv
  <1>2. UNCHANGED <<Files!Rows, Files!Used>>
    BY <1>1 DEF Files!Rows, Files!Used, Files!Counts
  <1>3. held \subseteq Names
    BY DEF FilesInv, HandsOK, HandOK
  <1>4. Files!TypeOK'
    BY <1>1, <1>3 DEF Files!TypeOK
  <1>5. h' \in [Handlers -> Hand] /\ \A w \in Handlers : h'[w] = Files!Idle
    BY <1>1, IdleHand
  <1>6. HandsOK'
    <2>1. ASSUME NEW w \in Handlers PROVE HandOK(h[w])' /\ ~Uploads(h'[w])
      <3>1. h'[w] = Files!Idle
        BY <1>5
      <3>2. /\ Files!Idle \in Hand /\ ~Uploads(Files!Idle) /\ Files!Idle.op = "none" /\ Files!Idle.step = "idle"
        BY IdleHand
      <3> QED
        BY <3>1, <3>2 DEF HandOK, Uploads
    <2> QED
      BY <2>1 DEF HandsOK, Uploads
  <1>7. RowsOK'
    <2>1. \A v \in Files!Rows : start'[v] # "mark"
      BY <1>1 DEF Files!Rows
    <2> QED
      BY <1>1, <1>2, <2>1 DEF FilesInv, RowsOK, RowOK
  <1>8. NamedOK'
    <2> SUFFICES ASSUME NEW f \in files \ lost' PROVE Named(f)'
      BY <1>1 DEF NamedOK
    <2>1. f \in files \ lost /\ f \notin sweeping /\ f \notin held
      BY <1>1
    <2>2. Named(f)
      BY <2>1 DEF FilesInv, NamedOK
    <2> QED
      BY <1>1, <1>2, <2>1, <2>2 DEF Named
  <1>9. QuotaOK'
    BY <1>1, <1>2, <1>5, IdleHand DEF FilesInv, QuotaOK
  <1> QED
    BY <1>4, <1>5, <1>6, <1>7, <1>8, <1>9 DEF FilesInv

LEMMA FilesStep ==
  ASSUME FilesInv, [Files!Next]_(Files!vars)
  PROVE  FilesInv'
  <1>1. CASE UNCHANGED Files!vars
    <2>1. UNCHANGED <<videos, analysed, files, images, attached, queue, results, start, h, sweeping, lost, overlap, late>>
      BY <1>1 DEF Files!vars, Files!imageVars, Files!serviceVars, Files!history
    <2>2. UNCHANGED <<Files!Rows, Files!Used>>
      BY <2>1 DEF Files!Rows, Files!Used, Files!Counts
    <2>3. Files!TypeOK' /\ HandsOK' /\ h' \in [Handlers -> Hand]
      BY <2>1, <2>2, HandsStay DEF FilesInv, Files!TypeOK
    <2>4. RowsOK' /\ QuotaOK' /\ NamedOK'
      BY <2>1, <2>2 DEF FilesInv, RowsOK, RowOK, QuotaOK, NamedOK, Named
    <2> QED
      BY <2>3, <2>4 DEF FilesInv
  <1>2. CASE Files!Upload
    <2>1. PICK w \in Handlers :
             \/ \E v \in Names, c \in Contents : \E hash \in {c, None} : Files!BeginVideo(w, v, c, hash)
             \/ Files!Refuse(w) \/ Files!CacheHit(w) \/ Files!CacheMiss(w) \/ Files!UploadVideo(w) \/ Files!InsertVideo(w)
             \/ Files!InsertVideoFails(w)
             \/ (\E v \in Names : Files!BeginImage(w, v)) \/ Files!UploadImage(w) \/ Files!InsertImage(w)
             \/ Files!InsertImageFails(w)
      BY <1>2 DEF Files!Upload
    <2>2. CASE \E v \in Names, c \in Contents : \E hash \in {c, None} : Files!BeginVideo(w, v, c, hash)
      BY <2>2, BeginsOK
    <2>3. CASE \E v \in Names : Files!BeginImage(w, v)
      BY <2>3, BeginsOK
    <2> QED
      BY <2>1, <2>2, <2>3, UploadsGoOn, RowEntersOK
  <1>3. CASE Files!Service
    BY <1>3, ServiceOK DEF Files!Service
  <1>4. CASE Files!Status
    BY <1>4, BeginsOK, StatusOK DEF Files!Status
  <1>5. CASE Files!Later \/ Files!SweepVideos \/ Files!Crash
    BY <1>5, LaterOK, SweepOK, CrashOK
  <1>6. CASE \/ \E file \in Names : Files!DestroySwept(file)
             \/ \E ids \in SUBSET Names : Files!AttachImages(ids) \/ Files!DeleteSession(ids)
    BY <1>6, DestroyOK, AttachOK, DeleteSessionOK
  <1> QED
    BY <1>1, <1>2, <1>3, <1>4, <1>5, <1>6 DEF Files!Next

FilesSide == side = "files" => FilesInv

LEMMA FilesSideHolds == AssistantSpec => []FilesSide
  <1>1. AssistantInit => FilesSide
    BY FilesStart DEF AssistantInit, FilesSide
  <1>2. FilesSide /\ [AssistantNext]_assistantVars => FilesSide'
    <2> SUFFICES ASSUME FilesSide, [AssistantNext]_assistantVars, side' = "files" PROVE FilesInv'
      BY DEF FilesSide
    <2>1. side = "files" /\ [Files!Next]_(Files!vars)
      BY DEF AssistantNext, assistantVars, fileVars, Files!vars, Files!imageVars, Files!serviceVars, Files!history
    <2> QED
      BY <2>1, FilesStep DEF FilesSide
  <1> QED
    BY <1>1, <1>2, PTL DEF AssistantSpec

(* A video that is done has the analysis of what it shows, though it may   *)
(* come from an earlier upload or after the time-out (Remember, SaveAnswer *)
(* of checkVideoProcessingResult); the videos of a day are within the      *)
(* quota read before the upload, but for uploads that overlapped, for      *)
(* answers after an error and for videos whose session was deleted; and no *)
(* file stays in the store that no row, handler or sweep names, but for    *)
(* those a failure lost and those of deleted sessions (DeleteSession).     *)
THEOREM AttachmentsAreAlwaysKept == AssistantSpec => []AttachmentsAreKept
  <1>1. FilesSide => AttachmentsAreKept
    <2> SUFFICES ASSUME FilesSide, side = "files"
                 PROVE  Files!ContextIsOfTheVideo /\ Files!VideosWithinQuota /\ Files!FilesAreNamed
      BY DEF AttachmentsAreKept
    <2>1. FilesInv
      BY DEF FilesSide
    <2>2. Files!ContextIsOfTheVideo
      BY <2>1 DEF FilesInv, RowsOK, RowOK, Files!ContextIsOfTheVideo, Files!Ready
    <2>3. Files!VideosWithinQuota
      <3>1. {v \in Files!Rows : videos[v].status # "error" /\ videos[v].age < 2} = CountedToday
        BY DEF CountedToday, Files!Counts
      <3>2. ~overlap /\ ~late => Files!Used <= VideoLimit
        BY <2>1 DEF FilesInv, QuotaOK
      <3> QED
        BY <3>1, <3>2, UsedType, FilesCount DEF Files!VideosWithinQuota
    <2>4. Files!FilesAreNamed
      <3> SUFFICES ASSUME NEW f \in files \ lost
                   PROVE  \/ f \in {videos[v].file : v \in Files!Rows}
                          \/ f \in {v \in Names : images[v] # None}
                          \/ f \in {h[w].video : w \in Handlers} \/ f \in sweeping
        BY DEF Files!FilesAreNamed
      <3>1. Named(f) /\ f \in Names
        BY <2>1 DEF FilesInv, NamedOK, Files!TypeOK
      <3> QED
        BY <3>1 DEF Named
    <2> QED
      BY <2>2, <2>3, <2>4
  <1> QED
    BY <1>1, FilesSideHolds, PTL

-----------------------------------------------------------------------------
(* The session.                                                            *)

LEMMA LeastNumber ==
  ASSUME NEW T \in SUBSET Nat, T # {}
  PROVE  \E n \in T : \A m \in T : n <= m
  <1> DEFINE Below == {pair \in Nat \X Nat : pair[1] < pair[2]}
  <1>1. IsWellFoundedOn(Below, Nat)
    BY NatLessThanWellFounded DEF OpToRel
  <1> HIDE DEF Below
  <1>2. PICK n \in T : \A m \in T : <<m, n>> \notin Below
    BY <1>1, WFMin
  <1>3. \A m \in T : ~(m < n)
    BY <1>2 DEF Below
  <1> QED
    BY <1>2, <1>3

NoPairs == [asked |-> None, pairs |-> <<>>]

(* The pairing of the first messages, up to a number of them.              *)
PairsUpTo(talk, f, k) ==
    f = [n \in 0..k |-> IF n = 0 THEN NoPairs ELSE Session!Paired(f[n - 1], talk[n])]

LEMMA PairingExists ==
  ASSUME NEW talk
  PROVE  \A k \in Nat : \E f : PairsUpTo(talk, f, k)
  <1> DEFINE Without == {k \in Nat : ~\E f : PairsUpTo(talk, f, k)}
  <1> SUFFICES ASSUME Without # {} PROVE FALSE
    OBVIOUS
  <1>1. PICK k \in Nat : k \in Without /\ \A m \in Without : k <= m
    BY LeastNumber
  <1>2. CASE k = 0
    <2>1. PairsUpTo(talk, [n \in 0..0 |-> NoPairs], 0)
      BY DEF PairsUpTo
    <2> QED
      BY <1>1, <1>2, <2>1
  <1>3. CASE k # 0
    <2>1. k - 1 \in Nat /\ k - 1 \notin Without
      BY <1>1, <1>3
    <2>2. PICK f : PairsUpTo(talk, f, k - 1)
      BY <2>1
    <2> DEFINE last == Session!Paired(f[k - 1], talk[k])
               g == [n \in 0..k |-> IF n = k THEN last ELSE f[n]]
    <2>3. f = [n \in 0..k - 1 |-> IF n = 0 THEN NoPairs ELSE Session!Paired(f[n - 1], talk[n])]
      BY <2>2 DEF PairsUpTo
    <2>4. \A n \in 0..k - 1 : g[n] = f[n] /\ n # k /\ n \in 0..k
      BY <1>1, <1>3
    <2>5. \A n \in 0..k : g[n] = IF n = 0 THEN NoPairs ELSE Session!Paired(g[n - 1], talk[n])
      <3> SUFFICES ASSUME NEW n \in 0..k
                   PROVE  g[n] = IF n = 0 THEN NoPairs ELSE Session!Paired(g[n - 1], talk[n])
        OBVIOUS
      <3>1. CASE n = k
        <4>1. g[k - 1] = f[k - 1] /\ g[k] = last
          BY <1>1, <1>3, <2>4
        <4> QED
          BY <1>3, <3>1, <4>1
      <3>2. CASE n # k
        <4>1. n \in 0..k - 1
          BY <1>1, <3>2
        <4>2. f[n] = IF n = 0 THEN NoPairs ELSE Session!Paired(f[n - 1], talk[n])
          BY <2>3, <4>1
        <4>3. n # 0 => n - 1 \in 0..k - 1
          BY <4>1, <1>1
        <4> QED
          BY <2>4, <4>1, <4>2, <4>3
      <3> QED
        BY <3>1, <3>2
    <2>6. g = [n \in 0..k |-> g[n]]
      OBVIOUS
    <2> HIDE DEF g
    <2>7. PairsUpTo(talk, g, k)
      BY <2>5, <2>6 DEF PairsUpTo
    <2> QED
      BY <1>1, <2>7
  <1> QED
    BY <1>2, <1>3

LEMMA PairingIs ==
  ASSUME NEW talk, Len(talk) \in Nat
  PROVE  LET f == Session!Pairing(talk)
         IN  /\ f[0] = NoPairs
             /\ \A n \in 1..Len(talk) : f[n] = Session!Paired(f[n - 1], talk[n])
  <1> DEFINE k == Len(talk)
  <1>1. Session!Pairing(talk) =
           CHOOSE f : f = [n \in 0..k |-> IF n = 0 THEN [asked |-> None, pairs |-> <<>>]
                                          ELSE Session!Paired(f[n - 1], talk[n])]
    BY DEF Session!Pairing
  <1>2. PICK f : PairsUpTo(talk, f, k)
    BY PairingExists
  <1>3. PairsUpTo(talk, Session!Pairing(talk), k)
    BY <1>1, <1>2 DEF PairsUpTo, NoPairs
  <1> DEFINE g == Session!Pairing(talk)
  <1>4. g = [n \in 0..k |-> IF n = 0 THEN NoPairs ELSE Session!Paired(g[n - 1], talk[n])]
    BY <1>3 DEF PairsUpTo
  <1> HIDE DEF g
  <1>5. g[0] = NoPairs /\ \A n \in 1..k : g[n] = Session!Paired(g[n - 1], talk[n])
    BY <1>4
  <1> QED
    BY <1>5 DEF g

LEMMA SessionConstants ==
    /\ KeptMessages \in Nat \ {0} /\ KeptPairs \in Nat \ {0} /\ TierPairs \in Nat \ {0}
    /\ Lanes \in Nat /\ MaxTasks \in Nat /\ MaxFaults \in Nat /\ None \notin Names
  BY AssistantAssumption DEF Session!ChatAssumption

LEMMA NewestIs ==
  ASSUME NEW S, NEW seq \in Seq(S), NEW n \in Nat \ {0}
  PROVE  LET new == Session!Newest(seq, n)
         IN  /\ new \in Seq(S) /\ Len(new) \in Nat /\ Len(new) <= n
             /\ \E d \in Nat : /\ Len(new) = Len(seq) - d /\ (seq # <<>> => d < Len(seq))
                               /\ \A i \in 1..Len(new) : i + d \in 1..Len(seq) /\ new[i] = seq[i + d]
  <1> DEFINE new == Session!Newest(seq, n)
  <1>1. CASE Len(seq) > n
    <2> DEFINE d == Len(seq) - n
    <2>1. new = SubSeq(seq, d + 1, Len(seq)) /\ d \in Nat /\ Len(seq) \in Nat /\ d + 1 \in 1..Len(seq)
      BY <1>1 DEF Session!Newest
    <2>2. new \in Seq(S) /\ Len(new) = Len(seq) - d /\ \A i \in 1..Len(new) : new[i] = seq[i + d]
      BY <2>1
    <2>3. \A i \in 1..Len(new) : i + d \in 1..Len(seq)
      BY <2>1, <2>2
    <2>4. Len(new) \in Nat /\ Len(new) <= n /\ (seq # <<>> => d < Len(seq))
      BY <2>1, <2>2
    <2> HIDE DEF d, new
    <2> QED
      BY <2>1, <2>2, <2>3, <2>4 DEF new
  <1>2. CASE ~(Len(seq) > n)
    <2>1. new = SubSeq(seq, 1, Len(seq)) /\ Len(seq) \in Nat
      BY <1>2 DEF Session!Newest
    <2>2. new = seq
      BY <2>1
    <2>3. Len(new) = Len(seq) - 0 /\ \A i \in 1..Len(new) : i + 0 \in 1..Len(seq) /\ new[i] = seq[i + 0]
      BY <2>1, <2>2
    <2>4. (seq # <<>> => 0 < Len(seq)) /\ new \in Seq(S) /\ Len(new) \in Nat /\ Len(new) <= n /\ 0 \in Nat
      BY <1>2, <2>1, <2>2
    <2> HIDE DEF new
    <2> QED
      BY <2>3, <2>4 DEF new
  <1> QED
    BY <1>1, <1>2

Message == Session!Message
Pair == [q : Names, a : Names]

Mentions(talk, t) == \E i \in 1..Len(talk) : talk[i].turn = t

(* Rows as lone turns write them: nothing is there twice, and an answer    *)
(* stands behind its question, unless that was cut off.                    *)
Honest(talk) ==
    /\ \A i, j \in 1..Len(talk) :
          i # j => talk[i].turn # talk[j].turn \/ talk[i].role # talk[j].role
    /\ \A i \in 2..Len(talk) : talk[i].role = "assistant" =>
          talk[i - 1].role = "user" /\ talk[i - 1].turn = talk[i].turn

(* Pairs as they should be.                                                *)
Matched(pairs) ==
    /\ \A i \in 1..Len(pairs) : pairs[i].q = pairs[i].a
    /\ \A i, j \in 1..Len(pairs) : i # j => pairs[i].q # pairs[j].q

LEMMA CutIsHonest ==
  ASSUME NEW talk \in Seq(Message), Honest(talk), NEW n \in Nat \ {0}
  PROVE  Honest(Session!Newest(talk, n))
  <1> DEFINE new == Session!Newest(talk, n)
  <1>1. new \in Seq(Message) /\ Len(new) \in Nat
    BY NewestIs
  <1>2. PICK d \in Nat : /\ Len(new) = Len(talk) - d
                         /\ \A i \in 1..Len(new) : i + d \in 1..Len(talk) /\ new[i] = talk[i + d]
    BY NewestIs
  <1> HIDE DEF new
  <1>3. \A i, j \in 1..Len(new) : i # j => new[i].turn # new[j].turn \/ new[i].role # new[j].role
    <2>1. \A i, j \in 1..Len(new) : i # j => i + d # j + d
      BY <1>1, <1>2
    <2> QED
      BY <1>2, <2>1 DEF Honest
  <1>4. \A i \in 2..Len(new) : new[i].role = "assistant" =>
            new[i - 1].role = "user" /\ new[i - 1].turn = new[i].turn
    <2> SUFFICES ASSUME NEW i \in 2..Len(new), new[i].role = "assistant"
                 PROVE  new[i - 1].role = "user" /\ new[i - 1].turn = new[i].turn
      OBVIOUS
    <2>1. i \in 1..Len(new) /\ i - 1 \in 1..Len(new)
      BY <1>1
    <2>2. new[i] = talk[i + d] /\ new[i - 1] = talk[(i + d) - 1]
      <3>1. (i - 1) + d = (i + d) - 1
        BY <1>1, <1>2
      <3>2. new[i - 1] = talk[(i - 1) + d]
        BY <1>2, <2>1
      <3> QED
        BY <1>2, <2>1, <3>1, <3>2
    <2>3. i + d \in 2..Len(talk)
      BY <1>1, <1>2, <2>1
    <2> QED
      BY <2>2, <2>3 DEF Honest
  <1> QED
    BY <1>3, <1>4 DEF Honest, new

LEMMA CutIsMatched ==
  ASSUME NEW pairs \in Seq(Pair), Matched(pairs), NEW n \in Nat \ {0}
  PROVE  Matched(Session!Newest(pairs, n))
  <1> DEFINE new == Session!Newest(pairs, n)
  <1>1. new \in Seq(Pair) /\ Len(new) \in Nat
    BY NewestIs
  <1>2. PICK d \in Nat : /\ Len(new) = Len(pairs) - d
                         /\ \A i \in 1..Len(new) : i + d \in 1..Len(pairs) /\ new[i] = pairs[i + d]
    BY NewestIs
  <1> HIDE DEF new
  <1>3. Matched(new)
    <2>1. \A i, j \in 1..Len(new) : i # j => i + d # j + d
      BY <1>1, <1>2
    <2>2. \A i \in 1..Len(new) : new[i].q = new[i].a
      BY <1>2 DEF Matched
    <2>3. \A i, j \in 1..Len(new) : i # j => new[i].q # new[j].q
      BY <1>2, <2>1 DEF Matched
    <2> QED
      BY <2>2, <2>3 DEF Matched
  <1> QED
    BY <1>3 DEF new

LEMMA AppendIs ==
  ASSUME NEW S, NEW seq \in Seq(S), NEW x \in S
  PROVE  /\ Append(seq, x) \in Seq(S) /\ Len(Append(seq, x)) = Len(seq) + 1 /\ Len(seq) \in Nat
         /\ Append(seq, x)[Len(seq) + 1] = x
         /\ \A i \in 1..Len(seq) : Append(seq, x)[i] = seq[i]
         /\ \A i \in 1..Len(seq) + 1 : i \in 1..Len(seq) \/ i = Len(seq) + 1
  OBVIOUS

LEMMA AppendIsHonest ==
  ASSUME NEW talk \in Seq(Message), Honest(talk), NEW m \in Message,
         \A i \in 1..Len(talk) : talk[i].turn = m.turn => talk[i].role # m.role,
         m.role = "assistant" /\ talk # <<>> =>
             talk[Len(talk)].role = "user" /\ talk[Len(talk)].turn = m.turn
  PROVE  Honest(Append(talk, m))
  <1> DEFINE new == Append(talk, m)
             n == Len(talk)
  <1>1. /\ Len(new) = n + 1 /\ n \in Nat /\ new[n + 1] = m
        /\ \A i \in 1..n : new[i] = talk[i]
        /\ \A i \in 1..n + 1 : i \in 1..n \/ i = n + 1
    BY AppendIs
  <1>2. talk # <<>> <=> n # 0
    OBVIOUS
  <1> HIDE DEF new
  <1>3. \A i, j \in 1..n + 1 : i # j => new[i].turn # new[j].turn \/ new[i].role # new[j].role
    <2> SUFFICES ASSUME NEW i \in 1..n + 1, NEW j \in 1..n + 1, i # j
                 PROVE  new[i].turn # new[j].turn \/ new[i].role # new[j].role
      OBVIOUS
    <2>1. CASE i \in 1..n /\ j \in 1..n
      BY <1>1, <2>1 DEF Honest
    <2>2. CASE i = n + 1
      BY <1>1, <2>2
    <2>3. CASE j = n + 1
      BY <1>1, <2>3
    <2> QED
      BY <1>1, <2>1, <2>2, <2>3
  <1>4. \A i \in 2..n + 1 : new[i].role = "assistant" => new[i - 1].role = "user" /\ new[i - 1].turn = new[i].turn
    <2> SUFFICES ASSUME NEW i \in 2..n + 1, new[i].role = "assistant"
                 PROVE  new[i - 1].role = "user" /\ new[i - 1].turn = new[i].turn
      OBVIOUS
    <2>1. CASE i = n + 1
      <3>1. i - 1 = n /\ n \in 1..n /\ talk # <<>>
        BY <1>1, <1>2, <2>1
      <3> QED
        BY <1>1, <2>1, <3>1
    <2>2. CASE i # n + 1
      <3>1. i \in 2..n /\ i \in 1..n /\ i - 1 \in 1..n
        BY <1>1, <2>2
      <3> QED
        BY <1>1, <3>1 DEF Honest
    <2> QED
      BY <2>1, <2>2
  <1> HIDE DEF n
  <1> QED
    BY <1>1, <1>3, <1>4 DEF Honest, new

-----------------------------------------------------------------------------
(* What the pairing of messages makes.                                     *)

Accumulator == [asked : Names \cup {None}, pairs : Seq(Pair)]

LEMMA PairedIs ==
  ASSUME NEW acc \in Accumulator, NEW m \in Message
  PROVE  /\ Session!Paired(acc, m) \in Accumulator
         /\ m.deleted => Session!Paired(acc, m).asked = None /\ Session!Paired(acc, m).pairs = acc.pairs
         /\ ~m.deleted /\ m.role = "user" =>
               Session!Paired(acc, m).asked = m.turn /\ Session!Paired(acc, m).pairs = acc.pairs
         /\ ~m.deleted /\ m.role # "user" /\ acc.asked = None => Session!Paired(acc, m) = acc
         /\ ~m.deleted /\ m.role # "user" /\ acc.asked # None =>
               /\ Session!Paired(acc, m).asked = None
               /\ Session!Paired(acc, m).pairs = Append(acc.pairs, [q |-> acc.asked, a |-> m.turn])
  <1>1. m.turn \in Names /\ acc.asked \in Names \cup {None} /\ acc.pairs \in Seq(Pair)
    BY DEF Message, Session!Message, Accumulator
  <1>2. acc.asked # None => Append(acc.pairs, [q |-> acc.asked, a |-> m.turn]) \in Seq(Pair)
    <2> SUFFICES ASSUME acc.asked # None PROVE Append(acc.pairs, [q |-> acc.asked, a |-> m.turn]) \in Seq(Pair)
      OBVIOUS
    <2>1. [q |-> acc.asked, a |-> m.turn] \in Pair
      BY <1>1 DEF Pair
    <2> QED
      BY <1>1, <2>1, AppendIs
  <1> QED
    BY <1>1, <1>2 DEF Session!Paired, Accumulator

(* A question the pairs may speak of: with its answer behind it.           *)
AnsweredAt(talk, i) ==
    /\ i \in 2..Len(talk) /\ talk[i].role # "user" /\ ~talk[i].deleted
    /\ talk[i - 1].role = "user" /\ ~talk[i - 1].deleted

PairsSoFar(talk, acc, n) ==
    /\ acc \in Accumulator
    /\ acc.asked # None => n \in 1..Len(talk) /\ talk[n].turn = acc.asked
                           /\ talk[n].role = "user" /\ ~talk[n].deleted
    /\ \A p \in 1..Len(acc.pairs) : \E i \in 1..n :
          /\ AnsweredAt(talk, i)
          /\ acc.pairs[p].q = talk[i - 1].turn /\ acc.pairs[p].a = talk[i].turn
    /\ Honest(talk) => Matched(acc.pairs)

LEMMA PairsGoOn ==
  ASSUME NEW talk \in Seq(Message), NEW n \in 1..Len(talk), NEW acc, PairsSoFar(talk, acc, n - 1)
  PROVE  PairsSoFar(talk, Session!Paired(acc, talk[n]), n)
  <1> DEFINE m == talk[n]
             new == Session!Paired(acc, m)
  <1>1. /\ m \in Message /\ acc \in Accumulator /\ n \in Nat /\ Len(talk) \in Nat /\ n - 1 \in Nat
        /\ m.role \in {"user", "assistant"}
    <2>1. m \in Message
      OBVIOUS
    <2> HIDE DEF m
    <2> QED
      BY <2>1 DEF PairsSoFar, Message, Session!Message
  <1>2. \A i \in 1..n - 1 : i \in 1..n
    BY <1>1
  <1> HIDE DEF m
  <1>3. CASE m.deleted \/ m.role = "user" \/ acc.asked = None
    <2>1. new.pairs = acc.pairs /\ new \in Accumulator
          /\ (new.asked # None => ~m.deleted /\ m.role = "user" /\ new.asked = m.turn)
      BY <1>1, <1>3, PairedIs
    <2> HIDE DEF new
    <2>2. new.asked # None => n \in 1..Len(talk) /\ talk[n].turn = new.asked
                              /\ talk[n].role = "user" /\ ~talk[n].deleted
      BY <2>1 DEF m
    <2>3. \A p \in 1..Len(new.pairs) : \E i \in 1..n :
             /\ AnsweredAt(talk, i)
             /\ new.pairs[p].q = talk[i - 1].turn /\ new.pairs[p].a = talk[i].turn
      BY <1>2, <2>1 DEF PairsSoFar
    <2>4. Honest(talk) => Matched(new.pairs)
      BY <2>1 DEF PairsSoFar
    <2>5. PairsSoFar(talk, new, n)
      BY <2>1, <2>2, <2>3, <2>4 DEF PairsSoFar
    <2> QED
      BY <2>5 DEF new, m
  <1>4. CASE ~m.deleted /\ m.role # "user" /\ acc.asked # None
    <2> DEFINE pair == [q |-> acc.asked, a |-> m.turn]
               k == Len(acc.pairs)
    <2>1. new \in Accumulator /\ new.asked = None /\ new.pairs = Append(acc.pairs, pair)
      BY <1>1, <1>4, PairedIs
    <2>2. /\ acc.asked \in Names /\ m.turn \in Names /\ acc.pairs \in Seq(Pair) /\ pair \in Pair
      BY <1>1, <1>4 DEF Accumulator, Message, Session!Message, Pair
    <2>3. /\ Len(new.pairs) = k + 1 /\ k \in Nat /\ new.pairs[k + 1] = pair
          /\ \A p \in 1..k : new.pairs[p] = acc.pairs[p]
          /\ \A p \in 1..k + 1 : p \in 1..k \/ p = k + 1
      BY <2>1, <2>2, AppendIs
    <2>4. /\ n - 1 \in 1..Len(talk) /\ talk[n - 1].turn = acc.asked
          /\ talk[n - 1].role = "user" /\ ~talk[n - 1].deleted
      BY <1>4 DEF PairsSoFar
    <2>5. AnsweredAt(talk, n) /\ pair.q = talk[n - 1].turn /\ pair.a = talk[n].turn /\ n \in 1..n
      BY <1>1, <1>4, <2>4 DEF AnsweredAt, m
    <2> HIDE DEF new, pair, k
    <2>6. \A p \in 1..k + 1 : \E i \in 1..n :
             /\ AnsweredAt(talk, i)
             /\ new.pairs[p].q = talk[i - 1].turn /\ new.pairs[p].a = talk[i].turn
      <3> SUFFICES ASSUME NEW p \in 1..k + 1
                   PROVE  \E i \in 1..n : /\ AnsweredAt(talk, i)
                                          /\ new.pairs[p].q = talk[i - 1].turn /\ new.pairs[p].a = talk[i].turn
        OBVIOUS
      <3>1. CASE p \in 1..k
        <4>1. PICK i \in 1..n - 1 : /\ AnsweredAt(talk, i)
                                    /\ acc.pairs[p].q = talk[i - 1].turn /\ acc.pairs[p].a = talk[i].turn
          BY <3>1 DEF PairsSoFar, k
        <4> QED
          BY <1>2, <2>3, <3>1, <4>1
      <3>2. CASE p = k + 1
        BY <2>3, <2>5, <3>2
      <3> QED
        BY <2>3, <3>1, <3>2
    <2>7. ASSUME Honest(talk) PROVE Matched(new.pairs)
      <3>1. Matched(acc.pairs)
        BY <2>7 DEF PairsSoFar
      <3>2. pair.q = pair.a
        <4>1. n \in 2..Len(talk) /\ talk[n].role = "assistant"
          BY <1>1, <1>4, <2>4 DEF m
        <4> QED
          BY <2>5, <2>7, <4>1 DEF Honest
      <3>3. \A p \in 1..k : acc.pairs[p].q # pair.q
        <4> SUFFICES ASSUME NEW p \in 1..k, acc.pairs[p].q = pair.q PROVE FALSE
          OBVIOUS
        <4>1. PICK i \in 1..n - 1 : AnsweredAt(talk, i) /\ acc.pairs[p].q = talk[i - 1].turn
          BY DEF PairsSoFar, k
        <4>2. i - 1 \in 1..Len(talk) /\ i - 1 # n - 1 /\ talk[i - 1].role = "user"
          BY <1>1, <4>1 DEF AnsweredAt
        <4>3. talk[i - 1].turn = talk[n - 1].turn
          BY <2>5, <4>1
        <4> QED
          BY <2>4, <2>7, <4>2, <4>3 DEF Honest
      <3>4. \A p \in 1..k + 1 : new.pairs[p].q = new.pairs[p].a
        BY <2>3, <3>1, <3>2 DEF Matched, k
      <3>5. \A p, r \in 1..k + 1 : p # r => new.pairs[p].q # new.pairs[r].q
        <4> SUFFICES ASSUME NEW p \in 1..k + 1, NEW r \in 1..k + 1, p # r PROVE new.pairs[p].q # new.pairs[r].q
          OBVIOUS
        <4>1. CASE p \in 1..k /\ r \in 1..k
          BY <2>3, <3>1, <4>1 DEF Matched, k
        <4>2. CASE p = k + 1
          BY <2>3, <3>3, <4>2
        <4>3. CASE r = k + 1
          BY <2>3, <3>3, <4>3
        <4> QED
          BY <2>3, <4>1, <4>2, <4>3
      <3> QED
        BY <2>3, <3>4, <3>5 DEF Matched
    <2>8. PairsSoFar(talk, new, n)
      BY <2>1, <2>3, <2>6, <2>7 DEF PairsSoFar
    <2> QED
      BY <2>8 DEF new, m
  <1> QED
    BY <1>1, <1>3, <1>4

(* Induction over the messages.                                            *)
LEMMA PairingIsRight ==
  ASSUME NEW talk \in Seq(Message)
  PROVE  PairsSoFar(talk, Session!Pairing(talk)[Len(talk)], Len(talk))
  <1> DEFINE f == Session!Pairing(talk)
             Wrong == {n \in 0..Len(talk) : ~PairsSoFar(talk, f[n], n)}
  <1>1. Len(talk) \in Nat
    OBVIOUS
  <1>2. f[0] = NoPairs /\ \A n \in 1..Len(talk) : f[n] = Session!Paired(f[n - 1], talk[n])
    BY <1>1, PairingIs
  <1> HIDE DEF f
  <1>3. Wrong = {}
    <2> SUFFICES ASSUME Wrong # {} PROVE FALSE
      OBVIOUS
    <2>1. Wrong \in SUBSET Nat
      BY <1>1
    <2>2. PICK n \in Wrong : \A m \in Wrong : n <= m
      BY <2>1, LeastNumber
    <2>3. n # 0
      <3>1. PairsSoFar(talk, NoPairs, 0)
        <4>1. NoPairs \in Accumulator /\ NoPairs.asked = None /\ NoPairs.pairs = <<>> /\ Len(NoPairs.pairs) = 0
          BY DEF NoPairs, Accumulator
        <4> QED
          BY <4>1 DEF PairsSoFar, Matched
      <3> QED
        BY <1>2, <2>2, <3>1
    <2>4. n \in 1..Len(talk) /\ n - 1 \in 0..Len(talk) /\ ~(n <= n - 1)
      BY <1>1, <2>2, <2>3
    <2>5. PairsSoFar(talk, f[n - 1], n - 1)
      BY <2>2, <2>4
    <2>6. PairsSoFar(talk, f[n], n)
      BY <1>2, <2>4, <2>5, PairsGoOn
    <2> QED
      BY <2>2, <2>6
  <1>4. PairsSoFar(talk, f[Len(talk)], Len(talk))
    BY <1>1, <1>3
  <1> QED
    BY <1>4 DEF f

(* What the list is filled with.                                           *)
LEMMA PairsAre ==
  ASSUME NEW talk \in Seq(Message)
  PROVE  LET pairs == Session!PairsOf(talk)
         IN  /\ pairs \in Seq(Pair)
             /\ \A p \in 1..Len(pairs) : \E i \in 1..Len(talk) :
                   /\ AnsweredAt(talk, i)
                   /\ pairs[p].q = talk[i - 1].turn /\ pairs[p].a = talk[i].turn
             /\ Honest(talk) => Matched(pairs)
  <1> DEFINE acc == Session!Pairing(talk)[Len(talk)]
             pairs == Session!PairsOf(talk)
  <1>1. PairsSoFar(talk, acc, Len(talk)) /\ KeptPairs \in Nat \ {0}
    BY PairingIsRight, SessionConstants
  <1>2. pairs = Session!Newest(acc.pairs, KeptPairs)
    BY DEF Session!PairsOf
  <1> HIDE DEF acc, pairs
  <1>3. acc.pairs \in Seq(Pair)
    BY <1>1 DEF PairsSoFar, Accumulator
  <1>4. pairs \in Seq(Pair)
    BY <1>1, <1>2, <1>3, NewestIs
  <1>5. \A p \in 1..Len(pairs) : \E i \in 1..Len(talk) :
           /\ AnsweredAt(talk, i)
           /\ pairs[p].q = talk[i - 1].turn /\ pairs[p].a = talk[i].turn
    <2>1. \A p \in 1..Len(pairs) : \E r \in 1..Len(acc.pairs) : pairs[p] = acc.pairs[r]
      <3> DEFINE all == acc.pairs
      <3>1. all \in Seq(Pair)
        BY <1>3
      <3> HIDE DEF all
      <3>2. \E d \in Nat : \A p \in 1..Len(Session!Newest(all, KeptPairs)) :
               p + d \in 1..Len(all) /\ Session!Newest(all, KeptPairs)[p] = all[p + d]
        BY <1>1, <3>1, NewestIs
      <3> QED
        BY <1>2, <3>2 DEF all
    <2>2. \A r \in 1..Len(acc.pairs) : \E i \in 1..Len(talk) :
              /\ AnsweredAt(talk, i)
              /\ acc.pairs[r].q = talk[i - 1].turn /\ acc.pairs[r].a = talk[i].turn
      BY <1>1 DEF PairsSoFar
    <2> TAKE p \in 1..Len(pairs)
    <2>3. PICK r \in 1..Len(acc.pairs) : pairs[p] = acc.pairs[r]
      BY <2>1
    <2>4. PICK i \in 1..Len(talk) : /\ AnsweredAt(talk, i)
                                    /\ acc.pairs[r].q = talk[i - 1].turn
                                    /\ acc.pairs[r].a = talk[i].turn
      BY <2>2
    <2>5. pairs[p].q = talk[i - 1].turn /\ pairs[p].a = talk[i].turn
      BY <2>3, <2>4
    <2> QED
      BY <2>4, <2>5
  <1>6. Honest(talk) => Matched(pairs)
    BY <1>1, <1>2, <1>3, CutIsMatched DEF PairsSoFar
  <1> QED
    BY <1>4, <1>5, <1>6 DEF pairs

-----------------------------------------------------------------------------
(* The types of a session.                                                 *)

TurnStep == {"new", "question", "filter", "search", "ask", "save", "out"}
CallName == {"push", "trim", "expire", "answer", "summary"}
TurnState == [step : TurnStep, calls : Seq(CallName), canned : BOOLEAN, first : BOOLEAN]
TaskStep == {"idle", "hydrate", "clear", "refill", "share"}
TaskState == [step : TaskStep, seen : Seq(Message)]
Title == {"none", "default", "auto", "user"}
SessionRow == [there : BOOLEAN, messages : Seq(Message), count : Nat, title : Title, summary : BOOLEAN]

RowIs(r) == r \in SessionRow /\ Len(r.messages) <= KeptMessages

SessionTypes ==
    /\ scope \in Session!Scopes /\ RowIs(row) /\ list \in Seq(Pair) /\ lives \in BOOLEAN
    /\ turn \in [Names -> TurnState] /\ naming \subseteq Names
    /\ task \in [Handlers -> TaskState] /\ \A k \in Handlers : Len(task[k].seen) <= KeptMessages
    /\ link \in {"none", "open", "closed"} /\ sessionShown \subseteq Names \X {"user", "assistant"}
    /\ taskFaults \in 0..MaxFaults /\ began \in 0..MaxTasks
    /\ born \in BOOLEAN /\ named \in BOOLEAN /\ calm \in BOOLEAN

LEMMA SessionTypesMean == ASSUME SessionTypes PROVE Session!TypeOK
  BY DEF SessionTypes, Session!TypeOK, RowIs, SessionRow, Title, Pair, TurnState, TurnStep, CallName, TaskState,
         TaskStep, Message

-----------------------------------------------------------------------------
(* What a step of a turn is, seen from what it changes.                    *)

AllCalls == {Session!CannedCalls, Session!DocumentCalls, Session!GlobalCalls}

EndsStep(t) == turn[t].step \notin {"save", "out"} /\ Session!EndsTurn(t)
SavesStep(t) ==
    /\ turn[t].step \in {"filter", "search", "ask"}
    /\ \E calls \in AllCalls, canned \in BOOLEAN : Session!SavesTurn(t, calls, canned)
GoesStep(t) ==
    /\ turn[t].step \in {"filter", "search"}
    /\ \E next \in {"search", "ask"}, first \in BOOLEAN : Session!StepsTurn(t, next, first)
EntersStep(t) == turn[t].step = "new" /\ Session!EntersSession(t)
AsksStep(t) ==
    /\ turn[t].step = "question"
    /\ Session!Appends(Session!Question(t)) /\ Session!Goes(t, "filter")
    /\ UNCHANGED <<Session!others, Session!memory>>

LEMMA TurnSteps ==
  ASSUME SessionTypes, NEW t \in Names, Session!Turn(t)
  PROVE  \/ EndsStep(t) \/ SavesStep(t) \/ GoesStep(t) \/ EntersStep(t) \/ AsksStep(t)
         \/ Session!Push(t) \/ Session!TrimList(t) \/ Session!ExpireList(t) \/ Session!SaveAnswer(t)
         \/ Session!Summarize(t) \/ Session!AutoTitle(t)
  <1>1. row.summary \in BOOLEAN
    BY DEF SessionTypes, RowIs, SessionRow
  <1>2. CASE Session!RefuseTurn(t) \/ Session!RefuseAttachments(t) \/ Session!EmbeddingFails(t)
             \/ Session!GlobalEmbeddingFails(t)
    BY <1>2 DEF EndsStep, Session!RefuseTurn, Session!RefuseAttachments, Session!EmbeddingFails,
               Session!GlobalEmbeddingFails, Session!At
  <1>3. CASE Session!OpenTurn(t) \/ Session!OpenGlobalTurn(t)
    BY <1>3 DEF EntersStep, Session!OpenTurn, Session!OpenGlobalTurn, Session!At
  <1>4. CASE Session!SaveQuestion(t) \/ Session!SaveGlobalQuestion(t)
    BY <1>4 DEF AsksStep, Session!SaveQuestion, Session!SaveGlobalQuestion, Session!At
  <1>5. CASE Session!AnswerAtOnce(t) \/ Session!AnswerGlobalAtOnce(t) \/ Session!FindNothing(t)
             \/ Session!FindNothingGlobal(t)
    BY <1>5 DEF SavesStep, AllCalls, Session!AnswerAtOnce, Session!AnswerGlobalAtOnce, Session!FindNothing,
               Session!FindNothingGlobal, Session!At
  <1>6. CASE Session!Recall(t) \/ Session!Found(t) \/ Session!FoundGlobal(t)
    BY <1>6 DEF GoesStep, Session!Recall, Session!Found, Session!FoundGlobal, Session!At
  <1>7. CASE Session!RecallGlobal(t)
    BY <1>1, <1>7 DEF GoesStep, Session!RecallGlobal, Session!At
  <1>8. CASE Session!Ask(t) \/ Session!AskGlobal(t)
    BY <1>8 DEF EndsStep, SavesStep, AllCalls, Session!Ask, Session!AskGlobal, Session!At
  <1> QED
    BY <1>2, <1>3, <1>4, <1>5, <1>6, <1>7, <1>8 DEF Session!Turn

(* The task that begins has messages in hand.                              *)
HydratesStep(k) == \E talk :
    /\ Session!Hydrates(k, talk)
    /\ \/ talk = [i \in DOMAIN row.messages |-> [row.messages[i] EXCEPT !.logged =
                          @ \/ (row.messages[i].role = "assistant" /\ ~row.messages[i].deleted)]]
       \/ talk = [i \in DOMAIN row.messages |-> [row.messages[i] EXCEPT !.logged =
                          @ \/ row.messages[i].role = "assistant"]]

LEMMA TaskSteps ==
  ASSUME NEW k \in Handlers, Session!Task(k)
  PROVE  \/ HydratesStep(k) \/ Session!WriteHydrated(k) \/ Session!EditMessage(k) \/ Session!ClearList(k)
         \/ Session!RefillList(k) \/ Session!ReadToShare(k) \/ Session!WriteLink(k)
  BY DEF Session!Task, HydratesStep, Session!ReadMessages, Session!ReadGlobalMessages

SessionOnly ==
    \/ Session!Creates \/ Session!Renames \/ Session!DeleteSession \/ Session!DeleteGlobalAISession
    \/ Session!ListEnds \/ Session!LinkEnds

LEMMA SessionSteps ==
  ASSUME Session!Next
  PROVE  SessionOnly \/ (\E t \in Names : Session!Turn(t)) \/ (\E k \in Handlers : Session!Task(k))
  BY DEF Session!Next, SessionOnly, Session!CreateSession, Session!CreateGlobalAISession, Session!RenameSession,
         Session!RenameGlobalAISession

(* Same messages, but for the ids of the log.                              *)
SameBut(talk, others) ==
    /\ Len(talk) = Len(others)
    /\ \A i \in 1..Len(others) : /\ talk[i].turn = others[i].turn /\ talk[i].role = others[i].role
                                 /\ talk[i].deleted = others[i].deleted

LEMMA HydratedIs ==
  ASSUME SessionTypes, NEW k \in Handlers, NEW talk, Session!Hydrates(k, talk),
         \/ talk = [i \in DOMAIN row.messages |-> [row.messages[i] EXCEPT !.logged =
                            @ \/ (row.messages[i].role = "assistant" /\ ~row.messages[i].deleted)]]
         \/ talk = [i \in DOMAIN row.messages |-> [row.messages[i] EXCEPT !.logged =
                            @ \/ row.messages[i].role = "assistant"]]
  PROVE  talk \in Seq(Message) /\ SameBut(talk, row.messages) /\ Len(talk) <= KeptMessages
  <1> DEFINE ms == row.messages
             log(i) == talk[i].logged
  <1>1. ms \in Seq(Message) /\ Len(ms) \in Nat /\ Len(ms) <= KeptMessages
    BY DEF SessionTypes, RowIs, SessionRow
  <1> HIDE DEF ms
  <1>2. DOMAIN ms = 1..Len(ms)
    BY <1>1
  <1>3. \A i \in 1..Len(ms) : \E b \in BOOLEAN : talk[i] = [ms[i] EXCEPT !.logged = b]
    <2>1. \A i \in 1..Len(ms) : ms[i].logged \in BOOLEAN /\ ms[i].deleted \in BOOLEAN
      <3>1. \A m \in Message : m.logged \in BOOLEAN /\ m.deleted \in BOOLEAN
        BY DEF Message, Session!Message
      <3>2. \A i \in 1..Len(ms) : ms[i] \in Message
        BY <1>1
      <3> QED
        BY <3>1, <3>2
    <2>2. CASE talk = [i \in DOMAIN ms |-> [ms[i] EXCEPT !.logged =
                                @ \/ (ms[i].role = "assistant" /\ ~ms[i].deleted)]]
      BY <1>2, <2>1, <2>2
    <2>3. CASE talk = [i \in DOMAIN ms |-> [ms[i] EXCEPT !.logged = @ \/ ms[i].role = "assistant"]]
      BY <1>2, <2>1, <2>3
    <2> QED
      BY <2>2, <2>3 DEF ms
  <1>4. \A m \in Message, b \in BOOLEAN :
           /\ [m EXCEPT !.logged = b] \in Message
           /\ [m EXCEPT !.logged = b].turn = m.turn /\ [m EXCEPT !.logged = b].role = m.role
           /\ [m EXCEPT !.logged = b].deleted = m.deleted
    BY DEF Message, Session!Message
  <1>5. \A i \in 1..Len(ms) : ms[i] \in Message
    BY <1>1
  <1>6. \A i \in 1..Len(ms) : /\ talk[i] \in Message /\ talk[i].turn = ms[i].turn
                              /\ talk[i].role = ms[i].role /\ talk[i].deleted = ms[i].deleted
    <2> SUFFICES ASSUME NEW i \in 1..Len(ms)
                 PROVE  /\ talk[i] \in Message /\ talk[i].turn = ms[i].turn
                        /\ talk[i].role = ms[i].role /\ talk[i].deleted = ms[i].deleted
      OBVIOUS
    <2>1. PICK b \in BOOLEAN : talk[i] = [ms[i] EXCEPT !.logged = b]
      BY <1>3
    <2>2. ms[i] \in Message
      BY <1>5
    <2> QED
      BY <1>4, <2>1, <2>2
  <1>7. talk = [i \in 1..Len(ms) |-> talk[i]]
    BY <1>2 DEF ms
  <1>8. talk \in Seq(Message) /\ Len(talk) = Len(ms)
    BY <1>1, <1>6, <1>7
  <1> QED
    BY <1>1, <1>6, <1>8 DEF SameBut, ms

-----------------------------------------------------------------------------
(* What holds of a session.                                                *)

IsBusy(s) == s.step \notin {"new", "out"}
IsNew(s) == s.step \in {"new", "question"}
IsThinking(s) == s.step \in {"filter", "search", "ask"}
Owing(s, c) == s.step = "save" /\ \E i \in 1..Len(s.calls) : s.calls[i] = c
ToAnswer(s) == IsThinking(s) \/ Owing(s, "answer")
ToPush(s) == IsNew(s) \/ IsThinking(s) \/ Owing(s, "push")

(* No call is made twice for one answer.                                   *)
CallsOK(s) == s.step = "save" =>
    /\ s.calls # <<>>
    /\ \A i, j \in 1..Len(s.calls) : i # j => s.calls[i] # s.calls[j]

IsWorking(q) == q.step # "idle"

(* The row is made once, and by the first who needs it; what the user      *)
(* called it stays.                                                        *)
BirthInv ==
    /\ row.there \/ named => born
    /\ \A t \in Names : IsBusy(turn[t]) => born
    /\ \A k \in Handlers : IsWorking(task[k]) => born
    /\ ~row.there => row.messages = <<>>
    /\ named /\ row.there => row.title = "user"

Alone ==
    /\ \A t, u \in Names : IsBusy(turn[t]) /\ IsBusy(turn[u]) => t = u
    /\ \A k, j \in Handlers : IsWorking(task[k]) /\ IsWorking(task[j]) => k = j
    /\ \A t \in Names, k \in Handlers : ~(IsBusy(turn[t]) /\ IsWorking(task[k]))

Listed(pairs, t) == \E i \in 1..Len(pairs) : pairs[i].q = t

(* A question that was not saved yet is nowhere, and one that was not      *)
(* pushed yet is not in the list.                                          *)
Unsaid ==
    \A t \in Names : IsNew(turn[t]) =>
        ~Mentions(row.messages, t) /\ \A k \in Handlers : ~Mentions(task[k].seen, t)
Unlisted == \A t \in Names : ToPush(turn[t]) => ~Listed(list, t)

(* The last thing said is the question of t, which has no answer.          *)
Awaits(talk, t) ==
    /\ Len(talk) # 0
    /\ talk[Len(talk)].turn = t /\ talk[Len(talk)].role = "user"
    /\ \A i \in 1..Len(talk) : talk[i].turn = t => talk[i].role = "user"
Kept(talk, t) == \A i \in 1..Len(talk) : talk[i].turn = t => ~talk[i].deleted

RowIsRight ==
    /\ Honest(row.messages)
    /\ \A t \in Names : ToAnswer(turn[t]) /\ row.there => Awaits(row.messages, t)
    /\ \A t \in Names : IsBusy(turn[t]) => Kept(row.messages, t)

(* What a task has in hand is what the row has.                            *)
InHand(q, r) ==
    /\ q.step = "hydrate" /\ r.there => SameBut(q.seen, r.messages)
    /\ q.step \in {"clear", "refill"} => Honest(q.seen)
    /\ q.step \in {"clear", "refill", "share"} /\ r.there => q.seen = r.messages
TasksAreRight == \A k \in Handlers : InHand(task[k], row)

(* The list tells nothing deleted, unless an edit is about to clear it.    *)
HidesDeleted(pairs, talk) ==
    \A i \in 1..Len(talk) : talk[i].deleted => ~Listed(pairs, talk[i].turn)
ListIsRight ==
    /\ Matched(list)
    /\ \A k \in Handlers : task[k].step = "refill" => list = <<>>
    /\ row.there /\ (\A k \in Handlers : task[k].step # "clear") => HidesDeleted(list, row.messages)

LinkIsRight ==
    link = "open" /\ row.there =>
        \A i \in 1..Len(row.messages) : row.messages[i].deleted =>
            <<row.messages[i].turn, row.messages[i].role>> \notin sessionShown

CalmInv == Alone /\ Unsaid /\ Unlisted /\ RowIsRight /\ TasksAreRight /\ ListIsRight /\ LinkIsRight

SessionInv ==
    /\ SessionTypes /\ BirthInv /\ \A t \in Names : CallsOK(turn[t])
    /\ calm => CalmInv

-----------------------------------------------------------------------------
(* What the calls do to a turn.                                            *)

LEMMA CallsAre ==
  ASSUME NEW calls \in AllCalls
  PROVE  /\ calls \in Seq(CallName) /\ calls # <<>>
         /\ \A i, j \in 1..Len(calls) : i # j => calls[i] # calls[j]
  <1>1. CASE calls = Session!CannedCalls
    <2> DEFINE c == <<"answer", "push", "trim", "expire">>
    <2>1. c \in Seq(CallName) /\ Len(c) = 4 /\ c # <<>>
      BY DEF CallName
    <2>2. \A i, j \in 1..4 : i # j => c[i] # c[j]
      OBVIOUS
    <2>3. calls = c
      BY <1>1 DEF Session!CannedCalls
    <2> HIDE DEF c
    <2> QED
      BY <2>1, <2>2, <2>3
  <1>2. CASE calls = Session!DocumentCalls
    <2> DEFINE c == <<"push", "trim", "expire", "answer">>
    <2>1. c \in Seq(CallName) /\ Len(c) = 4 /\ c # <<>>
      BY DEF CallName
    <2>2. \A i, j \in 1..4 : i # j => c[i] # c[j]
      OBVIOUS
    <2>3. calls = c
      BY <1>2 DEF Session!DocumentCalls
    <2> HIDE DEF c
    <2> QED
      BY <2>1, <2>2, <2>3
  <1>3. CASE calls = Session!GlobalCalls
    <2> DEFINE c == <<"push", "trim", "expire", "answer", "summary">>
    <2>1. c \in Seq(CallName) /\ Len(c) = 5 /\ c # <<>>
      BY DEF CallName
    <2>2. \A i, j \in 1..5 : i # j => c[i] # c[j]
      OBVIOUS
    <2>3. calls = c
      BY <1>3 DEF Session!GlobalCalls
    <2> HIDE DEF c
    <2> QED
      BY <2>1, <2>2, <2>3
  <1> QED
    BY <1>1, <1>2, <1>3 DEF AllCalls

OutTurn == [Session!NewTurn EXCEPT !.step = "out"]

LEMMA OutIs ==
    /\ OutTurn \in TurnState /\ CallsOK(OutTurn)
    /\ ~IsBusy(OutTurn) /\ ~IsNew(OutTurn) /\ ~IsThinking(OutTurn) /\ \A c : ~Owing(OutTurn, c)
    /\ \A t : Session!Ends(t) <=> turn' = [turn EXCEPT ![t] = OutTurn]
  <1>1. Session!NewTurn \in TurnState
    BY DEF Session!NewTurn, TurnState, TurnStep
  <1>2. OutTurn \in TurnState /\ OutTurn.step = "out"
    BY <1>1 DEF OutTurn, TurnState, TurnStep
  <1>3. CallsOK(OutTurn)
    BY <1>2 DEF CallsOK
  <1>4. /\ ~IsBusy(OutTurn) /\ ~IsNew(OutTurn) /\ ~IsThinking(OutTurn) /\ \A c : ~Owing(OutTurn, c)
    BY <1>2 DEF IsBusy, IsNew, IsThinking, Owing
  <1> QED
    BY <1>2, <1>3, <1>4 DEF Session!Ends, OutTurn

(* A turn whose state becomes s.                                           *)
Becomes(t, s) ==
    /\ s \in TurnState /\ CallsOK(s) /\ turn' = [turn EXCEPT ![t] = s]
    /\ turn' \in [Names -> TurnState] /\ turn'[t] = s
    /\ \A u \in Names : u # t => turn'[u] = turn[u]

LEMMA ItBecomes ==
  ASSUME turn \in [Names -> TurnState], NEW t \in Names, NEW s \in TurnState, CallsOK(s),
         turn' = [turn EXCEPT ![t] = s]
  PROVE  Becomes(t, s)
  BY DEF Becomes

(* The state after a call, when the others are still to be made.           *)
HasReturned(old, s, c) ==
    /\ IsBusy(old) /\ ~IsNew(old) /\ ~IsThinking(old) /\ Owing(old, c)
    /\ ~IsNew(s) /\ ~IsThinking(s)
    /\ \A d : Owing(s, d) => Owing(old, d) /\ d # c

LEMMA CallReturns ==
  ASSUME turn \in [Names -> TurnState], NEW t \in Names, CallsOK(turn[t]), NEW c,
         Session!Calls(t, c), Session!Returns(t)
  PROVE  \E s \in TurnState : Becomes(t, s) /\ HasReturned(turn[t], s, c)
  <1> DEFINE old == turn[t]
             calls == old.calls
  <1>1. old \in TurnState /\ calls \in Seq(CallName) /\ calls # <<>> /\ Len(calls) \in Nat
        /\ old.step = "save" /\ Head(calls) = c
    <2>1. old \in TurnState
      OBVIOUS
    <2>2. calls \in Seq(CallName)
      BY <2>1 DEF TurnState
    <2> QED
      BY <2>1, <2>2 DEF Session!Calls
  <1>2. 1 \in 1..Len(calls) /\ calls[1] = c
    BY <1>1
  <1>3. IsBusy(old) /\ ~IsNew(old) /\ ~IsThinking(old) /\ Owing(old, c)
    BY <1>1, <1>2 DEF IsBusy, IsNew, IsThinking, Owing
  <1>4. CASE Len(calls) = 1
    <2>1. Becomes(t, OutTurn)
      BY <1>4, OutIs, ItBecomes DEF Session!Returns
    <2> QED
      BY <1>3, <2>1, OutIs DEF HasReturned
  <1>5. CASE Len(calls) # 1
    <2> DEFINE s == [old EXCEPT !.calls = Tail(calls)]
    <2>1. /\ Tail(calls) \in Seq(CallName) /\ Len(Tail(calls)) = Len(calls) - 1 /\ Tail(calls) # <<>>
          /\ \A i \in 1..Len(Tail(calls)) : Tail(calls)[i] = calls[i + 1] /\ i + 1 \in 1..Len(calls)
      <3>1. \A q \in Seq(CallName) : q # <<>> => Tail(q) \in Seq(CallName) /\ Len(Tail(q)) = Len(q) - 1
        OBVIOUS
      <3>2. \A q \in Seq(CallName) : q # <<>> => \A i \in 1..Len(q) - 1 : Tail(q)[i] = q[i + 1]
        OBVIOUS
      <3> HIDE DEF calls
      <3>3. Len(calls) - 1 # 0 /\ \A i \in 1..Len(calls) - 1 : i + 1 \in 1..Len(calls)
        BY <1>1, <1>5
      <3>4. Tail(calls) # <<>>
        BY <1>1, <3>1, <3>3
      <3> QED
        BY <1>1, <3>1, <3>2, <3>3, <3>4
    <2>2. s \in TurnState /\ s.step = "save" /\ s.calls = Tail(calls)
      BY <1>1, <2>1 DEF TurnState
    <2>3. turn' = [turn EXCEPT ![t] = s]
      BY <1>5 DEF Session!Returns
    <2> HIDE DEF s
    <2>4. CallsOK(s)
      <3>1. \A i, j \in 1..Len(calls) : i # j => calls[i] # calls[j]
        BY <1>1 DEF CallsOK
      <3>2. \A i, j \in 1..Len(Tail(calls)) : i # j => i + 1 # j + 1
        BY <1>1, <2>1
      <3> HIDE DEF calls
      <3> QED
        BY <2>1, <2>2, <3>1, <3>2 DEF CallsOK
    <2>5. Becomes(t, s)
      BY <2>2, <2>3, <2>4, ItBecomes
    <2>6. \A d : Owing(s, d) => Owing(old, d) /\ d # c
      <3>1. \A i, j \in 1..Len(calls) : i # j => calls[i] # calls[j]
        BY <1>1 DEF CallsOK
      <3> SUFFICES ASSUME NEW d, NEW i \in 1..Len(Tail(calls)), Tail(calls)[i] = d
                   PROVE  Owing(old, d) /\ d # c
        BY <2>2 DEF Owing
      <3>2. calls[i + 1] = d /\ i + 1 \in 1..Len(calls) /\ i + 1 # 1
        BY <1>1, <2>1
      <3> QED
        BY <1>1, <1>2, <3>1, <3>2 DEF Owing
    <2>7. ~IsNew(s) /\ ~IsThinking(s)
      BY <2>2 DEF IsNew, IsThinking
    <2> QED
      BY <1>3, <2>2, <2>5, <2>6, <2>7 DEF HasReturned
  <1> QED
    BY <1>4, <1>5

-----------------------------------------------------------------------------
(* Types, and the birth of the row.                                        *)

Basics == SessionTypes /\ BirthInv /\ \A t \in Names : CallsOK(turn[t])

LEMMA FaultsAre ==
  ASSUME SessionTypes, Session!Succeeds \/ Session!Fails
  PROVE  taskFaults' \in 0..MaxFaults /\ calm' \in BOOLEAN /\ (calm' => calm)
  <1>1. taskFaults \in 0..MaxFaults /\ calm \in BOOLEAN /\ MaxFaults \in Nat
    BY SessionConstants DEF SessionTypes
  <1>2. CASE Session!Succeeds
    BY <1>1, <1>2 DEF Session!Succeeds
  <1>3. CASE Session!Fails
    <2>1. taskFaults < MaxFaults /\ taskFaults' = taskFaults + 1 /\ calm' = FALSE
      BY <1>3 DEF Session!Fails
    <2>2. taskFaults' \in 0..MaxFaults
      BY <1>1, <2>1
    <2>3. calm' \in BOOLEAN
      BY <2>1
    <2> QED
      BY <2>1, <2>2, <2>3
  <1> QED
    BY <1>2, <1>3

LEMMA StartsAre == ASSUME SessionTypes, Session!Starts PROVE calm' \in BOOLEAN
  BY DEF SessionTypes, Session!Starts

LEMMA NewRowIs ==
    /\ RowIs(Session!NoRow) /\ ~Session!NoRow.there /\ Session!NoRow.messages = <<>>
    /\ RowIs(Session!NewRow) /\ Session!NewRow.there /\ Session!NewRow.messages = <<>>
  <1>1. Session!NoRow \in SessionRow /\ Session!NoRow.messages = <<>> /\ ~Session!NoRow.there
    BY DEF Session!NoRow, SessionRow, Title
  <1>2. /\ Session!NewRow \in SessionRow /\ Session!NewRow.there
        /\ Session!NewRow.messages = Session!NoRow.messages
    BY <1>1 DEF Session!NewRow, SessionRow, Title
  <1>3. Len(<<>>) = 0 /\ 0 <= KeptMessages
    BY SessionConstants
  <1> QED
    BY <1>1, <1>2, <1>3 DEF RowIs

(* The row with one message more.                                          *)
Said(r, m) == Session!Newest(Append(r.messages, m), KeptMessages)

LEMMA Append1Is ==
  ASSUME SessionTypes, NEW m \in Message
  PROVE  LET r == Session!Append1(m)
         IN  /\ RowIs(r) /\ r.there = row.there /\ r.title = row.title
             /\ r.messages = IF row.there THEN Said(row, m) ELSE row.messages
  <1>1. row \in SessionRow /\ row.messages \in Seq(Message) /\ KeptMessages \in Nat \ {0} /\ row.count \in Nat
        /\ Len(row.messages) <= KeptMessages
    BY SessionConstants DEF SessionTypes, RowIs, SessionRow
  <1>2. Append(row.messages, m) \in Seq(Message)
    BY <1>1, AppendIs
  <1>3. Said(row, m) \in Seq(Message) /\ Len(Said(row, m)) <= KeptMessages
    BY <1>1, <1>2, NewestIs DEF Said
  <1>4. CASE row.there
    <2> DEFINE said == Said(row, m)
               r == [row EXCEPT !.messages = said, !.count = row.count + 1]
    <2>1. Session!Append1(m) = r
      BY <1>4 DEF Session!Append1, Said
    <2>2. said \in Seq(Message) /\ row.count + 1 \in Nat
      BY <1>1, <1>3
    <2> HIDE DEF said
    <2>3. \A c \in Nat : LET q == [row EXCEPT !.messages = said, !.count = c]
                          IN  q \in SessionRow /\ q.there = row.there /\ q.title = row.title /\ q.messages = said
      BY <1>1, <2>2 DEF SessionRow
    <2>4. r \in SessionRow /\ r.there = row.there /\ r.title = row.title /\ r.messages = Said(row, m)
      BY <2>2, <2>3 DEF said
    <2> HIDE DEF r
    <2> QED
      BY <1>3, <1>4, <2>1, <2>4 DEF RowIs
  <1>5. CASE ~row.there
    BY <1>1, <1>5 DEF Session!Append1, RowIs
  <1> QED
    BY <1>4, <1>5

LEMMA AppendsAre ==
  ASSUME Basics, NEW m \in Message, Session!Appends(m)
  PROVE  /\ RowIs(row') /\ row'.there = row.there /\ row'.title = row.title
         /\ ~row.there => row'.messages = row.messages
         /\ taskFaults' \in 0..MaxFaults /\ calm' \in BOOLEAN
         /\ calm' => calm /\ (row.there => row'.messages = Said(row, m))
  <1>1. CASE row' = Session!Append1(m) /\ Session!Succeeds
    BY <1>1, Append1Is, FaultsAre DEF Session!Succeeds, Basics
  <1>2. CASE UNCHANGED row /\ Session!Fails
    BY <1>2, FaultsAre DEF Session!Fails, Basics, SessionTypes
  <1> QED
    BY <1>1, <1>2 DEF Session!Appends

(* What a step of a turn must leave behind.                                *)
LEMMA BasicsGoOn ==
  ASSUME Basics, NEW t \in Names, NEW s, Becomes(t, s), IsBusy(s) => born',
         RowIs(row'), row'.there => born' /\ (named => row'.title = "user"),
         ~row'.there => row'.messages = <<>>,
         list' \in Seq(Pair), lives' \in BOOLEAN, naming' \subseteq Names,
         taskFaults' \in 0..MaxFaults, calm' \in BOOLEAN, born' \in BOOLEAN, born => born',
         UNCHANGED <<scope, task, link, sessionShown, began, named>>
  PROVE  Basics'
  <1>1. SessionTypes'
    BY DEF Basics, SessionTypes, Becomes
  <1>2. BirthInv'
    BY DEF Basics, BirthInv, Becomes
  <1>3. \A u \in Names : CallsOK(turn'[u])
    BY DEF Basics, Becomes
  <1> QED
    BY <1>1, <1>2, <1>3 DEF Basics, CallsOK

LEMMA PlainStepIs ==
  ASSUME Basics, NEW t \in Names, EndsStep(t) \/ SavesStep(t) \/ GoesStep(t)
  PROVE  \E s \in TurnState :
            /\ Becomes(t, s) /\ (IsBusy(s) => IsBusy(turn[t])) /\ ~IsNew(s)
            /\ (ToAnswer(s) => ToAnswer(turn[t])) /\ (ToPush(s) => ToPush(turn[t]))
            /\ UNCHANGED <<Session!others, row, Session!memory, taskFaults, calm>>
  <1>1. turn \in [Names -> TurnState] /\ turn[t] \in TurnState
    BY DEF Basics, SessionTypes
  <1>2. CASE EndsStep(t)
    BY <1>1, <1>2, OutIs, ItBecomes DEF EndsStep, Session!EndsTurn, ToAnswer, ToPush
  <1>3. CASE SavesStep(t)
    <2>1. PICK calls \in AllCalls, canned \in BOOLEAN : Session!SavesTurn(t, calls, canned)
      BY <1>3 DEF SavesStep
    <2> DEFINE s == [step |-> "save", calls |-> calls, canned |-> canned, first |-> TRUE]
    <2>2. s \in TurnState /\ CallsOK(s) /\ ~IsNew(s)
      BY CallsAre DEF TurnState, TurnStep, CallsOK, IsNew
    <2>3. Becomes(t, s)
      BY <1>1, <2>1, <2>2, ItBecomes DEF Session!SavesTurn
    <2>4. IsBusy(turn[t]) /\ ToAnswer(turn[t]) /\ ToPush(turn[t])
      BY <1>3 DEF SavesStep, IsBusy, ToAnswer, ToPush, IsThinking
    <2> QED
      BY <2>1, <2>2, <2>3, <2>4 DEF Session!SavesTurn
  <1>4. CASE GoesStep(t)
    <2>1. PICK step2 \in {"search", "ask"}, first \in BOOLEAN : Session!StepsTurn(t, step2, first)
      BY <1>4 DEF GoesStep
    <2> DEFINE s == [turn[t] EXCEPT !.step = step2, !.first = first]
    <2>2. s \in TurnState /\ s.step = step2
      BY <1>1 DEF TurnState, TurnStep
    <2>3. turn' = [turn EXCEPT ![t] = s]
      BY <2>1 DEF Session!StepsTurn
    <2> HIDE DEF s
    <2>4. CallsOK(s) /\ ~IsNew(s)
      BY <2>2 DEF CallsOK, IsNew
    <2>5. Becomes(t, s)
      BY <1>1, <2>2, <2>3, <2>4, ItBecomes
    <2>6. IsBusy(turn[t]) /\ ToAnswer(turn[t]) /\ ToPush(turn[t])
      BY <1>4 DEF GoesStep, IsBusy, ToAnswer, ToPush, IsThinking
    <2> QED
      BY <2>1, <2>2, <2>4, <2>5, <2>6 DEF Session!StepsTurn
  <1> QED
    BY <1>2, <1>3, <1>4

LEMMA EntersIs ==
  ASSUME Basics, NEW t \in Names, EntersStep(t)
  PROVE  \E s \in TurnState :
            /\ Becomes(t, s) /\ (s.step = "question" \/ s = OutTurn) /\ (IsBusy(s) => born')
            /\ born' \in BOOLEAN /\ (born => born')
            /\ taskFaults' \in 0..MaxFaults /\ calm' \in BOOLEAN
            /\ \/ UNCHANGED row
               \/ row' = Session!NewRow /\ ~row.there /\ ~born /\ born'
            /\ calm' => calm /\ (s = OutTurn \/ Session!Quiet)
            /\ UNCHANGED <<scope, list, lives, naming, task, link, sessionShown, named, began>>
  <1>1. turn \in [Names -> TurnState] /\ turn[t] \in TurnState /\ born \in BOOLEAN
    BY DEF Basics, SessionTypes
  <1>2. UNCHANGED <<scope, list, lives, naming, task, link, sessionShown, named, began>>
    BY DEF EntersStep, Session!EntersSession, Session!memory
  <1> DEFINE s == [turn[t] EXCEPT !.step = "question"]
  <1>3. s \in TurnState /\ s.step = "question"
    BY <1>1 DEF TurnState, TurnStep
  <1>4. Session!Goes(t, "question") => turn' = [turn EXCEPT ![t] = s]
    BY DEF Session!Goes
  <1>5. Session!Starts => calm' \in BOOLEAN /\ (calm' => calm /\ Session!Quiet)
    BY DEF Session!Starts, Basics, SessionTypes
  <1>6. Session!Fails => ~calm' /\ taskFaults' \in 0..MaxFaults /\ calm' \in BOOLEAN
    BY FaultsAre DEF Session!Fails, Basics
  <1>7. taskFaults \in 0..MaxFaults /\ calm \in BOOLEAN /\ (row.there => born)
    BY DEF Basics, SessionTypes, BirthInv
  <1> HIDE DEF s
  <1>8. CallsOK(s)
    BY <1>3 DEF CallsOK
  <1>9. CASE Session!Goes(t, "question")
    <2>1. Becomes(t, s)
      BY <1>1, <1>3, <1>4, <1>8, <1>9, ItBecomes
    <2>2. CASE row.there /\ Session!Starts /\ UNCHANGED <<row, born, taskFaults>>
      BY <1>1, <1>2, <1>3, <1>5, <1>7, <2>1, <2>2
    <2>3. CASE ~row.there /\ ~born /\ born' = TRUE /\ row' = Session!NewRow /\ Session!Starts /\ UNCHANGED taskFaults
      BY <1>1, <1>2, <1>3, <1>5, <1>7, <2>1, <2>3
    <2>4. CASE ~row.there /\ ~born /\ born' = TRUE /\ UNCHANGED row /\ Session!Fails
      BY <1>1, <1>2, <1>3, <1>6, <2>1, <2>4
    <2>5. CASE Session!Ends(t) /\ UNCHANGED <<row, born, taskFaults, calm>>
      <3>1. Becomes(t, OutTurn)
        BY <1>1, <2>5, OutIs, ItBecomes
      <3> QED
        BY <1>1, <1>2, <1>7, <2>5, <3>1, OutIs
    <2> QED
      BY <2>2, <2>3, <2>4, <2>5 DEF EntersStep, Session!EntersSession
  <1>10. CASE ~Session!Goes(t, "question")
    <2>1. Session!Ends(t) /\ UNCHANGED <<row, born, taskFaults, calm>>
      BY <1>10 DEF EntersStep, Session!EntersSession
    <2>2. Becomes(t, OutTurn)
      BY <1>1, <2>1, OutIs, ItBecomes
    <2> QED
      BY <1>1, <1>2, <1>7, <2>1, <2>2, OutIs
  <1> QED
    BY <1>9, <1>10

LEMMA QuestionIs ==
  ASSUME NEW t \in Names
  PROVE  LET m == Session!Question(t)
         IN  m \in Message /\ m.turn = t /\ m.role = "user" /\ ~m.deleted
  BY DEF Session!Question, Message, Session!Message

Reply(t) == [turn |-> t, role |-> "assistant", deleted |-> FALSE, logged |-> ~turn[t].canned]

LEMMA ReplyIs ==
  ASSUME NEW t \in Names
  PROVE  Reply(t) \in Message /\ Reply(t).turn = t /\ Reply(t).role = "assistant" /\ ~Reply(t).deleted
  BY DEF Reply, Message, Session!Message

LEMMA AsksIs ==
  ASSUME Basics, NEW t \in Names, AsksStep(t)
  PROVE  /\ \E s \in TurnState : Becomes(t, s) /\ s.step = "filter"
         /\ Session!Appends(Session!Question(t))
         /\ UNCHANGED <<Session!others, list, lives>>
  <1>1. turn \in [Names -> TurnState] /\ turn[t] \in TurnState
    BY DEF Basics, SessionTypes
  <1> DEFINE s == [turn[t] EXCEPT !.step = "filter"]
  <1>2. s \in TurnState /\ s.step = "filter"
    BY <1>1 DEF TurnState, TurnStep
  <1>3. turn' = [turn EXCEPT ![t] = s]
    BY DEF AsksStep, Session!Goes
  <1> HIDE DEF s
  <1>4. Becomes(t, s)
    BY <1>1, <1>2, <1>3, ItBecomes DEF CallsOK
  <1> QED
    BY <1>2, <1>4 DEF AsksStep, Session!memory

(* The list after a step of a turn that is not the first to speak of it.   *)
Shrinks(pairs, new) ==
    /\ new \in Seq(Pair) /\ (Matched(pairs) => Matched(new))
    /\ \A t : Listed(new, t) => Listed(pairs, t)
    /\ pairs = <<>> => new = <<>>

LEMMA ItShrinks ==
  ASSUME NEW pairs \in Seq(Pair)
  PROVE  /\ Shrinks(pairs, pairs) /\ Shrinks(pairs, <<>>)
         /\ \A n \in Nat \ {0} : Shrinks(pairs, Session!Newest(pairs, n))
  <1>1. Shrinks(pairs, pairs)
    BY DEF Shrinks
  <1>2. Shrinks(pairs, <<>>)
    <2>1. <<>> \in Seq(Pair) /\ Len(<<>>) = 0
      OBVIOUS
    <2> QED
      BY <2>1 DEF Shrinks, Matched, Listed
  <1>3. ASSUME NEW n \in Nat \ {0} PROVE Shrinks(pairs, Session!Newest(pairs, n))
    <2> DEFINE new == Session!Newest(pairs, n)
    <2>1. new \in Seq(Pair) /\ Len(new) \in Nat
      BY NewestIs
    <2>2. PICK d \in Nat : /\ Len(new) = Len(pairs) - d
                           /\ \A i \in 1..Len(new) : i + d \in 1..Len(pairs) /\ new[i] = pairs[i + d]
      BY NewestIs
    <2>3. Matched(pairs) => Matched(new)
      BY CutIsMatched
    <2> HIDE DEF new
    <2>4. \A t : Listed(new, t) => Listed(pairs, t)
      BY <2>2 DEF Listed
    <2>5. pairs = <<>> => new = <<>>
      BY <2>1, <2>2
    <2>6. Shrinks(pairs, new)
      BY <2>1, <2>3, <2>4, <2>5 DEF Shrinks
    <2> QED
      BY <2>6 DEF new
  <1> QED
    BY <1>1, <1>2, <1>3

(* Trimming, a lifetime, the summary: what is said stays.                  *)
LEMMA LaterCallIs ==
  ASSUME Basics, NEW t \in Names, Session!TrimList(t) \/ Session!ExpireList(t) \/ Session!Summarize(t)
  PROVE  /\ \E c \in CallName, s \in TurnState : Becomes(t, s) /\ HasReturned(turn[t], s, c)
         /\ RowIs(row') /\ row'.there = row.there /\ row'.title = row.title /\ row'.messages = row.messages
         /\ Shrinks(list, list') /\ lives' \in BOOLEAN /\ naming' \subseteq Names
         /\ taskFaults' \in 0..MaxFaults /\ calm' \in BOOLEAN /\ (calm' => calm)
         /\ UNCHANGED <<scope, task, link, sessionShown, born, named, began>>
  <1>1. /\ turn \in [Names -> TurnState] /\ CallsOK(turn[t]) /\ RowIs(row) /\ lives \in BOOLEAN
        /\ naming \subseteq Names /\ list \in Seq(Pair)
    BY DEF Basics, SessionTypes
  <1>2. KeptPairs \in Nat \ {0} /\ TierPairs \in Nat \ {0}
    BY SessionConstants
  <1>3. CASE Session!TrimList(t)
    <2>1. \E s \in TurnState : Becomes(t, s) /\ HasReturned(turn[t], s, "trim")
      BY <1>1, <1>3, CallReturns DEF Session!TrimList
    <2>2. Session!PairLimit(t) \in Nat \ {0}
      BY <1>2 DEF Session!PairLimit
    <2>3. Shrinks(list, list') /\ (Session!Succeeds \/ Session!Fails)
      BY <1>1, <1>3, <2>2, ItShrinks DEF Session!TrimList
    <2>4. UNCHANGED <<row, lives, naming, scope, task, link, sessionShown, born, named, began>>
      BY <1>3 DEF Session!TrimList, Session!others
    <2>5. taskFaults' \in 0..MaxFaults /\ calm' \in BOOLEAN /\ (calm' => calm)
      BY <2>3, FaultsAre DEF Basics
    <2> QED
      BY <1>1, <2>1, <2>3, <2>4, <2>5 DEF CallName
  <1>4. CASE Session!ExpireList(t)
    <2>1. \E s \in TurnState : Becomes(t, s) /\ HasReturned(turn[t], s, "expire")
      BY <1>1, <1>4, CallReturns DEF Session!ExpireList
    <2>2. lives' \in BOOLEAN /\ list' = list /\ (Session!Succeeds \/ Session!Fails)
      BY <1>1, <1>4 DEF Session!ExpireList
    <2>3. Shrinks(list, list')
      BY <1>1, <2>2, ItShrinks
    <2>4. UNCHANGED <<row, naming, scope, task, link, sessionShown, born, named, began>>
      BY <1>4 DEF Session!ExpireList, Session!others
    <2>5. taskFaults' \in 0..MaxFaults /\ calm' \in BOOLEAN /\ (calm' => calm)
      BY <2>2, FaultsAre DEF Basics
    <2> QED
      BY <1>1, <2>1, <2>2, <2>3, <2>4, <2>5 DEF CallName
  <1>5. CASE Session!Summarize(t)
    <2>1. \E s \in TurnState : Becomes(t, s) /\ HasReturned(turn[t], s, "summary")
      BY <1>1, <1>5, CallReturns DEF Session!Summarize
    <2>2. RowIs(row') /\ row'.there = row.there /\ row'.title = row.title /\ row'.messages = row.messages
      <3>1. row \in SessionRow /\ row.there \in BOOLEAN
        BY <1>1 DEF RowIs, SessionRow
      <3>2. row' = [row EXCEPT !.summary = row.there] \/ row' = row
        BY <1>5 DEF Session!Summarize
      <3>3. /\ row' \in SessionRow /\ row'.there = row.there /\ row'.title = row.title
            /\ row'.messages = row.messages
        BY <3>1, <3>2 DEF SessionRow
      <3> QED
        BY <1>1, <3>3 DEF RowIs
    <2>3. naming' \subseteq Names /\ (Session!Succeeds \/ Session!Fails)
      BY <1>1, <1>5 DEF Session!Summarize
    <2>4. UNCHANGED <<list, lives, scope, task, link, sessionShown, born, named, began>>
      BY <1>5 DEF Session!Summarize, Session!memory
    <2>5. taskFaults' \in 0..MaxFaults /\ calm' \in BOOLEAN /\ (calm' => calm)
      BY <2>3, FaultsAre DEF Basics
    <2>6. Shrinks(list, list')
      BY <1>1, <2>4, ItShrinks
    <2> QED
      BY <1>1, <2>1, <2>2, <2>3, <2>4, <2>5, <2>6 DEF CallName
  <1> QED
    BY <1>3, <1>4, <1>5

LEMMA TitleIs ==
  ASSUME Basics, NEW t \in Names, Session!AutoTitle(t)
  PROVE  /\ RowIs(row') /\ row'.there = row.there /\ row'.messages = row.messages
         /\ named /\ row.there => row'.title = "user"
         /\ naming' \subseteq Names
         /\ UNCHANGED <<scope, list, lives, turn, task, link, sessionShown, taskFaults, born, named, began, calm>>
  <1>1. RowIs(row) /\ row \in SessionRow /\ naming \subseteq Names /\ (named /\ row.there => row.title = "user")
    BY DEF Basics, SessionTypes, BirthInv, RowIs
  <1>2. \/ row.title = "default" /\ row' = [row EXCEPT !.title = "auto"]
        \/ row' = row
    BY DEF Session!AutoTitle
  <1>3. row' \in SessionRow /\ row'.there = row.there /\ row'.messages = row.messages
    BY <1>1, <1>2 DEF SessionRow, Title
  <1>4. naming' \subseteq Names
    BY <1>1 DEF Session!AutoTitle
  <1> QED
    BY <1>1, <1>2, <1>3, <1>4 DEF Session!AutoTitle, Session!memory, RowIs

LEMMA TurnBasics ==
  ASSUME Basics, NEW t \in Names, Session!Turn(t)
  PROVE  Basics'
  <1>1. /\ RowIs(row) /\ list \in Seq(Pair) /\ lives \in BOOLEAN /\ naming \subseteq Names /\ born \in BOOLEAN
        /\ taskFaults \in 0..MaxFaults /\ calm \in BOOLEAN /\ (row.there => born)
        /\ (named /\ row.there => row.title = "user") /\ (~row.there => row.messages = <<>>)
        /\ (IsBusy(turn[t]) => born) /\ (named => born)
    BY DEF Basics, SessionTypes, BirthInv
  <1>2. CASE EndsStep(t) \/ SavesStep(t) \/ GoesStep(t)
    <2>1. PICK s \in TurnState :
             /\ Becomes(t, s) /\ (IsBusy(s) => IsBusy(turn[t]))
             /\ UNCHANGED <<Session!others, row, Session!memory, taskFaults, calm>>
      BY <1>2, PlainStepIs
    <2>2. UNCHANGED <<scope, naming, task, link, sessionShown, born, named, began, row, list, lives, taskFaults, calm>>
      BY <2>1 DEF Session!others, Session!memory
    <2> QED
      BY <1>1, <2>1, <2>2, BasicsGoOn
  <1>3. CASE EntersStep(t)
    <2>1. PICK s \in TurnState :
            /\ Becomes(t, s) /\ (IsBusy(s) => born') /\ born' \in BOOLEAN /\ (born => born')
            /\ taskFaults' \in 0..MaxFaults /\ calm' \in BOOLEAN
            /\ \/ UNCHANGED row
               \/ row' = Session!NewRow /\ ~row.there /\ ~born /\ born'
            /\ UNCHANGED <<scope, list, lives, naming, task, link, sessionShown, named, began>>
      BY <1>3, EntersIs
    <2>2. /\ RowIs(row') /\ (row'.there => born' /\ (named => row'.title = "user"))
          /\ (~row'.there => row'.messages = <<>>)
      BY <1>1, <2>1, NewRowIs
    <2> QED
      BY <1>1, <2>1, <2>2, BasicsGoOn
  <1>4. CASE AsksStep(t)
    <2>1. /\ \E s \in TurnState : Becomes(t, s) /\ s.step = "filter"
          /\ Session!Appends(Session!Question(t))
          /\ UNCHANGED <<Session!others, list, lives>>
      BY <1>4, AsksIs
    <2>2. IsBusy(turn[t])
      BY <1>4 DEF AsksStep, IsBusy
    <2>3. /\ RowIs(row') /\ row'.there = row.there /\ row'.title = row.title
          /\ (~row.there => row'.messages = row.messages)
          /\ taskFaults' \in 0..MaxFaults /\ calm' \in BOOLEAN
      BY <2>1, QuestionIs, AppendsAre
    <2>4. UNCHANGED <<scope, naming, task, link, sessionShown, born, named, began>>
      BY <2>1 DEF Session!others
    <2> QED
      BY <1>1, <2>1, <2>2, <2>3, <2>4, BasicsGoOn
  <1>5. CASE Session!Push(t)
    <2>1. \E s \in TurnState : Becomes(t, s) /\ HasReturned(turn[t], s, "push")
      BY <1>5, CallReturns DEF Session!Push, Basics, SessionTypes
    <2>2. list' \in Seq(Pair) /\ (Session!Succeeds \/ Session!Fails)
      <3>1. [q |-> t, a |-> t] \in Pair
        BY DEF Pair
      <3> QED
        BY <1>1, <1>5, <3>1, AppendIs DEF Session!Push
    <2>3. UNCHANGED <<scope, row, lives, naming, task, link, sessionShown, born, named, began>>
      BY <1>5 DEF Session!Push, Session!others
    <2>4. taskFaults' \in 0..MaxFaults /\ calm' \in BOOLEAN
      BY <2>2, FaultsAre DEF Basics
    <2> QED
      BY <1>1, <2>1, <2>2, <2>3, <2>4, BasicsGoOn DEF HasReturned
  <1>6. CASE Session!TrimList(t) \/ Session!ExpireList(t) \/ Session!Summarize(t)
    <2>1. /\ \E c \in CallName, s \in TurnState : Becomes(t, s) /\ HasReturned(turn[t], s, c)
          /\ RowIs(row') /\ row'.there = row.there /\ row'.title = row.title /\ row'.messages = row.messages
          /\ Shrinks(list, list') /\ lives' \in BOOLEAN /\ naming' \subseteq Names
          /\ taskFaults' \in 0..MaxFaults /\ calm' \in BOOLEAN
          /\ UNCHANGED <<scope, task, link, sessionShown, born, named, began>>
      BY <1>6, LaterCallIs
    <2>2. list' \in Seq(Pair)
      BY <2>1 DEF Shrinks
    <2> QED
      BY <1>1, <2>1, <2>2, BasicsGoOn DEF HasReturned
  <1>7. CASE Session!SaveAnswer(t)
    <2>1. \E s \in TurnState : Becomes(t, s) /\ HasReturned(turn[t], s, "answer")
      BY <1>7, CallReturns DEF Session!SaveAnswer, Basics, SessionTypes
    <2>2. Session!Appends(Reply(t))
      BY <1>7 DEF Session!SaveAnswer, Reply
    <2>3. /\ RowIs(row') /\ row'.there = row.there /\ row'.title = row.title
          /\ (~row.there => row'.messages = row.messages)
          /\ taskFaults' \in 0..MaxFaults /\ calm' \in BOOLEAN
      BY <2>2, ReplyIs, AppendsAre
    <2>4. UNCHANGED <<scope, list, lives, naming, task, link, sessionShown, born, named, began>>
      BY <1>7 DEF Session!SaveAnswer, Session!others, Session!memory
    <2> QED
      BY <1>1, <2>1, <2>3, <2>4, BasicsGoOn DEF HasReturned
  <1>8. CASE Session!AutoTitle(t)
    <2>1. /\ RowIs(row') /\ row'.there = row.there /\ row'.messages = row.messages
          /\ named /\ row.there => row'.title = "user"
          /\ naming' \subseteq Names
          /\ UNCHANGED <<scope, list, lives, turn, task, link, sessionShown, taskFaults, born, named, began, calm>>
      BY <1>8, TitleIs
    <2> QED
      BY <2>1 DEF Basics, SessionTypes, BirthInv, CallsOK
  <1> QED
    BY <1>2, <1>3, <1>4, <1>5, <1>6, <1>7, <1>8, TurnSteps DEF Basics

-----------------------------------------------------------------------------
(* The tasks.                                                              *)

TaskBecomes(k, q) ==
    /\ q \in TaskState /\ Len(q.seen) <= KeptMessages
    /\ task' = [task EXCEPT ![k] = q]
    /\ task' \in [Handlers -> TaskState] /\ task'[k] = q
    /\ \A j \in Handlers : j # k => task'[j] = task[j]

LEMMA TaskItBecomes ==
  ASSUME task \in [Handlers -> TaskState], NEW k \in Handlers, NEW q \in TaskState, Len(q.seen) <= KeptMessages,
         task' = [task EXCEPT ![k] = q]
  PROVE  TaskBecomes(k, q)
  BY DEF TaskBecomes

LEMMA NoTaskIs ==
    /\ Session!NoTask \in TaskState /\ Session!NoTask.step = "idle" /\ Session!NoTask.seen = <<>>
    /\ Len(Session!NoTask.seen) <= KeptMessages
  <1>1. Session!NoTask \in TaskState /\ Session!NoTask.step = "idle" /\ Session!NoTask.seen = <<>>
    BY DEF Session!NoTask, TaskState, TaskStep
  <1>2. Len(<<>>) <= KeptMessages
    BY SessionConstants
  <1> QED
    BY <1>1, <1>2

LEMMA TaskEndsIs ==
  ASSUME Basics, NEW k \in Handlers, Session!TaskEnds(k)
  PROVE  TaskBecomes(k, Session!NoTask)
  BY NoTaskIs, TaskItBecomes DEF Session!TaskEnds, Basics, SessionTypes

LEMMA QuietIs ==
  ASSUME Session!Quiet
  PROVE  /\ \A t \in Names : ~IsBusy(turn[t])
         /\ \A k \in Handlers : ~IsWorking(task[k])
  BY DEF Session!Quiet, Session!AtWork, IsBusy, IsWorking

LEMMA BeginsIs ==
  ASSUME Basics, NEW k \in Handlers, NEW first \in TaskStep, NEW seen \in Seq(Message), Len(seen) <= KeptMessages,
         Session!BeginsTask(k, first, seen)
  PROVE  /\ TaskBecomes(k, [step |-> first, seen |-> seen]) /\ began' \in 0..MaxTasks
         /\ calm' \in BOOLEAN /\ (calm' => calm /\ Session!Quiet)
  <1>1. task \in [Handlers -> TaskState] /\ began \in 0..MaxTasks /\ calm \in BOOLEAN /\ MaxTasks \in Nat
    BY SessionConstants DEF Basics, SessionTypes
  <1>2. began < MaxTasks /\ began' = began + 1 /\ Session!Starts
        /\ task' = [task EXCEPT ![k] = [step |-> first, seen |-> seen]]
    BY DEF Session!BeginsTask
  <1>3. began' \in 0..MaxTasks
    BY <1>1, <1>2
  <1>4. [step |-> first, seen |-> seen] \in TaskState
    BY DEF TaskState
  <1>5. TaskBecomes(k, [step |-> first, seen |-> seen])
    BY <1>1, <1>2, <1>4, TaskItBecomes
  <1>6. calm' \in BOOLEAN /\ (calm' => calm /\ Session!Quiet)
    BY <1>1, <1>2 DEF Session!Starts
  <1> QED
    BY <1>3, <1>5, <1>6

(* The messages of the row, one of them deleted or restored.               *)
LEMMA EditIs ==
  ASSUME NEW ms \in Seq(Message), NEW i \in DOMAIN ms, NEW deleted \in BOOLEAN
  PROVE  LET new == [ms EXCEPT ![i].deleted = deleted]
         IN  /\ new \in Seq(Message) /\ Len(new) = Len(ms) /\ Len(ms) \in Nat
             /\ \A j \in 1..Len(ms) : new[j].turn = ms[j].turn /\ new[j].role = ms[j].role
  <1>1. DOMAIN ms = 1..Len(ms) /\ Len(ms) \in Nat /\ ms[i] \in Message
    OBVIOUS
  <1> DEFINE m == [ms[i] EXCEPT !.deleted = deleted]
             new == [ms EXCEPT ![i] = m]
  <1>2. \A n \in Message : LET e == [n EXCEPT !.deleted = deleted]
                           IN  e \in Message /\ e.turn = n.turn /\ e.role = n.role
    BY DEF Message, Session!Message
  <1>3. m \in Message /\ m.turn = ms[i].turn /\ m.role = ms[i].role
    BY <1>1, <1>2
  <1> HIDE DEF m
  <1>4. new \in Seq(Message) /\ Len(new) = Len(ms) /\ \A j \in 1..Len(ms) : new[j] = IF j = i THEN m ELSE ms[j]
    BY <1>1, <1>3
  <1>5. [ms EXCEPT ![i].deleted = deleted] = new
    BY DEF m
  <1> QED
    BY <1>1, <1>3, <1>4, <1>5

(* What a step of a task must leave behind.                                *)
LEMMA TasksGoOn ==
  ASSUME Basics, NEW k \in Handlers, NEW q, TaskBecomes(k, q), IsWorking(q) => born,
         RowIs(row'), row'.there = row.there, row'.title = row.title, ~row.there => row'.messages = <<>>,
         list' \in Seq(Pair), lives' \in BOOLEAN,
         link' \in {"none", "open", "closed"}, sessionShown' \subseteq Names \X {"user", "assistant"},
         taskFaults' \in 0..MaxFaults, began' \in 0..MaxTasks, calm' \in BOOLEAN,
         UNCHANGED <<scope, turn, naming, born, named>>
  PROVE  Basics'
  <1>1. SessionTypes'
    BY DEF Basics, SessionTypes, TaskBecomes
  <1>2. BirthInv'
    BY DEF Basics, BirthInv, TaskBecomes
  <1> QED
    BY <1>1, <1>2 DEF Basics, CallsOK

(* The beginnings.                                                         *)
LEMMA HydratesIs ==
  ASSUME Basics, NEW k \in Handlers, HydratesStep(k)
  PROVE  /\ row.there /\ began' \in 0..MaxTasks /\ calm' \in BOOLEAN /\ (calm' => calm /\ Session!Quiet)
         /\ \E q \in TaskState : TaskBecomes(k, q) /\ q.step = "hydrate" /\ SameBut(q.seen, row.messages)
         /\ UNCHANGED <<scope, row, list, lives, turn, naming, link, sessionShown, taskFaults, born, named>>
  <1>1. PICK ms : /\ Session!Hydrates(k, ms)
                  /\ \/ ms = [i \in DOMAIN row.messages |-> [row.messages[i] EXCEPT !.logged =
                                 @ \/ (row.messages[i].role = "assistant" /\ ~row.messages[i].deleted)]]
                     \/ ms = [i \in DOMAIN row.messages |-> [row.messages[i] EXCEPT !.logged =
                                 @ \/ row.messages[i].role = "assistant"]]
    BY DEF HydratesStep
  <1>2. ms \in Seq(Message) /\ SameBut(ms, row.messages) /\ Len(ms) <= KeptMessages
    BY <1>1, HydratedIs DEF Basics
  <1>3. "hydrate" \in TaskStep /\ Session!BeginsTask(k, "hydrate", ms)
    BY <1>1 DEF TaskStep, Session!Hydrates
  <1>4. /\ TaskBecomes(k, [step |-> "hydrate", seen |-> ms]) /\ began' \in 0..MaxTasks
        /\ calm' \in BOOLEAN /\ (calm' => calm /\ Session!Quiet)
    BY <1>2, <1>3, BeginsIs
  <1>5. /\ row.there
        /\ UNCHANGED <<scope, row, list, lives, turn, naming, link, sessionShown, taskFaults, born, named>>
    BY <1>1 DEF Session!Hydrates, Session!memory
  <1> QED
    BY <1>2, <1>4, <1>5 DEF TaskBecomes

LEMMA EditsIs ==
  ASSUME Basics, NEW k \in Handlers, Session!EditMessage(k)
  PROVE  /\ row.there /\ RowIs(row') /\ row'.there = row.there /\ row'.title = row.title
         /\ Len(row'.messages) = Len(row.messages)
         /\ \A i \in 1..Len(row.messages) : /\ row'.messages[i].turn = row.messages[i].turn
                                            /\ row'.messages[i].role = row.messages[i].role
         /\ began' \in 0..MaxTasks /\ calm' \in BOOLEAN /\ (calm' => calm /\ Session!Quiet)
         /\ \E q \in TaskState : TaskBecomes(k, q) /\ q.step = "clear" /\ q.seen = row'.messages
         /\ link' \in {"none", "open", "closed"} /\ link' # "open"
         /\ UNCHANGED <<scope, list, lives, turn, naming, sessionShown, taskFaults, born, named>>
  <1>1. row \in SessionRow /\ row.messages \in Seq(Message) /\ Len(row.messages) <= KeptMessages
        /\ link \in {"none", "open", "closed"}
    BY DEF Basics, SessionTypes, RowIs, SessionRow
  <1>2. PICK i \in DOMAIN row.messages, deleted \in BOOLEAN :
           LET ms == [row.messages EXCEPT ![i].deleted = deleted]
           IN  row' = [row EXCEPT !.messages = ms] /\ Session!BeginsTask(k, "clear", ms)
    BY DEF Session!EditMessage
  <1> DEFINE ms == [row.messages EXCEPT ![i].deleted = deleted]
  <1>3. /\ ms \in Seq(Message) /\ Len(ms) = Len(row.messages)
        /\ \A j \in 1..Len(row.messages) : ms[j].turn = row.messages[j].turn /\ ms[j].role = row.messages[j].role
    BY <1>1, EditIs
  <1>4. row' = [row EXCEPT !.messages = ms] /\ Session!BeginsTask(k, "clear", ms)
    BY <1>2
  <1> HIDE DEF ms
  <1>5. row' \in SessionRow /\ row'.there = row.there /\ row'.title = row.title /\ row'.messages = ms
    BY <1>1, <1>3, <1>4 DEF SessionRow
  <1>6. "clear" \in TaskStep /\ Len(ms) <= KeptMessages
    BY <1>1, <1>3 DEF TaskStep
  <1>7. /\ TaskBecomes(k, [step |-> "clear", seen |-> ms]) /\ began' \in 0..MaxTasks
        /\ calm' \in BOOLEAN /\ (calm' => calm /\ Session!Quiet)
    BY <1>3, <1>4, <1>6, BeginsIs
  <1>8. /\ row.there /\ link' \in {"none", "open", "closed"} /\ link' # "open"
        /\ UNCHANGED <<scope, list, lives, turn, naming, sessionShown, taskFaults, born, named>>
    BY <1>1 DEF Session!EditMessage, Session!memory
  <1> QED
    BY <1>3, <1>5, <1>6, <1>7, <1>8 DEF TaskBecomes, RowIs

LEMMA SharesIs ==
  ASSUME Basics, NEW k \in Handlers, Session!ReadToShare(k)
  PROVE  /\ row.there /\ began' \in 0..MaxTasks /\ calm' \in BOOLEAN /\ (calm' => calm /\ Session!Quiet)
         /\ \E q \in TaskState : TaskBecomes(k, q) /\ q.step = "share" /\ q.seen = row.messages
         /\ UNCHANGED <<scope, row, list, lives, turn, naming, link, sessionShown, taskFaults, born, named>>
  <1>1. row.messages \in Seq(Message) /\ Len(row.messages) <= KeptMessages /\ "share" \in TaskStep
    BY DEF Basics, SessionTypes, RowIs, SessionRow, TaskStep
  <1>2. Session!BeginsTask(k, "share", row.messages) /\ row.there
        /\ UNCHANGED <<scope, row, list, lives, turn, naming, link, sessionShown, taskFaults, born, named>>
    BY DEF Session!ReadToShare, Session!memory
  <1>3. /\ TaskBecomes(k, [step |-> "share", seen |-> row.messages]) /\ began' \in 0..MaxTasks
        /\ calm' \in BOOLEAN /\ (calm' => calm /\ Session!Quiet)
    BY <1>1, <1>2, BeginsIs
  <1> QED
    BY <1>2, <1>3 DEF TaskBecomes

(* The writings.                                                           *)
LEMMA WritesBackIs ==
  ASSUME Basics, NEW k \in Handlers, Session!WriteHydrated(k)
  PROVE  /\ task[k].step = "hydrate" /\ TaskBecomes(k, Session!NoTask)
         /\ RowIs(row') /\ row'.there = row.there /\ row'.title = row.title
         /\ row'.messages = IF row.there THEN task[k].seen ELSE row.messages
         /\ UNCHANGED <<scope, list, lives, turn, naming, link, sessionShown, taskFaults, born, named, began, calm>>
  <1>1. row \in SessionRow /\ task[k].seen \in Seq(Message) /\ Len(task[k].seen) <= KeptMessages /\ RowIs(row)
    BY DEF Basics, SessionTypes, RowIs, TaskState
  <1>2. row' = IF row.there THEN [row EXCEPT !.messages = task[k].seen] ELSE row
    BY DEF Session!WriteHydrated
  <1>3. /\ row' \in SessionRow /\ row'.there = row.there /\ row'.title = row.title
        /\ row'.messages = IF row.there THEN task[k].seen ELSE row.messages
    BY <1>1, <1>2 DEF SessionRow
  <1>4. RowIs(row')
    BY <1>1, <1>3 DEF RowIs
  <1>5. /\ task[k].step = "hydrate" /\ TaskBecomes(k, Session!NoTask)
        /\ UNCHANGED <<scope, list, lives, turn, naming, link, sessionShown, taskFaults, born, named, began, calm>>
    BY TaskEndsIs DEF Session!WriteHydrated, Session!memory
  <1> QED
    BY <1>3, <1>4, <1>5

LEMMA ClearsIs ==
  ASSUME Basics, NEW k \in Handlers, Session!ClearList(k)
  PROVE  /\ task[k].step = "clear"
         /\ \E q \in TaskState : TaskBecomes(k, q) /\ q.step = "refill" /\ q.seen = task[k].seen
         /\ list' \in Seq(Pair) /\ lives' \in BOOLEAN
         /\ taskFaults' \in 0..MaxFaults /\ calm' \in BOOLEAN /\ (calm' => calm /\ list' = <<>>)
         /\ UNCHANGED <<scope, row, turn, naming, link, sessionShown, born, named, began>>
  <1>1. /\ task \in [Handlers -> TaskState] /\ task[k] \in TaskState /\ Len(task[k].seen) <= KeptMessages
        /\ list \in Seq(Pair) /\ lives \in BOOLEAN /\ <<>> \in Seq(Pair)
    BY DEF Basics, SessionTypes
  <1> DEFINE q == [task[k] EXCEPT !.step = "refill"]
  <1>2. q \in TaskState /\ q.step = "refill" /\ q.seen = task[k].seen
    BY <1>1 DEF TaskState, TaskStep
  <1>3. task' = [task EXCEPT ![k] = q]
    BY DEF Session!ClearList, Session!TaskGoes
  <1> HIDE DEF q
  <1>4. TaskBecomes(k, q)
    BY <1>1, <1>2, <1>3, TaskItBecomes
  <1>5. /\ task[k].step = "clear"
        /\ UNCHANGED <<scope, row, turn, naming, link, sessionShown, born, named, began>>
    BY DEF Session!ClearList
  <1>6. CASE list' = <<>> /\ lives' = FALSE /\ Session!Succeeds
    <2>1. taskFaults' \in 0..MaxFaults /\ calm' \in BOOLEAN /\ (calm' => calm)
      BY <1>6, FaultsAre DEF Basics
    <2>2. list' \in Seq(Pair) /\ lives' \in BOOLEAN /\ list' = <<>>
      BY <1>1, <1>6
    <2> QED
      BY <1>2, <1>4, <1>5, <2>1, <2>2
  <1>7. CASE UNCHANGED Session!memory /\ Session!Fails
    <2>1. taskFaults' \in 0..MaxFaults /\ calm' \in BOOLEAN /\ ~calm'
      BY <1>7, FaultsAre DEF Basics, Session!Fails
    <2>2. list' \in Seq(Pair) /\ lives' \in BOOLEAN
      BY <1>1, <1>7 DEF Session!memory
    <2> QED
      BY <1>2, <1>4, <1>5, <2>1, <2>2
  <1> QED
    BY <1>6, <1>7 DEF Session!ClearList

LEMMA RefillsIs ==
  ASSUME Basics, NEW k \in Handlers, Session!RefillList(k)
  PROVE  /\ task[k].step = "refill" /\ TaskBecomes(k, Session!NoTask)
         /\ list' \in Seq(Pair) /\ lives' \in BOOLEAN
         /\ taskFaults' \in 0..MaxFaults /\ calm' \in BOOLEAN
         /\ calm' => calm /\ \/ list' = list /\ Session!PairsOf(task[k].seen) = <<>>
                             \/ list' = Session!Newest(list \o Session!PairsOf(task[k].seen), KeptPairs)
         /\ UNCHANGED <<scope, row, turn, naming, link, sessionShown, born, named, began>>
  <1> DEFINE pairs == Session!PairsOf(task[k].seen)
  <1>1. /\ task[k].seen \in Seq(Message) /\ list \in Seq(Pair) /\ lives \in BOOLEAN /\ <<>> \in Seq(Pair)
    BY DEF Basics, SessionTypes, TaskState
  <1>2. pairs \in Seq(Pair) /\ KeptPairs \in Nat \ {0}
    BY <1>1, PairsAre, SessionConstants
  <1> HIDE DEF pairs
  <1>3. Session!Newest(list \o pairs, KeptPairs) \in Seq(Pair)
    <2>1. list \o pairs \in Seq(Pair)
      BY <1>1, <1>2
    <2> QED
      BY <1>2, <2>1, NewestIs
  <1>4. /\ task[k].step = "refill" /\ TaskBecomes(k, Session!NoTask)
        /\ UNCHANGED <<scope, row, turn, naming, link, sessionShown, born, named, began>>
    BY TaskEndsIs DEF Session!RefillList
  <1>5. CASE pairs = <<>> /\ UNCHANGED Session!memory /\ Session!Succeeds
    <2>1. taskFaults' \in 0..MaxFaults /\ calm' \in BOOLEAN /\ (calm' => calm)
      BY <1>5, FaultsAre DEF Basics
    <2>2. list' \in Seq(Pair) /\ lives' \in BOOLEAN /\ list' = list
      BY <1>1, <1>5 DEF Session!memory
    <2> QED
      BY <1>4, <1>5, <2>1, <2>2 DEF pairs
  <1>6. CASE list' = Session!Newest(list \o pairs, KeptPairs) /\ lives' = TRUE /\ Session!Succeeds
    <2>1. taskFaults' \in 0..MaxFaults /\ calm' \in BOOLEAN /\ (calm' => calm)
      BY <1>6, FaultsAre DEF Basics
    <2>2. list' \in Seq(Pair) /\ lives' \in BOOLEAN
      BY <1>3, <1>6
    <2> QED
      BY <1>4, <1>6, <2>1, <2>2 DEF pairs
  <1>7. CASE list' = <<>> /\ lives' = FALSE /\ Session!Fails
    <2>1. taskFaults' \in 0..MaxFaults /\ calm' \in BOOLEAN /\ ~calm'
      BY <1>7, FaultsAre DEF Basics, Session!Fails
    <2>2. list' \in Seq(Pair) /\ lives' \in BOOLEAN
      BY <1>1, <1>7
    <2> QED
      BY <1>4, <2>1, <2>2
  <1> QED
    BY <1>5, <1>6, <1>7 DEF Session!RefillList, pairs

LEMMA LinksIs ==
  ASSUME Basics, NEW k \in Handlers, Session!WriteLink(k)
  PROVE  /\ task[k].step = "share" /\ TaskBecomes(k, Session!NoTask)
         /\ link' \in {"none", "open", "closed"} /\ sessionShown' \subseteq Names \X {"user", "assistant"}
         /\ \/ sessionShown' = Session!Shareable(task[k].seen)
            \/ UNCHANGED <<link, sessionShown>>
         /\ UNCHANGED <<scope, row, list, lives, turn, naming, taskFaults, born, named, began, calm>>
  <1>1. task[k].seen \in Seq(Message) /\ link \in {"none", "open", "closed"}
        /\ sessionShown \subseteq Names \X {"user", "assistant"}
    BY DEF Basics, SessionTypes, TaskState
  <1>2. Session!Shareable(task[k].seen) \subseteq Names \X {"user", "assistant"}
    <2>1. \A i \in DOMAIN task[k].seen : task[k].seen[i] \in Message
      BY <1>1
    <2>2. \A m \in Message : m.turn \in Names /\ m.role \in {"user", "assistant"}
      BY DEF Message, Session!Message
    <2> QED
      BY <2>1, <2>2 DEF Session!Shareable
  <1> QED
    BY <1>1, <1>2, TaskEndsIs DEF Session!WriteLink, Session!memory

LEMMA TaskBasics ==
  ASSUME Basics, NEW k \in Handlers, Session!Task(k)
  PROVE  Basics'
  <1>1. /\ RowIs(row) /\ list \in Seq(Pair) /\ lives \in BOOLEAN /\ link \in {"none", "open", "closed"}
        /\ sessionShown \subseteq Names \X {"user", "assistant"} /\ taskFaults \in 0..MaxFaults
        /\ began \in 0..MaxTasks /\ calm \in BOOLEAN
        /\ (row.there => born) /\ (~row.there => row.messages = <<>>)
        /\ (IsWorking(task[k]) => born)
    BY DEF Basics, SessionTypes, BirthInv
  <1>2. ~IsWorking(Session!NoTask)
    BY NoTaskIs DEF IsWorking
  <1>3. CASE HydratesStep(k)
    BY <1>1, <1>3, HydratesIs, TasksGoOn
  <1>4. CASE Session!WriteHydrated(k)
    BY <1>1, <1>2, <1>4, WritesBackIs, TasksGoOn
  <1>5. CASE Session!EditMessage(k)
    BY <1>1, <1>5, EditsIs, TasksGoOn
  <1>6. CASE Session!ClearList(k)
    <2>1. IsWorking(task[k])
      BY <1>6, ClearsIs DEF IsWorking
    <2> QED
      BY <1>1, <1>6, <2>1, ClearsIs, TasksGoOn
  <1>7. CASE Session!RefillList(k)
    BY <1>1, <1>2, <1>7, RefillsIs, TasksGoOn
  <1>8. CASE Session!ReadToShare(k)
    BY <1>1, <1>8, SharesIs, TasksGoOn
  <1>9. CASE Session!WriteLink(k)
    BY <1>1, <1>2, <1>9, LinksIs, TasksGoOn
  <1> QED
    BY <1>3, <1>4, <1>5, <1>6, <1>7, <1>8, <1>9, TaskSteps

(* What comes between.                                                     *)
LEMMA OnlyIs ==
  ASSUME Basics, SessionOnly
  PROVE  \/ /\ ~born /\ born' /\ row' = Session!NewRow
            /\ UNCHANGED <<scope, list, lives, turn, naming, task, link, sessionShown, taskFaults, named, began, calm>>
         \/ /\ RowIs(row') /\ Shrinks(list, list') /\ lives' \in BOOLEAN /\ named' \in BOOLEAN
            /\ \/ row'.there = row.there /\ row'.messages = row.messages
               \/ ~row'.there /\ row'.messages = <<>>
            /\ row'.there => row.there /\ (named' => row'.title = "user")
            /\ named' => born
            /\ link' \in {"none", "open", "closed"} /\ (link' = "open" => link = "open")
            /\ UNCHANGED <<scope, turn, naming, task, sessionShown, taskFaults, born, began, calm>>
  <1>1. /\ row \in SessionRow /\ RowIs(row) /\ list \in Seq(Pair) /\ lives \in BOOLEAN /\ named \in BOOLEAN
        /\ link \in {"none", "open", "closed"} /\ row.there \in BOOLEAN
        /\ (named /\ row.there => row.title = "user") /\ (row.there \/ named => born)
    BY DEF Basics, SessionTypes, RowIs, SessionRow, BirthInv
  <1>2. Shrinks(list, list) /\ Shrinks(list, <<>>)
    BY <1>1, ItShrinks
  <1>3. CASE Session!Creates
    BY <1>3 DEF Session!Creates, Session!memory
  <1>4. CASE Session!Renames
    <2>1. row' = [row EXCEPT !.title = "user"] /\ named' = TRUE /\ row.there
          /\ UNCHANGED <<scope, list, lives, turn, naming, task, link, sessionShown, taskFaults, born, began, calm>>
      BY <1>4 DEF Session!Renames, Session!memory
    <2>2. row' \in SessionRow /\ row'.there = row.there /\ row'.messages = row.messages /\ row'.title = "user"
      BY <1>1, <2>1 DEF SessionRow, Title
    <2>3. RowIs(row')
      BY <1>1, <2>2 DEF RowIs
    <2> QED
      BY <1>1, <1>2, <2>1, <2>2, <2>3
  <1>5. CASE Session!DeleteSession
    <2>1. row' = Session!NoRow
          /\ UNCHANGED <<scope, list, lives, turn, naming, task, link, sessionShown, taskFaults, born, named, began, calm>>
      BY <1>5 DEF Session!DeleteSession, Session!memory, Session!others
    <2> QED
      BY <1>1, <1>2, <2>1, NewRowIs
  <1>6. CASE Session!DeleteGlobalAISession
    <2>1. row' = Session!NoRow /\ list' = <<>> /\ lives' = FALSE
          /\ UNCHANGED <<scope, turn, naming, task, link, sessionShown, taskFaults, born, named, began, calm>>
      BY <1>6 DEF Session!DeleteGlobalAISession, Session!others
    <2> QED
      BY <1>1, <1>2, <2>1, NewRowIs
  <1>7. CASE Session!ListEnds
    <2>1. list' = <<>> /\ lives' = FALSE
          /\ UNCHANGED <<scope, row, turn, naming, task, link, sessionShown, taskFaults, born, named, began, calm>>
      BY <1>7 DEF Session!ListEnds, Session!others
    <2> QED
      BY <1>1, <1>2, <2>1
  <1>8. CASE Session!LinkEnds
    <2>1. link' = "closed"
          /\ UNCHANGED <<scope, row, list, lives, turn, naming, task, sessionShown, taskFaults, born, named, began, calm>>
      BY <1>8 DEF Session!LinkEnds, Session!memory
    <2> QED
      BY <1>1, <1>2, <2>1
  <1> QED
    BY <1>3, <1>4, <1>5, <1>6, <1>7, <1>8 DEF SessionOnly

LEMMA OnlyBasics ==
  ASSUME Basics, SessionOnly
  PROVE  Basics'
  <1>1. CASE /\ ~born /\ born' /\ row' = Session!NewRow
             /\ UNCHANGED <<scope, list, lives, turn, naming, task, link, sessionShown, taskFaults, named, began, calm>>
    <2>1. born' \in BOOLEAN
      <3>1. Session!Creates => born' = TRUE
        BY DEF Session!Creates
      <3>2. ~Session!Creates => born' = born
        BY DEF SessionOnly, Session!Renames, Session!DeleteSession, Session!DeleteGlobalAISession, Session!ListEnds,
               Session!LinkEnds, Session!others
      <3> QED
        BY <3>1, <3>2 DEF Basics, SessionTypes
    <2>2. RowIs(row') /\ row'.there
      BY <1>1, NewRowIs
    <2>3. SessionTypes'
      BY <1>1, <2>1, <2>2 DEF Basics, SessionTypes
    <2>4. BirthInv'
      BY <1>1, <2>2 DEF Basics, BirthInv
    <2> QED
      BY <1>1, <2>3, <2>4 DEF Basics, CallsOK
  <1>2. CASE /\ RowIs(row') /\ Shrinks(list, list') /\ lives' \in BOOLEAN /\ named' \in BOOLEAN
             /\ \/ row'.there = row.there /\ row'.messages = row.messages
                \/ ~row'.there /\ row'.messages = <<>>
             /\ row'.there => row.there /\ (named' => row'.title = "user")
             /\ named' => born
             /\ link' \in {"none", "open", "closed"}
             /\ UNCHANGED <<scope, turn, naming, task, sessionShown, taskFaults, born, began, calm>>
    <2>1. SessionTypes'
      BY <1>2 DEF Basics, SessionTypes, Shrinks
    <2>2. BirthInv'
      BY <1>2 DEF Basics, BirthInv
    <2> QED
      BY <1>2, <2>1, <2>2 DEF Basics, CallsOK
  <1> QED
    BY <1>1, <1>2, OnlyIs

-----------------------------------------------------------------------------
(* As long as nothing overlaps or fails.                                   *)

(* A step after which no more is said than before.                         *)
LEMMA CalmGoesOn ==
  ASSUME CalmInv, Shrinks(list, list'), UNCHANGED task,
         \A u \in Names : /\ IsBusy(turn'[u]) => IsBusy(turn[u])
                          /\ IsNew(turn'[u]) => IsNew(turn[u])
                          /\ ToAnswer(turn'[u]) => ToAnswer(turn[u])
                          /\ ToPush(turn'[u]) => ToPush(turn[u]),
         \/ row'.there = row.there /\ row'.messages = row.messages
         \/ ~row'.there /\ row'.messages = <<>>,
         link' = "open" => link = "open" /\ UNCHANGED sessionShown
  PROVE  CalmInv'
  <1>1. Alone'
    BY DEF CalmInv, Alone
  <1>2. Honest(<<>>) /\ \A t : Kept(<<>>, t) /\ ~Mentions(<<>>, t)
    <2>1. Len(<<>>) = 0 /\ 1..0 = {} /\ 2..0 = {}
      OBVIOUS
    <2> QED
      BY <2>1 DEF Mentions, Honest, Kept
  <1>3. Unsaid'
    BY <1>2 DEF CalmInv, Unsaid
  <1>4. Unlisted'
    BY DEF CalmInv, Unlisted, Shrinks
  <1>5. RowIsRight'
    BY <1>2 DEF CalmInv, RowIsRight
  <1>6. TasksAreRight'
    BY DEF CalmInv, TasksAreRight, InHand
  <1>7. ListIsRight'
    <2>1. Matched(list') /\ \A k \in Handlers : task'[k].step = "refill" => list' = <<>>
      BY DEF CalmInv, ListIsRight, Shrinks
    <2>2. ASSUME row'.there, \A k \in Handlers : task'[k].step # "clear" PROVE HidesDeleted(list', row'.messages)
      <3>1. HidesDeleted(list, row.messages) /\ row'.messages = row.messages
        BY <2>2 DEF CalmInv, ListIsRight
      <3> QED
        BY <3>1 DEF HidesDeleted, Shrinks
    <2> QED
      BY <2>1, <2>2 DEF ListIsRight
  <1>8. LinkIsRight'
    BY DEF CalmInv, LinkIsRight
  <1> QED
    BY <1>1, <1>3, <1>4, <1>5, <1>6, <1>7, <1>8 DEF CalmInv

(* The row is made, or a turn begins, while nothing is at work.            *)
LEMMA CalmOpens ==
  ASSUME CalmInv, UNCHANGED <<list, task, link, sessionShown>>,
         \A k \in Handlers : ~IsWorking(task[k]),
         \A u, v \in Names : IsBusy(turn'[u]) /\ IsBusy(turn'[v]) => u = v,
         \A u \in Names : /\ IsBusy(turn'[u]) => IsNew(turn'[u])
                          /\ IsNew(turn'[u]) => IsNew(turn[u])
                          /\ ~ToAnswer(turn'[u])
                          /\ ToPush(turn'[u]) => ToPush(turn[u]),
         \/ row'.there = row.there /\ row'.messages = row.messages
         \/ row'.messages = <<>>
  PROVE  CalmInv'
  <1>1. Alone'
    BY DEF CalmInv, Alone
  <1>2. (\A i \in 1..Len(<<>>) : FALSE) /\ Honest(<<>>) /\ \A t : Kept(<<>>, t) /\ ~Mentions(<<>>, t)
    <2>1. Len(<<>>) = 0 /\ 1..0 = {} /\ 2..0 = {}
      OBVIOUS
    <2> QED
      BY <2>1 DEF Mentions, Honest, Kept
  <1>3. Unsaid'
    BY <1>2 DEF CalmInv, Unsaid
  <1>4. Unlisted'
    BY DEF CalmInv, Unlisted
  <1>5. RowIsRight'
    <2>1. Honest(row'.messages)
      BY <1>2 DEF CalmInv, RowIsRight
    <2>2. \A t \in Names : IsBusy(turn'[t]) => Kept(row'.messages, t)
      <3> SUFFICES ASSUME NEW t \in Names, IsBusy(turn'[t]) PROVE Kept(row'.messages, t)
        OBVIOUS
      <3>1. ~Mentions(row'.messages, t)
        BY <1>3 DEF Unsaid
      <3> QED
        BY <3>1 DEF Kept, Mentions
    <2> QED
      BY <2>1, <2>2 DEF RowIsRight
  <1>6. TasksAreRight' /\ \A k \in Handlers : task'[k].step # "clear" /\ task'[k].step # "refill"
    BY DEF TasksAreRight, InHand, IsWorking
  <1>7. ListIsRight'
    <2>1. Matched(list') /\ \A k \in Handlers : task'[k].step = "refill" => list' = <<>>
      BY DEF CalmInv, ListIsRight
    <2>2. ASSUME row'.there PROVE HidesDeleted(list', row'.messages)
      <3>1. CASE row'.there = row.there /\ row'.messages = row.messages
        <4>1. HidesDeleted(list, row.messages)
          BY <1>6, <2>2, <3>1 DEF CalmInv, ListIsRight
        <4> QED
          BY <3>1, <4>1
      <3>2. CASE row'.messages = <<>>
        BY <1>2, <3>2 DEF HidesDeleted
      <3> QED
        BY <3>1, <3>2
    <2> QED
      BY <2>1, <2>2 DEF ListIsRight
  <1>8. LinkIsRight'
    <2>1. CASE row'.there = row.there /\ row'.messages = row.messages
      BY <2>1 DEF CalmInv, LinkIsRight
    <2>2. CASE row'.messages = <<>>
      BY <1>2, <2>2 DEF LinkIsRight
    <2> QED
      BY <2>1, <2>2
  <1> QED
    BY <1>1, <1>3, <1>4, <1>5, <1>6, <1>7, <1>8 DEF CalmInv

(* A message more.                                                         *)
LEMMA SaidIs ==
  ASSUME NEW ms \in Seq(Message), NEW m \in Message
  PROVE  LET new == Session!Newest(Append(ms, m), KeptMessages)
         IN  /\ new \in Seq(Message) /\ Len(new) \in Nat /\ Len(new) # 0 /\ new[Len(new)] = m
             /\ \A i \in 1..Len(new) : new[i] = m \/ \E j \in 1..Len(ms) : new[i] = ms[j]
  <1> DEFINE all == Append(ms, m)
             new == Session!Newest(all, KeptMessages)
  <1>1. /\ all \in Seq(Message) /\ Len(all) = Len(ms) + 1 /\ Len(ms) \in Nat /\ all[Len(ms) + 1] = m
        /\ \A i \in 1..Len(ms) : all[i] = ms[i]
        /\ \A i \in 1..Len(ms) + 1 : i \in 1..Len(ms) \/ i = Len(ms) + 1
    BY AppendIs
  <1> HIDE DEF all
  <1>2. all # <<>> /\ KeptMessages \in Nat \ {0}
    BY <1>1, SessionConstants
  <1>3. new \in Seq(Message) /\ Len(new) \in Nat
    BY <1>1, <1>2, NewestIs
  <1>4. PICK d \in Nat : /\ Len(new) = Len(all) - d /\ d < Len(all)
                         /\ \A i \in 1..Len(new) : i + d \in 1..Len(all) /\ new[i] = all[i + d]
    BY <1>1, <1>2, NewestIs
  <1> HIDE DEF new
  <1>5. Len(new) # 0 /\ Len(new) \in 1..Len(new) /\ Len(new) + d = Len(ms) + 1
    BY <1>1, <1>3, <1>4
  <1>6. new[Len(new)] = m
    BY <1>1, <1>4, <1>5
  <1>7. \A i \in 1..Len(new) : new[i] = m \/ \E j \in 1..Len(ms) : new[i] = ms[j]
    BY <1>1, <1>4
  <1> QED
    BY <1>3, <1>5, <1>6, <1>7 DEF new, all


LEMMA CalmSays ==
  ASSUME Basics, CalmInv, NEW t \in Names, IsBusy(turn[t]), NEW m \in Message, m.turn = t, ~m.deleted,
         NEW s, Becomes(t, s), ~IsNew(s), ToPush(s) => ToPush(turn[t]),
         row'.there = row.there,
         row'.messages = IF row.there THEN Said(row, m) ELSE row.messages,
         UNCHANGED <<list, task, link, sessionShown>>,
         \A i \in 1..Len(row.messages) : row.messages[i].turn = t => row.messages[i].role # m.role,
         m.role = "assistant" /\ row.messages # <<>> =>
             row.messages[Len(row.messages)].role = "user" /\ row.messages[Len(row.messages)].turn = t,
         ToAnswer(s) => m.role = "user" /\ ~Mentions(row.messages, t)
  PROVE  CalmInv'
  <1> DEFINE ms == row.messages
             new == Said(row, m)
  <1>1. /\ ms \in Seq(Message) /\ Len(ms) \in Nat /\ KeptMessages \in Nat \ {0}
        /\ turn \in [Names -> TurnState] /\ \A i \in 1..Len(ms) : ms[i] \in Message
    BY SessionConstants DEF Basics, SessionTypes, RowIs, SessionRow
  <1>2. /\ new \in Seq(Message) /\ Len(new) \in Nat /\ Len(new) # 0 /\ new[Len(new)] = m
        /\ \A i \in 1..Len(new) : new[i] = m \/ \E j \in 1..Len(ms) : new[i] = ms[j]
    BY <1>1, SaidIs DEF Said
  <1>3. Honest(new)
    <2>1. Honest(ms)
      BY DEF CalmInv, RowIsRight
    <2>2. Honest(Append(ms, m)) /\ Append(ms, m) \in Seq(Message)
      BY <1>1, <2>1, AppendIsHonest, AppendIs
    <2> QED
      BY <1>1, <2>2, CutIsHonest DEF Said
  <1> HIDE DEF new
  <1>4. /\ \A u \in Names : u # t => turn'[u] = turn[u] /\ ~IsBusy(turn[u])
        /\ turn'[t] = s /\ \A k \in Handlers : ~IsWorking(task[k])
    BY DEF CalmInv, Alone, Becomes
  <1>5. Alone'
    BY <1>4 DEF Alone
  <1>6. row'.messages = ms \/ row'.messages = new
    BY DEF new, ms
  <1>7. Unsaid'
    <2> SUFFICES ASSUME NEW u \in Names, IsNew(turn'[u])
                 PROVE  ~Mentions(row'.messages, u) /\ \A k \in Handlers : ~Mentions(task'[k].seen, u)
      BY DEF Unsaid
    <2>1. u # t /\ IsNew(turn[u])
      BY <1>4
    <2>2. ~Mentions(ms, u) /\ \A k \in Handlers : ~Mentions(task[k].seen, u)
      BY <2>1 DEF CalmInv, Unsaid
    <2>3. ~Mentions(new, u)
      BY <1>2, <2>1, <2>2 DEF Mentions
    <2> QED
      BY <1>6, <2>2, <2>3
  <1>8. Unlisted'
    BY <1>4 DEF CalmInv, Unlisted
  <1>9. RowIsRight'
    <2>1. Honest(row'.messages)
      BY <1>3, <1>6 DEF CalmInv, RowIsRight
    <2>2. ASSUME NEW u \in Names, ToAnswer(turn'[u]), row'.there PROVE Awaits(row'.messages, u)
      <3>1. u = t
        BY <1>4, <2>2 DEF ToAnswer, IsThinking, Owing, IsBusy
      <3>2. m.role = "user" /\ ~Mentions(ms, t)
        BY <1>4, <2>2, <3>1
      <3>3. Awaits(new, t)
        BY <1>2, <3>2 DEF Awaits, Mentions
      <3> QED
        BY <2>2, <3>1, <3>3 DEF new
    <2>3. ASSUME NEW u \in Names, IsBusy(turn'[u]) PROVE Kept(row'.messages, u)
      <3>1. u = t
        BY <1>4, <2>3
      <3>2. Kept(ms, t)
        BY DEF CalmInv, RowIsRight
      <3>3. Kept(new, t)
        BY <1>2, <3>2 DEF Kept
      <3> QED
        BY <1>6, <3>1, <3>2, <3>3
    <2> QED
      BY <2>1, <2>2, <2>3 DEF RowIsRight
  <1>10. TasksAreRight' /\ \A k \in Handlers : task'[k].step # "clear" /\ task'[k].step # "refill"
    BY <1>4 DEF TasksAreRight, InHand, IsWorking
  <1>11. ListIsRight'
    <2>1. Matched(list')
      BY DEF CalmInv, ListIsRight
    <2>2. ASSUME row'.there PROVE HidesDeleted(list', row'.messages)
      <3>1. HidesDeleted(list, ms)
        BY <1>10, <2>2 DEF CalmInv, ListIsRight
      <3>2. HidesDeleted(list, new)
        BY <1>2, <3>1 DEF HidesDeleted
      <3> QED
        BY <1>6, <3>1, <3>2
    <2> QED
      BY <1>10, <2>1, <2>2 DEF ListIsRight
  <1>12. LinkIsRight'
    <2> SUFFICES ASSUME link = "open", row.there,
                        NEW i \in 1..Len(row'.messages), row'.messages[i].deleted
                 PROVE  <<row'.messages[i].turn, row'.messages[i].role>> \notin sessionShown
      BY DEF LinkIsRight
    <2>1. \A j \in 1..Len(ms) : ms[j].deleted => <<ms[j].turn, ms[j].role>> \notin sessionShown
      BY DEF CalmInv, LinkIsRight
    <2> QED
      BY <1>2, <1>6, <2>1
  <1> QED
    BY <1>5, <1>7, <1>8, <1>9, <1>10, <1>11, <1>12 DEF CalmInv

LEMMA CalmAsks ==
  ASSUME Basics, CalmInv, NEW t \in Names, AsksStep(t), calm'
  PROVE  CalmInv'
  <1> DEFINE m == Session!Question(t)
  <1>1. m \in Message /\ m.turn = t /\ m.role = "user" /\ ~m.deleted
    BY QuestionIs
  <1>2. /\ \E s \in TurnState : Becomes(t, s) /\ s.step = "filter"
        /\ Session!Appends(m)
        /\ UNCHANGED <<list, task, link, sessionShown>>
    BY AsksIs DEF Session!others
  <1> HIDE DEF m
  <1>3. row'.there = row.there /\ row'.messages = IF row.there THEN Said(row, m) ELSE row.messages
    BY <1>1, <1>2, AppendsAre
  <1>4. PICK s \in TurnState : Becomes(t, s) /\ s.step = "filter"
    BY <1>2
  <1>5. IsBusy(turn[t]) /\ IsNew(turn[t]) /\ ToPush(turn[t]) /\ ~IsNew(s)
    BY <1>4 DEF AsksStep, IsBusy, IsNew, ToPush
  <1>6. ~Mentions(row.messages, t)
    BY <1>5 DEF CalmInv, Unsaid
  <1>7. \A i \in 1..Len(row.messages) : row.messages[i].turn # t
    BY <1>6 DEF Mentions
  <1> QED
    BY <1>1, <1>2, <1>3, <1>4, <1>5, <1>6, <1>7, CalmSays

LEMMA CalmAnswers ==
  ASSUME Basics, CalmInv, NEW t \in Names, Session!SaveAnswer(t), calm'
  PROVE  CalmInv'
  <1> DEFINE m == Reply(t)
  <1>1. m \in Message /\ m.turn = t /\ m.role = "assistant" /\ ~m.deleted
    BY ReplyIs
  <1>2. /\ \E s \in TurnState : Becomes(t, s) /\ HasReturned(turn[t], s, "answer")
        /\ Session!Appends(m)
        /\ UNCHANGED <<list, task, link, sessionShown>>
    BY CallReturns DEF Session!SaveAnswer, Basics, SessionTypes, Reply, Session!others, Session!memory
  <1> HIDE DEF m
  <1>3. row'.there = row.there /\ row'.messages = IF row.there THEN Said(row, m) ELSE row.messages
    BY <1>1, <1>2, AppendsAre
  <1>4. PICK s \in TurnState : Becomes(t, s) /\ HasReturned(turn[t], s, "answer")
    BY <1>2
  <1>5. /\ IsBusy(turn[t]) /\ ToAnswer(turn[t]) /\ ~IsNew(s) /\ ~ToAnswer(s)
        /\ (ToPush(s) => ToPush(turn[t]))
    BY <1>4 DEF HasReturned, ToAnswer, ToPush
  <1>6. row.there => Awaits(row.messages, t)
    BY <1>5 DEF CalmInv, RowIsRight
  <1>7. ~row.there => row.messages = <<>>
    BY DEF Basics, BirthInv
  <1>8. row.messages = <<>> => \A i \in 1..Len(row.messages) : FALSE
    OBVIOUS
  <1>9. \A i \in 1..Len(row.messages) : row.messages[i].turn = t => row.messages[i].role # m.role
    BY <1>1, <1>6, <1>7, <1>8 DEF Awaits
  <1>10. row.messages # <<>> =>
            row.messages[Len(row.messages)].role = "user" /\ row.messages[Len(row.messages)].turn = t
    BY <1>6, <1>7 DEF Awaits
  <1> QED
    BY <1>1, <1>2, <1>3, <1>4, <1>5, <1>9, <1>10, CalmSays

LEMMA CalmPushes ==
  ASSUME Basics, CalmInv, NEW t \in Names, Session!Push(t), calm'
  PROVE  CalmInv'
  <1> DEFINE pair == [q |-> t, a |-> t]
             n == Len(list)
  <1>1. /\ \E s \in TurnState : Becomes(t, s) /\ HasReturned(turn[t], s, "push")
        /\ UNCHANGED <<row, task, link, sessionShown>>
    BY CallReturns DEF Session!Push, Basics, SessionTypes, Session!others
  <1>2. list' = Append(list, pair)
    BY DEF Session!Push, Session!Fails
  <1>3. pair \in Pair /\ pair.q = t /\ pair.a = t /\ list \in Seq(Pair)
    BY DEF Pair, Basics, SessionTypes
  <1> HIDE DEF pair
  <1>4. /\ Len(list') = n + 1 /\ n \in Nat /\ list'[n + 1] = pair
        /\ \A i \in 1..n : list'[i] = list[i]
        /\ \A i \in 1..n + 1 : i \in 1..n \/ i = n + 1
    BY <1>2, <1>3, AppendIs
  <1>5. PICK s \in TurnState : Becomes(t, s) /\ HasReturned(turn[t], s, "push")
    BY <1>1
  <1>6. IsBusy(turn[t]) /\ ToPush(turn[t]) /\ ~IsNew(s) /\ ~ToPush(s) /\ (ToAnswer(s) => ToAnswer(turn[t]))
    BY <1>5 DEF HasReturned, ToAnswer, ToPush
  <1>7. /\ \A u \in Names : u # t => turn'[u] = turn[u] /\ ~IsBusy(turn[u])
        /\ turn'[t] = s /\ \A k \in Handlers : ~IsWorking(task[k])
    BY <1>5, <1>6 DEF CalmInv, Alone, Becomes
  <1>8. Alone'
    BY <1>1, <1>7 DEF Alone
  <1>9. Unsaid'
    BY <1>1, <1>6, <1>7 DEF CalmInv, Unsaid
  <1>10. ~Listed(list, t)
    BY <1>6 DEF CalmInv, Unlisted
  <1>11. \A u : Listed(list', u) => u = t \/ Listed(list, u)
    BY <1>3, <1>4 DEF Listed
  <1>12. Unlisted'
    BY <1>6, <1>7, <1>11 DEF CalmInv, Unlisted
  <1>13. RowIsRight'
    BY <1>1, <1>6, <1>7 DEF CalmInv, RowIsRight
  <1>14. TasksAreRight' /\ \A k \in Handlers : task'[k].step # "clear" /\ task'[k].step # "refill"
    BY <1>1, <1>7 DEF TasksAreRight, InHand, IsWorking
  <1>15. ListIsRight'
    <2>1. Matched(list')
      <3>1. Matched(list)
        BY DEF CalmInv, ListIsRight
      <3>2. \A i \in 1..n + 1 : list'[i].q = list'[i].a
        BY <1>3, <1>4, <3>1 DEF Matched
      <3>3. \A i, j \in 1..n + 1 : i # j => list'[i].q # list'[j].q
        <4>1. \A i \in 1..n : list[i].q # t
          BY <1>10 DEF Listed
        <4>2. \A i, j \in 1..n : i # j => list[i].q # list[j].q
          BY <3>1 DEF Matched
        <4> HIDE DEF n
        <4> QED
          BY <1>3, <1>4, <4>1, <4>2
      <3> QED
        BY <1>4, <3>2, <3>3 DEF Matched
    <2>2. ASSUME row.there PROVE HidesDeleted(list', row.messages)
      <3>1. HidesDeleted(list, row.messages)
        BY <1>1, <1>14, <2>2 DEF CalmInv, ListIsRight
      <3>2. Kept(row.messages, t)
        BY <1>6 DEF CalmInv, RowIsRight
      <3> QED
        BY <1>11, <3>1, <3>2 DEF HidesDeleted, Kept
    <2> QED
      BY <1>1, <1>14, <2>1, <2>2 DEF ListIsRight
  <1>16. LinkIsRight'
    BY <1>1 DEF CalmInv, LinkIsRight
  <1> QED
    BY <1>8, <1>9, <1>12, <1>13, <1>14, <1>15, <1>16 DEF CalmInv


(* A step of the only task at work.                                        *)
LEMMA CalmTask ==
  ASSUME CalmInv, NEW k \in Handlers, NEW q, TaskBecomes(k, q), UNCHANGED turn,
         \A u \in Names : ~IsBusy(turn[u]),
         \A j \in Handlers : j # k => ~IsWorking(task[j]),
         Honest(row'.messages),
         \A u : Mentions(row'.messages, u) => Mentions(row.messages, u) \/ Mentions(task[k].seen, u),
         \A u : Mentions(q.seen, u) => Mentions(row.messages, u) \/ Mentions(task[k].seen, u),
         \A u : Listed(list', u) => Listed(list, u) \/ Mentions(task[k].seen, u),
         InHand(q, row'), ListIsRight', LinkIsRight'
  PROVE  CalmInv'
  <1>1. Alone'
    BY DEF Alone, TaskBecomes
  <1>2. Unsaid'
    BY DEF CalmInv, Unsaid, TaskBecomes
  <1>3. Unlisted'
    BY DEF CalmInv, Unlisted, Unsaid, ToPush, IsThinking, Owing, IsBusy
  <1>4. RowIsRight'
    BY DEF RowIsRight, ToAnswer, IsThinking, Owing, IsBusy
  <1>5. TasksAreRight'
    BY DEF TasksAreRight, TaskBecomes, InHand, IsWorking
  <1> QED
    BY <1>1, <1>2, <1>3, <1>4, <1>5 DEF CalmInv

LEMMA OnlyTask ==
  ASSUME CalmInv, NEW k \in Handlers, IsWorking(task[k])
  PROVE  /\ \A u \in Names : ~IsBusy(turn[u])
         /\ \A j \in Handlers : j # k => ~IsWorking(task[j])
  BY DEF CalmInv, Alone

LEMMA SameMentions ==
  ASSUME NEW talk, NEW ms, SameBut(talk, ms)
  PROVE  /\ \A u : Mentions(talk, u) => Mentions(ms, u)
         /\ Honest(ms) /\ Len(ms) \in Nat => Honest(talk)
         /\ \A pairs : HidesDeleted(pairs, ms) => HidesDeleted(pairs, talk)
  <1>1. \A u : Mentions(talk, u) => Mentions(ms, u)
    BY DEF SameBut, Mentions
  <1>2. ASSUME Honest(ms), Len(ms) \in Nat PROVE Honest(talk)
    <2>1. \A i \in 2..Len(ms) : i \in 1..Len(ms) /\ i - 1 \in 1..Len(ms)
      BY <1>2
    <2> QED
      BY <1>2, <2>1 DEF SameBut, Honest
  <1>3. \A pairs : HidesDeleted(pairs, ms) => HidesDeleted(pairs, talk)
    BY DEF SameBut, HidesDeleted
  <1> QED
    BY <1>1, <1>2, <1>3

(* What reads the row and changes nothing yet.                             *)
LEMMA CalmReads ==
  ASSUME Basics, CalmInv, NEW k \in Handlers, HydratesStep(k) \/ Session!ReadToShare(k), calm'
  PROVE  CalmInv'
  <1>1. PICK q \in TaskState :
           /\ TaskBecomes(k, q) /\ q.step \in {"hydrate", "share"}
           /\ SameBut(q.seen, row.messages) /\ (q.step = "share" => q.seen = row.messages)
    BY HydratesIs, SharesIs DEF SameBut
  <1>2. /\ Session!Quiet /\ UNCHANGED <<row, list, turn, link, sessionShown>>
    BY HydratesIs, SharesIs
  <1>3. (\A u \in Names : ~IsBusy(turn[u])) /\ \A j \in Handlers : ~IsWorking(task[j])
    BY <1>2, QuietIs
  <1>4. InHand(q, row')
    BY <1>1, <1>2 DEF InHand
  <1>5. \A u : Mentions(q.seen, u) => Mentions(row.messages, u)
    BY <1>1, SameMentions
  <1>6. \A j \in Handlers : task[j].step = "idle"
    BY <1>3 DEF IsWorking
  <1>7. ListIsRight'
    <2>1. Matched(list) /\ (row.there => HidesDeleted(list, row.messages))
      BY <1>6 DEF CalmInv, ListIsRight
    <2>2. \A j \in Handlers : task'[j].step # "refill"
      BY <1>1, <1>6 DEF TaskBecomes
    <2> QED
      BY <1>2, <2>1, <2>2 DEF ListIsRight
  <1>8. LinkIsRight' /\ Honest(row'.messages)
    BY <1>2 DEF CalmInv, LinkIsRight, RowIsRight
  <1> QED
    BY <1>1, <1>2, <1>3, <1>4, <1>5, <1>7, <1>8, CalmTask

LEMMA CalmEdits ==
  ASSUME Basics, CalmInv, NEW k \in Handlers, Session!EditMessage(k), calm'
  PROVE  CalmInv'
  <1>1. PICK q \in TaskState : TaskBecomes(k, q) /\ q.step = "clear" /\ q.seen = row'.messages
    BY EditsIs
  <1>2. /\ Session!Quiet /\ link' # "open" /\ row'.there = row.there
        /\ UNCHANGED <<list, turn>>
    BY EditsIs
  <1>3. (\A u \in Names : ~IsBusy(turn[u])) /\ \A j \in Handlers : ~IsWorking(task[j])
    BY <1>2, QuietIs
  <1>4. /\ Len(row'.messages) = Len(row.messages) /\ Len(row.messages) \in Nat
        /\ \A i \in 1..Len(row.messages) : /\ row'.messages[i].turn = row.messages[i].turn
                                           /\ row'.messages[i].role = row.messages[i].role
    BY EditsIs DEF Basics, SessionTypes, RowIs, SessionRow
  <1>5. Honest(row'.messages)
    <2>1. \A i \in 2..Len(row.messages) : i \in 1..Len(row.messages) /\ i - 1 \in 1..Len(row.messages)
      BY <1>4
    <2>2. Honest(row.messages)
      BY DEF CalmInv, RowIsRight
    <2> QED
      BY <1>4, <2>1, <2>2 DEF Honest
  <1>6. \A u : Mentions(row'.messages, u) => Mentions(row.messages, u)
    BY <1>4 DEF Mentions
  <1>7. InHand(q, row')
    BY <1>1, <1>5 DEF InHand
  <1>8. ListIsRight'
    <2>1. Matched(list) /\ \A j \in Handlers : task'[j].step # "refill"
      BY <1>1, <1>3 DEF CalmInv, ListIsRight, TaskBecomes, IsWorking
    <2>2. task'[k].step = "clear"
      BY <1>1 DEF TaskBecomes
    <2> QED
      BY <1>2, <2>1, <2>2 DEF ListIsRight
  <1>9. LinkIsRight'
    BY <1>2 DEF LinkIsRight
  <1> QED
    BY <1>1, <1>2, <1>3, <1>5, <1>6, <1>7, <1>8, <1>9, CalmTask

LEMMA CalmWritesBack ==
  ASSUME Basics, CalmInv, NEW k \in Handlers, Session!WriteHydrated(k), calm'
  PROVE  CalmInv'
  <1> DEFINE q == Session!NoTask
  <1>1. /\ task[k].step = "hydrate" /\ TaskBecomes(k, q) /\ row'.there = row.there
        /\ row'.messages = IF row.there THEN task[k].seen ELSE row.messages
        /\ UNCHANGED <<list, turn, link, sessionShown>>
    BY WritesBackIs
  <1>2. (\A u \in Names : ~IsBusy(turn[u])) /\ \A j \in Handlers : j # k => ~IsWorking(task[j])
    BY <1>1, OnlyTask DEF IsWorking
  <1>3. q.step = "idle" /\ q.seen = <<>> /\ \A u : ~Mentions(q.seen, u)
    <2>1. \A i \in 1..Len(<<>>) : FALSE
      OBVIOUS
    <2> QED
      BY <2>1, NoTaskIs DEF Mentions
  <1> HIDE DEF q
  <1>4. SameBut(row'.messages, row.messages) /\ Len(row.messages) \in Nat
    <2>1. InHand(task[k], row)
      BY DEF CalmInv, TasksAreRight
    <2>2. row.messages \in Seq(Message)
      BY DEF Basics, SessionTypes, RowIs, SessionRow
    <2> QED
      BY <1>1, <2>1, <2>2 DEF InHand, SameBut
  <1>5. Honest(row'.messages) /\ \A u : Mentions(row'.messages, u) => Mentions(row.messages, u)
    BY <1>4, SameMentions DEF CalmInv, RowIsRight
  <1>6. InHand(q, row')
    BY <1>3 DEF InHand
  <1>7. ListIsRight'
    <2>1. \A j \in Handlers : task[j].step # "clear" /\ task'[j].step # "refill"
      BY <1>1, <1>2, <1>3 DEF TaskBecomes, IsWorking
    <2>2. Matched(list) /\ (row.there => HidesDeleted(list, row.messages))
      BY <2>1 DEF CalmInv, ListIsRight
    <2> QED
      BY <1>1, <1>4, <2>1, <2>2, SameMentions DEF ListIsRight
  <1>8. LinkIsRight'
    BY <1>1, <1>4 DEF CalmInv, LinkIsRight, SameBut
  <1> QED
    BY <1>1, <1>2, <1>3, <1>5, <1>6, <1>7, <1>8, CalmTask

LEMMA CalmClears ==
  ASSUME Basics, CalmInv, NEW k \in Handlers, Session!ClearList(k), calm'
  PROVE  CalmInv'
  <1>1. PICK q \in TaskState : TaskBecomes(k, q) /\ q.step = "refill" /\ q.seen = task[k].seen
    BY ClearsIs
  <1>2. task[k].step = "clear" /\ list' = <<>> /\ UNCHANGED <<row, turn, link, sessionShown>>
    BY ClearsIs
  <1>3. (\A u \in Names : ~IsBusy(turn[u])) /\ \A j \in Handlers : j # k => ~IsWorking(task[j])
    BY <1>2, OnlyTask DEF IsWorking
  <1>4. InHand(q, row')
    BY <1>1, <1>2 DEF CalmInv, TasksAreRight, InHand
  <1>5. Matched(<<>>) /\ \A u : ~Listed(<<>>, u)
    <2>1. \A i \in 1..Len(<<>>) : FALSE
      OBVIOUS
    <2> QED
      BY <2>1 DEF Matched, Listed
  <1>6. ListIsRight'
    BY <1>2, <1>5 DEF ListIsRight, HidesDeleted
  <1>7. LinkIsRight' /\ Honest(row'.messages)
    BY <1>2 DEF CalmInv, LinkIsRight, RowIsRight
  <1> QED
    BY <1>1, <1>2, <1>3, <1>4, <1>5, <1>6, <1>7, CalmTask

LEMMA CalmRefills ==
  ASSUME Basics, CalmInv, NEW k \in Handlers, Session!RefillList(k), calm'
  PROVE  CalmInv'
  <1> DEFINE q == Session!NoTask
             seen == task[k].seen
             pairs == Session!PairsOf(seen)
  <1>1. /\ task[k].step = "refill" /\ TaskBecomes(k, q)
        /\ \/ list' = list /\ pairs = <<>>
           \/ list' = Session!Newest(list \o pairs, KeptPairs)
        /\ UNCHANGED <<row, turn, link, sessionShown>>
    BY RefillsIs
  <1>2. (\A u \in Names : ~IsBusy(turn[u])) /\ \A j \in Handlers : j # k => ~IsWorking(task[j])
    BY <1>1, OnlyTask DEF IsWorking
  <1>3. q.step = "idle" /\ q.seen = <<>> /\ \A u : ~Mentions(q.seen, u)
    <2>1. \A i \in 1..Len(<<>>) : FALSE
      OBVIOUS
    <2> QED
      BY <2>1, NoTaskIs DEF Mentions
  <1> HIDE DEF q
  <1>4. list = <<>> /\ Honest(seen) /\ (row.there => seen = row.messages) /\ seen \in Seq(Message)
    BY <1>1 DEF CalmInv, ListIsRight, TasksAreRight, InHand, Basics, SessionTypes, TaskState
  <1>5. /\ pairs \in Seq(Pair) /\ Matched(pairs)
        /\ \A p \in 1..Len(pairs) : \E i \in 1..Len(seen) : AnsweredAt(seen, i) /\ pairs[p].q = seen[i - 1].turn
    BY <1>4, PairsAre
  <1>6. KeptPairs \in Nat \ {0} /\ Len(seen) \in Nat
    BY <1>4, SessionConstants
  <1> HIDE DEF pairs, seen
  <1>7. Shrinks(pairs, list')
    <2>1. list \o pairs = pairs
      BY <1>4, <1>5
    <2> QED
      BY <1>1, <1>4, <1>5, <1>6, <2>1, ItShrinks
  <1>8. \A u : Listed(list', u) => \E i \in 2..Len(seen) : AnsweredAt(seen, i) /\ seen[i - 1].turn = u
    <2> SUFFICES ASSUME NEW u, Listed(list', u)
                 PROVE  \E i \in 2..Len(seen) : AnsweredAt(seen, i) /\ seen[i - 1].turn = u
      OBVIOUS
    <2>1. PICK p \in 1..Len(pairs) : pairs[p].q = u
      BY <1>7 DEF Shrinks, Listed
    <2> QED
      BY <1>5, <2>1 DEF AnsweredAt
  <1>9. \A u : Listed(list', u) => Mentions(seen, u)
    <2>1. \A i \in 2..Len(seen) : i - 1 \in 1..Len(seen)
      BY <1>6
    <2> QED
      BY <1>8, <2>1 DEF Mentions
  <1>10. HidesDeleted(list', seen)
    <2> SUFFICES ASSUME NEW j \in 1..Len(seen), seen[j].deleted, Listed(list', seen[j].turn) PROVE FALSE
      BY DEF HidesDeleted
    <2>1. PICK i \in 2..Len(seen) : AnsweredAt(seen, i) /\ seen[i - 1].turn = seen[j].turn
      BY <1>8
    <2>2. i \in 1..Len(seen) /\ i - 1 \in 1..Len(seen)
      BY <1>6
    <2>3. j # i /\ j # i - 1 /\ seen[i - 1].role = "user" /\ seen[i].role # "user"
      BY <2>1 DEF AnsweredAt
    <2>4. \A m \in Message : m.role \in {"user", "assistant"}
      BY DEF Message, Session!Message
    <2>5. seen[i].role = "assistant" /\ seen[j].role \in {"user", "assistant"}
      BY <1>4, <2>2, <2>3, <2>4
    <2>6. seen[i - 1].turn = seen[i].turn
      BY <1>4, <2>5 DEF Honest
    <2>7. \A a, b \in 1..Len(seen) :
              a # b => seen[a].turn # seen[b].turn \/ seen[a].role # seen[b].role
      BY <1>4 DEF Honest
    <2>8. seen[j].role # "user" /\ seen[j].role # "assistant"
      BY <2>1, <2>2, <2>3, <2>5, <2>6, <2>7
    <2> QED
      BY <2>5, <2>8
  <1>11. InHand(q, row')
    BY <1>3 DEF InHand
  <1>12. ListIsRight'
    <2>1. \A j \in Handlers : task'[j].step # "refill"
      BY <1>1, <1>2, <1>3 DEF TaskBecomes, IsWorking
    <2> QED
      BY <1>1, <1>4, <1>5, <1>7, <1>10, <2>1 DEF ListIsRight, Shrinks
  <1>13. LinkIsRight' /\ Honest(row'.messages)
    BY <1>1 DEF CalmInv, LinkIsRight, RowIsRight
  <1> QED
    BY <1>1, <1>2, <1>3, <1>9, <1>11, <1>12, <1>13, CalmTask DEF seen

LEMMA CalmLinks ==
  ASSUME Basics, CalmInv, NEW k \in Handlers, Session!WriteLink(k), calm'
  PROVE  CalmInv'
  <1> DEFINE q == Session!NoTask
             seen == task[k].seen
  <1>1. /\ task[k].step = "share" /\ TaskBecomes(k, q)
        /\ \/ sessionShown' = Session!Shareable(seen)
           \/ UNCHANGED <<link, sessionShown>>
        /\ UNCHANGED <<row, list, turn>>
    BY LinksIs
  <1>2. (\A u \in Names : ~IsBusy(turn[u])) /\ \A j \in Handlers : j # k => ~IsWorking(task[j])
    BY <1>1, OnlyTask DEF IsWorking
  <1>3. q.step = "idle" /\ q.seen = <<>> /\ \A u : ~Mentions(q.seen, u)
    <2>1. \A i \in 1..Len(<<>>) : FALSE
      OBVIOUS
    <2> QED
      BY <2>1, NoTaskIs DEF Mentions
  <1> HIDE DEF q
  <1>4. /\ Honest(row.messages) /\ (row.there => seen = row.messages) /\ seen \in Seq(Message)
    BY <1>1 DEF CalmInv, RowIsRight, TasksAreRight, InHand, Basics, SessionTypes, TaskState
  <1> HIDE DEF seen
  <1>5. LinkIsRight'
    <2>1. CASE UNCHANGED <<link, sessionShown>>
      BY <1>1, <2>1 DEF CalmInv, LinkIsRight
    <2>2. CASE sessionShown' = Session!Shareable(seen)
      <3> SUFFICES ASSUME row.there, NEW i \in 1..Len(seen), seen[i].deleted,
                          <<seen[i].turn, seen[i].role>> \in Session!Shareable(seen)
                   PROVE  FALSE
        BY <1>1, <1>4, <2>2 DEF LinkIsRight
      <3>1. DOMAIN seen = 1..Len(seen)
        BY <1>4
      <3>2. PICK j \in 1..Len(seen) : /\ ~seen[j].deleted
                                      /\ <<seen[i].turn, seen[i].role>> = <<seen[j].turn, seen[j].role>>
        BY <3>1 DEF Session!Shareable
      <3> QED
        BY <1>4, <3>2 DEF Honest
    <2> QED
      BY <1>1, <2>1, <2>2
  <1>6. InHand(q, row')
    BY <1>3 DEF InHand
  <1>7. ListIsRight'
    <2>1. \A j \in Handlers : task[j].step # "clear" /\ task'[j].step # "refill"
      BY <1>1, <1>2, <1>3 DEF TaskBecomes, IsWorking
    <2>2. Matched(list) /\ (row.there => HidesDeleted(list, row.messages))
      BY <2>1 DEF CalmInv, ListIsRight
    <2> QED
      BY <1>1, <2>1, <2>2 DEF ListIsRight
  <1> QED
    BY <1>1, <1>2, <1>3, <1>4, <1>5, <1>6, <1>7, CalmTask


LEMMA CalmTurn ==
  ASSUME SessionInv, NEW t \in Names, Session!Turn(t), calm'
  PROVE  CalmInv'
  <1>1. Basics /\ (calm => CalmInv) /\ list \in Seq(Pair)
    BY DEF SessionInv, Basics, SessionTypes
  <1>2. Shrinks(list, list)
    BY <1>1, ItShrinks
  <1>3. CASE EndsStep(t) \/ SavesStep(t) \/ GoesStep(t)
    <2>1. PICK s \in TurnState :
             /\ Becomes(t, s) /\ (IsBusy(s) => IsBusy(turn[t])) /\ ~IsNew(s)
             /\ (ToAnswer(s) => ToAnswer(turn[t])) /\ (ToPush(s) => ToPush(turn[t]))
             /\ UNCHANGED <<Session!others, row, Session!memory, taskFaults, calm>>
      BY <1>1, <1>3, PlainStepIs
    <2>2. UNCHANGED <<task, link, sessionShown, row, list, calm>>
      BY <2>1 DEF Session!others, Session!memory
    <2>3. \A u \in Names : /\ IsBusy(turn'[u]) => IsBusy(turn[u])
                           /\ IsNew(turn'[u]) => IsNew(turn[u])
                           /\ ToAnswer(turn'[u]) => ToAnswer(turn[u])
                           /\ ToPush(turn'[u]) => ToPush(turn[u])
      BY <2>1 DEF Becomes
    <2> QED
      BY <1>1, <1>2, <2>2, <2>3, CalmGoesOn
  <1>4. CASE EntersStep(t)
    <2>1. PICK s \in TurnState :
            /\ Becomes(t, s) /\ (s.step = "question" \/ s = OutTurn)
            /\ \/ UNCHANGED row
               \/ row' = Session!NewRow /\ ~row.there /\ ~born /\ born'
            /\ calm' => calm /\ (s = OutTurn \/ Session!Quiet)
            /\ UNCHANGED <<list, task, link, sessionShown>>
      BY <1>1, <1>4, EntersIs
    <2>2. IsNew(turn[t]) /\ ToPush(turn[t])
      BY <1>4 DEF EntersStep, IsNew, ToPush
    <2>3. ~ToAnswer(s) /\ (IsBusy(s) => IsNew(s))
      BY <2>1, OutIs DEF ToAnswer, IsThinking, Owing, IsBusy, IsNew
    <2>4. \A u \in Names : u # t => turn'[u] = turn[u]
      BY <2>1 DEF Becomes
    <2>5. turn'[t] = s
      BY <2>1 DEF Becomes
    <2>6. CASE Session!Quiet \/ ~born
      <3>1. (\A u \in Names : ~IsBusy(turn[u])) /\ \A k \in Handlers : ~IsWorking(task[k])
        BY <1>1, <2>6, QuietIs DEF Basics, BirthInv
      <3>2. \A u, v \in Names : IsBusy(turn'[u]) /\ IsBusy(turn'[v]) => u = v
        BY <2>4, <3>1
      <3>3. \A u \in Names : /\ IsBusy(turn'[u]) => IsNew(turn'[u])
                             /\ IsNew(turn'[u]) => IsNew(turn[u])
                             /\ ~ToAnswer(turn'[u])
                             /\ ToPush(turn'[u]) => ToPush(turn[u])
        BY <2>2, <2>3, <2>4, <2>5, <3>1 DEF ToAnswer, IsThinking, Owing, IsBusy
      <3>4. row' = row \/ row'.messages = <<>>
        BY <2>1, NewRowIs
      <3> QED
        BY <1>1, <2>1, <3>1, <3>2, <3>3, <3>4, CalmOpens
    <2>7. CASE ~Session!Quiet /\ born
      <3>1. s = OutTurn /\ row' = row
        BY <2>1, <2>7
      <3>2. \A u \in Names : /\ IsBusy(turn'[u]) => IsBusy(turn[u])
                             /\ IsNew(turn'[u]) => IsNew(turn[u])
                             /\ ToAnswer(turn'[u]) => ToAnswer(turn[u])
                             /\ ToPush(turn'[u]) => ToPush(turn[u])
        BY <2>2, <2>3, <2>4, <2>5, <3>1, OutIs
      <3> QED
        BY <1>1, <1>2, <2>1, <3>1, <3>2, CalmGoesOn
    <2> QED
      BY <2>6, <2>7 DEF Basics, SessionTypes
  <1>5. CASE AsksStep(t)
    <2>1. calm
      BY <1>1, <1>5, AsksIs, QuestionIs, AppendsAre
    <2> QED
      BY <1>1, <1>5, <2>1, CalmAsks
  <1>6. CASE Session!Push(t)
    <2>1. calm
      BY <1>1, <1>6, FaultsAre DEF Session!Push, Basics
    <2> QED
      BY <1>1, <1>6, <2>1, CalmPushes
  <1>7. CASE Session!TrimList(t) \/ Session!ExpireList(t) \/ Session!Summarize(t)
    <2>1. /\ \E c \in CallName, s \in TurnState : Becomes(t, s) /\ HasReturned(turn[t], s, c)
          /\ row'.there = row.there /\ row'.messages = row.messages
          /\ Shrinks(list, list') /\ (calm' => calm)
          /\ UNCHANGED <<task, link, sessionShown>>
      BY <1>1, <1>7, LaterCallIs
    <2>2. PICK s \in TurnState : Becomes(t, s) /\ \E c \in CallName : HasReturned(turn[t], s, c)
      BY <2>1
    <2>3. /\ IsBusy(turn[t]) /\ ~IsNew(s) /\ (ToAnswer(s) => ToAnswer(turn[t]))
          /\ (ToPush(s) => ToPush(turn[t]))
      BY <2>2 DEF HasReturned, ToAnswer, ToPush
    <2>4. \A u \in Names : /\ IsBusy(turn'[u]) => IsBusy(turn[u])
                           /\ IsNew(turn'[u]) => IsNew(turn[u])
                           /\ ToAnswer(turn'[u]) => ToAnswer(turn[u])
                           /\ ToPush(turn'[u]) => ToPush(turn[u])
      BY <2>2, <2>3 DEF Becomes
    <2> QED
      BY <1>1, <2>1, <2>4, CalmGoesOn
  <1>8. CASE Session!SaveAnswer(t)
    <2>1. calm
      <3>1. Session!Appends(Reply(t)) /\ Reply(t) \in Message
        BY <1>8, ReplyIs DEF Session!SaveAnswer, Reply
      <3> QED
        BY <1>1, <3>1, AppendsAre
    <2> QED
      BY <1>1, <1>8, <2>1, CalmAnswers
  <1>9. CASE Session!AutoTitle(t)
    <2>1. /\ row'.there = row.there /\ row'.messages = row.messages
          /\ UNCHANGED <<list, turn, task, link, sessionShown, calm>>
      BY <1>1, <1>9, TitleIs
    <2> QED
      BY <1>1, <1>2, <2>1, CalmGoesOn
  <1> QED
    BY <1>1, <1>3, <1>4, <1>5, <1>6, <1>7, <1>8, <1>9, TurnSteps DEF Basics

LEMMA CalmTasks ==
  ASSUME SessionInv, NEW k \in Handlers, Session!Task(k), calm'
  PROVE  CalmInv'
  <1>1. Basics /\ (calm => CalmInv)
    BY DEF SessionInv, Basics
  <1>2. CASE HydratesStep(k) \/ Session!ReadToShare(k)
    BY <1>1, <1>2, HydratesIs, SharesIs, CalmReads
  <1>3. CASE Session!WriteHydrated(k)
    BY <1>1, <1>3, WritesBackIs, CalmWritesBack
  <1>4. CASE Session!EditMessage(k)
    BY <1>1, <1>4, EditsIs, CalmEdits
  <1>5. CASE Session!ClearList(k)
    BY <1>1, <1>5, ClearsIs, CalmClears
  <1>6. CASE Session!RefillList(k)
    BY <1>1, <1>6, RefillsIs, CalmRefills
  <1>7. CASE Session!WriteLink(k)
    BY <1>1, <1>7, LinksIs, CalmLinks
  <1> QED
    BY <1>2, <1>3, <1>4, <1>5, <1>6, <1>7, TaskSteps

LEMMA CalmOnly ==
  ASSUME SessionInv, SessionOnly, calm'
  PROVE  CalmInv'
  <1>1. Basics /\ (calm => CalmInv) /\ list \in Seq(Pair)
    BY DEF SessionInv, Basics, SessionTypes
  <1>2. CASE /\ ~born /\ born' /\ row' = Session!NewRow
             /\ UNCHANGED <<list, turn, task, link, sessionShown, calm>>
    <2>1. (\A u \in Names : ~IsBusy(turn[u])) /\ \A k \in Handlers : ~IsWorking(task[k])
      BY <1>1, <1>2 DEF Basics, BirthInv
    <2>2. \A u \in Names : ~ToAnswer(turn[u])
      BY <2>1 DEF ToAnswer, IsThinking, Owing, IsBusy
    <2>3. row'.messages = <<>>
      BY <1>2, NewRowIs
    <2> QED
      BY <1>1, <1>2, <2>1, <2>2, <2>3, CalmOpens
  <1>3. CASE /\ Shrinks(list, list')
             /\ \/ row'.there = row.there /\ row'.messages = row.messages
                \/ ~row'.there /\ row'.messages = <<>>
             /\ (link' = "open" => link = "open")
             /\ UNCHANGED <<turn, task, sessionShown, calm>>
    BY <1>1, <1>3, CalmGoesOn
  <1> QED
    BY <1>1, <1>2, <1>3, OnlyIs

LEMMA SessionGoesOn ==
  ASSUME SessionInv, [Session!Next]_(Session!vars)
  PROVE  SessionInv'
  <1>1. Basics /\ (calm => CalmInv)
    BY DEF SessionInv, Basics
  <1>2. CASE UNCHANGED Session!vars
    <2>1. UNCHANGED <<scope, row, list, lives, turn, naming, task, link, taskFaults, born, named, began,
                      sessionShown, calm>>
      BY <1>2 DEF Session!vars, Session!memory
    <2>2. Basics'
      BY <1>1, <2>1 DEF Basics, SessionTypes, BirthInv, CallsOK
    <2>3. calm => CalmInv'
      <3>1. Shrinks(list, list)
        BY <1>1, ItShrinks DEF Basics, SessionTypes
      <3> QED
        BY <1>1, <2>1, <3>1, CalmGoesOn
    <2> QED
      BY <2>1, <2>2, <2>3 DEF SessionInv, Basics
  <1>3. CASE Session!Next
    <2>1. Basics'
      BY <1>1, <1>3, SessionSteps, OnlyBasics, TurnBasics, TaskBasics
    <2>2. calm' => CalmInv'
      BY <1>3, SessionSteps, CalmOnly, CalmTurn, CalmTasks
    <2> QED
      BY <2>1, <2>2 DEF SessionInv, Basics
  <1> QED
    BY <1>2, <1>3

LEMMA SessionStart == ASSUME Session!Init PROVE SessionInv
  <1>1. RowIs(row) /\ ~row.there /\ row.messages = <<>>
    BY NewRowIs DEF Session!Init
  <1>2. Session!NewTurn \in TurnState /\ Session!NewTurn.step = "new"
    BY DEF Session!NewTurn, TurnState, TurnStep
  <1>3. /\ turn \in [Names -> TurnState] /\ \A t \in Names : turn[t] = Session!NewTurn
        /\ task \in [Handlers -> TaskState] /\ \A k \in Handlers : task[k] = Session!NoTask
    BY <1>2, NoTaskIs DEF Session!Init
  <1>4. \A i \in 1..Len(<<>>) : FALSE
    OBVIOUS
  <1>5. \A i \in 2..Len(<<>>) : FALSE
    OBVIOUS
  <1>6. SessionTypes
    <2>1. <<>> \in Seq(Pair) /\ 0 \in 0..MaxFaults /\ 0 \in 0..MaxTasks
      BY SessionConstants
    <2> QED
      BY <1>1, <1>3, <2>1, NoTaskIs DEF Session!Init, SessionTypes
  <1>7. /\ \A t \in Names : ~IsBusy(turn[t]) /\ ~IsThinking(turn[t]) /\ ~ToAnswer(turn[t]) /\ CallsOK(turn[t])
        /\ \A k \in Handlers : ~IsWorking(task[k]) /\ task[k].seen = <<>>
    BY <1>2, <1>3, NoTaskIs DEF IsBusy, IsThinking, ToAnswer, Owing, IsWorking, CallsOK
  <1>8. BirthInv
    BY <1>1, <1>7 DEF BirthInv, Session!Init
  <1>9. CalmInv
    <2>1. Alone
      BY <1>7 DEF Alone
    <2>2. Unsaid
      BY <1>1, <1>4, <1>7 DEF Unsaid, Mentions
    <2>3. Unlisted
      BY <1>4 DEF Unlisted, Listed, Session!Init
    <2>4. RowIsRight
      BY <1>1, <1>4, <1>5, <1>7 DEF RowIsRight, Honest
    <2>5. TasksAreRight
      BY <1>7 DEF TasksAreRight, InHand, IsWorking
    <2>6. ListIsRight
      BY <1>1, <1>4 DEF ListIsRight, Matched, Session!Init
    <2>7. LinkIsRight
      BY <1>1 DEF LinkIsRight
    <2> QED
      BY <2>1, <2>2, <2>3, <2>4, <2>5, <2>6, <2>7 DEF CalmInv
  <1> QED
    BY <1>6, <1>7, <1>8, <1>9 DEF SessionInv

SessionSide == side = "session" => SessionInv

LEMMA SessionSideHolds == AssistantSpec => []SessionSide
  <1>1. AssistantInit => SessionSide
    BY SessionStart DEF AssistantInit, SessionSide
  <1>2. SessionSide /\ [AssistantNext]_assistantVars => SessionSide'
    <2> SUFFICES ASSUME SessionSide, [AssistantNext]_assistantVars, side' = "session" PROVE SessionInv'
      BY DEF SessionSide
    <2>1. side = "session" /\ [Session!Next]_(Session!vars)
      BY DEF AssistantNext, assistantVars, sessionVars, Session!vars, Session!memory
    <2> QED
      BY <2>1, SessionGoesOn DEF SessionSide
  <1> QED
    BY <1>1, <1>2, PTL DEF AssistantSpec

(* As long as nothing overlapped and no call failed, the history that the  *)
(* next prompt is built from pairs every question with its own answer,     *)
(* tells none twice and none that was deleted                              *)
(* (rebuildNormalChatRedisHistory and the calls that save an answer), and  *)
(* an open link tells nothing deleted (CreateSharedLink); and whatever     *)
(* overlaps, a title the user gave stays (autoGenerateSessionTitle).       *)
THEOREM SessionsAreAlwaysHonest == AssistantSpec => []SessionsAreHonest
  <1>1. SessionSide => SessionsAreHonest
    <2> SUFFICES ASSUME SessionSide, side = "session"
                 PROVE  Session!HistoryIsHonest /\ Session!TitleIsTheUsers /\ Session!LinkHidesDeleted
      BY DEF SessionsAreHonest
    <2>1. SessionInv
      BY DEF SessionSide
    <2>2. list \in Seq(Pair) /\ row.messages \in Seq(Message)
      BY <2>1 DEF SessionInv, SessionTypes, RowIs, SessionRow
    <2>3. DOMAIN list = 1..Len(list) /\ DOMAIN row.messages = 1..Len(row.messages)
      BY <2>2
    <2>4. Session!HistoryIsHonest
      <3> SUFFICES ASSUME calm, Session!Quiet
                   PROVE  /\ Matched(list)
                          /\ row.there => \A i \in 1..Len(list), j \in 1..Len(row.messages) :
                                list[i].q = row.messages[j].turn => ~row.messages[j].deleted
        BY <2>3 DEF Session!HistoryIsHonest, Matched
      <3>1. \A k \in Handlers : task[k].step # "clear"
        BY QuietIs DEF IsWorking
      <3>2. Matched(list) /\ (row.there => HidesDeleted(list, row.messages))
        BY <2>1, <3>1 DEF SessionInv, CalmInv, ListIsRight
      <3> QED
        BY <3>2 DEF HidesDeleted, Listed
    <2>5. Session!TitleIsTheUsers
      BY <2>1 DEF SessionInv, BirthInv, Session!TitleIsTheUsers
    <2>6. Session!LinkHidesDeleted
      BY <2>1, <2>3 DEF SessionInv, CalmInv, LinkIsRight, Session!LinkHidesDeleted
    <2> QED
      BY <2>4, <2>5, <2>6
  <1> QED
    BY <1>1, SessionSideHolds, PTL

=============================================================================
