----------------------------- MODULE FlashCards -----------------------------
(***************************************************************************)
(* Flash cards and quizzes of one user about one document:                 *)
(* controllers/studytools.go.  Making either spends the day's quota, then  *)
(* asks a model, then writes rows one by one.  One card of each set is     *)
(* followed: its marks (SM-2), and what Redis keeps of it for an hour.     *)
(*                                                                         *)
(* A request is a handler between two of its calls; requests overlap.      *)
(***************************************************************************)
EXTENDS Integers, FiniteSets

CONSTANTS
    Handlers,       \* requests at work at a time
    Sets,           \* names a set of cards may get
    CardLimit, QuizLimit,       \* makings a day, by the user's tier
    MaxSets,        \* sets of a document (2 in the code)
    Qualities,      \* how well a card was recalled: 1..5 are meant, any number is taken
    LastDay, MaxRequests, MaxFaults,    \* bounds on the model
    None

QuotaAssumption ==
    /\ CardLimit \in Nat \ {0} /\ QuizLimit \in Nat \ {0}
    /\ Qualities \subseteq Int
    /\ LastDay \in Nat /\ MaxRequests \in Nat /\ MaxFaults \in Nat

Days == 0..LastDay
Kinds == {"cards", "quiz"}

VARIABLES
    today,
    quota,          \* the row of study_quota
    sets, card,     \* flashcard_sets, and the card followed of each
    quizzes,        \* rows of quizzes
    cache,          \* flashcards_set:<set>
    h, begun, faults,
    granted,        \* history: makings let through today
    recalls,        \* history: successful marks written
    overlapped      \* history: sets written between a reader's query and its cache entry's end

rowVars == <<sets, card, quizzes>>
history == <<granted, recalls, overlapped>>
vars == <<today, quota, rowVars, cache, h, begun, faults, history>>

Limit == [cards |-> CardLimit, quiz |-> QuizLimit]
Other(kind) == IF kind = "cards" THEN "quiz" ELSE "cards"

(* A card of the table: ease is in hundredths.                             *)
CardRow == [remembered : BOOLEAN, interval : Nat, ease : Nat, reps : Nat, next : Nat \cup {None}]
NewCard == [remembered |-> FALSE, interval |-> 1, ease |-> 250, reps |-> 0, next |-> None]
Idle == [op |-> "none", step |-> "idle", set |-> None, seen |-> None, quality |-> 0]

(* No card, no set.                                                        *)
NoneAssumption == None \notin CardRow \cup Sets

Init ==
    /\ today = 0
    /\ quota = [day |-> 0, used |-> [k \in Kinds |-> 0]]
    /\ sets = {} /\ card = [s \in Sets |-> None] /\ quizzes = 0
    /\ cache = [s \in Sets |-> None]
    /\ h = [w \in Handlers |-> Idle] /\ begun = 0 /\ faults = 0
    /\ granted = [k \in Kinds |-> 0]
    /\ recalls = [s \in Sets |-> 0]
    /\ overlapped = {}

At(w, op, step) == h[w].op = op /\ h[w].step = step
Goes(w, step) == h' = [h EXCEPT ![w].step = step] /\ UNCHANGED begun
Leaves(w) == h' = [h EXCEPT ![w] = Idle] /\ UNCHANGED begun

Begins(w, request) ==
    /\ h[w] = Idle
    /\ begun < MaxRequests /\ begun' = begun + 1
    /\ h' = [h EXCEPT ![w] = request]

Fails == faults < MaxFaults /\ faults' = faults + 1

-----------------------------------------------------------------------------
(* The quota.                                                              *)

(* checkStudyQuota: one UPDATE that starts a new day for both counters,    *)
(* or counts on, unless the limit is reached.                              *)
Open(kind) == quota.day < today \/ quota.used[kind] < Limit[kind]

(* Mutant of Counted: the other kind's counter is left as it was.          *)
CountedAlone(kind) ==
    [day |-> today,
     used |-> [quota.used EXCEPT ![kind] = IF quota.day < today THEN 1 ELSE @ + 1]]

Counted(kind) ==
    [day |-> today,
     used |-> IF quota.day < today THEN [k \in Kinds |-> IF k = kind THEN 1 ELSE 0]
              ELSE [quota.used EXCEPT ![kind] = @ + 1]]

Grant(w, kind) ==
    /\ quota' = Counted(kind)
    /\ granted' = [granted EXCEPT ![kind] = @ + 1]
    /\ Goes(w, "ask")
    /\ UNCHANGED <<today, rowVars, cache, faults, recalls, overlapped>>

Refuse(w) == Leaves(w) /\ UNCHANGED <<today, quota, rowVars, cache, faults, history>>

(* GenerateFlashcards: the sets of the document are counted first.         *)
CountSets(w) ==
    /\ Cardinality(sets) < MaxSets
    /\ Begins(w, [Idle EXCEPT !.op = "cards", !.step = "quota"])
    /\ UNCHANGED <<today, quota, rowVars, cache, faults, history>>

SpendCards(w) ==
    /\ At(w, "cards", "quota")
    /\ IF Open("cards") THEN Grant(w, "cards") ELSE Refuse(w)

(* GenerateQuiz has the quota only.                                        *)
SpendQuiz(w) ==
    /\ Open("quiz")
    /\ Begins(w, [Idle EXCEPT !.op = "quiz", !.step = "ask"])
    /\ quota' = Counted("quiz")
    /\ granted' = [granted EXCEPT !["quiz"] = @ + 1]
    /\ UNCHANGED <<today, rowVars, cache, faults, recalls, overlapped>>

(* No pieces of text, no answer of three providers, or none that parses:   *)
(* the handler ends, and what it spent stays spent.                        *)
GetNothing(w) ==
    /\ h[w].step = "ask"
    /\ Leaves(w)
    /\ UNCHANGED <<today, quota, rowVars, cache, faults, history>>

-----------------------------------------------------------------------------
(* Rows.                                                                   *)

(* What a write to the card of s does to readers and to the cache.         *)
Writes(s) ==
    overlapped' = IF cache[s] # None \/ \E w \in Handlers : At(w, "read", "fill") /\ h[w].set = s
                  THEN overlapped \cup {s} ELSE overlapped

(* The set's row is written before its cards.                              *)
InsertSet(w, s) ==
    /\ At(w, "cards", "ask")
    /\ s \notin sets
    /\ sets' = sets \cup {s}
    /\ h' = [h EXCEPT ![w].step = "insert", ![w].set = s]
    /\ UNCHANGED <<today, quota, card, quizzes, cache, begun, faults, history>>

(* A card that cannot be inserted is left out; the handler goes on.        *)
InsertCard(w) ==
    /\ At(w, "cards", "insert")
    /\ \/ /\ card' = [card EXCEPT ![h[w].set] = NewCard]
          /\ Writes(h[w].set)
          /\ UNCHANGED faults
       \/ Fails /\ UNCHANGED <<card, overlapped>>
    /\ Leaves(w)
    /\ UNCHANGED <<today, quota, sets, quizzes, cache, granted, recalls>>

InsertQuiz(w) ==
    /\ At(w, "quiz", "ask")
    /\ quizzes' = quizzes + 1
    /\ Leaves(w)
    /\ UNCHANGED <<today, quota, sets, card, cache, faults, history>>

-----------------------------------------------------------------------------
(* Reading a set, through Redis.                                           *)

(* GetFlashcards: nothing is cached.                                       *)
MissCache(w, s) ==
    /\ s \in sets /\ cache[s] = None
    /\ Begins(w, [Idle EXCEPT !.op = "read", !.step = "query", !.set = s])
    /\ UNCHANGED <<today, quota, rowVars, cache, faults, history>>

QueryCards(w) ==
    /\ At(w, "read", "query")
    /\ h' = [h EXCEPT ![w].step = "fill", ![w].seen = card[h[w].set]]
    /\ UNCHANGED <<today, quota, rowVars, cache, begun, faults, history>>

(* Set, for an hour; the card may be absent.                               *)
FillCache(w) ==
    /\ At(w, "read", "fill")
    /\ cache' = [cache EXCEPT ![h[w].set] = [card |-> h[w].seen]]
    /\ Leaves(w)
    /\ UNCHANGED <<today, quota, rowVars, faults, history>>

(* No entry and no reader that could write one: the overlap is over.       *)
Over(s) == \A w \in Handlers : ~(At(w, "read", "fill") /\ h[w].set = s)

CacheExpires(s) ==
    /\ cache[s] # None
    /\ cache' = [cache EXCEPT ![s] = None]
    /\ overlapped' = IF Over(s) THEN overlapped \ {s} ELSE overlapped
    /\ UNCHANGED <<today, quota, rowVars, h, begun, faults, granted, recalls>>

-----------------------------------------------------------------------------
(* Marking a card.                                                         *)

AtLeast(n, least) == IF n < least THEN least ELSE n

(* Mutant of Interval: a forgotten card keeps its interval.                *)
IntervalKept(c, quality) ==
    CASE c.reps = 0 -> 1
      [] c.reps = 1 -> 6
      [] OTHER -> AtLeast((c.interval * c.ease) \div 100, 1)

(* sm2Update, in hundredths.  It also works out repetitions, 0 for a card  *)
(* that was forgotten, and throws them away: UpdateCard counts its own.    *)
Interval(c, quality) ==
    IF quality < 3 THEN 1
    ELSE CASE c.reps = 0 -> 1
           [] c.reps = 1 -> 6
           [] OTHER -> AtLeast((c.interval * c.ease) \div 100, 1)

Ease(c, quality) ==
    LET short == 5 - quality
    IN  AtLeast(c.ease + 10 - short * (8 + 2 * short), 130)

(* MarkFlashcard reads the card ...                                        *)
ReadMark(w, s, quality) ==
    /\ card[s] # None
    /\ Begins(w, [op |-> "mark", step |-> "update", set |-> s,
                  seen |-> card[s], quality |-> quality])
    /\ UNCHANGED <<today, quota, rowVars, cache, faults, history>>

(* Mutant of Marked: the repetitions too are counted from what was read.   *)
MarkedFromRead(w) ==
    LET quality == h[w].quality
        interval == Interval(h[w].seen, quality)
    IN  [remembered |-> quality >= 3,
         interval |-> interval,
         ease |-> Ease(h[w].seen, quality),
         reps |-> h[w].seen.reps + IF quality >= 3 THEN 1 ELSE 0,
         next |-> today + interval]

(* ... and writes it: interval and ease from what it read, the repetitions *)
(* relative to what the row holds.                                         *)
Marked(w) ==
    LET quality == h[w].quality
        interval == Interval(h[w].seen, quality)
    IN  [remembered |-> quality >= 3,
         interval |-> interval,
         ease |-> Ease(h[w].seen, quality),
         reps |-> card[h[w].set].reps + IF quality >= 3 THEN 1 ELSE 0,
         next |-> today + interval]

UpdateCard(w) ==
    /\ At(w, "mark", "update")
    /\ LET s == h[w].set
       IN  /\ card' = [card EXCEPT ![s] = Marked(w)]
           /\ recalls' = IF h[w].quality >= 3 THEN [recalls EXCEPT ![s] = @ + 1] ELSE recalls
           /\ Writes(s)
    /\ Goes(w, "uncache")
    /\ UNCHANGED <<today, quota, sets, quizzes, cache, faults, granted>>

UpdateFails(w) ==
    /\ At(w, "mark", "update")
    /\ Fails /\ Leaves(w)
    /\ UNCHANGED <<today, quota, rowVars, cache, history>>

(* Mutant of Dropped: nothing is.                                          *)
Kept(s) == cache

(* Del; its error is not looked at.                                        *)
Dropped(s) == [cache EXCEPT ![s] = None]

Uncache(w) ==
    /\ At(w, "mark", "uncache")
    /\ \/ /\ cache' = Dropped(h[w].set)
          /\ overlapped' = IF Over(h[w].set) THEN overlapped \ {h[w].set} ELSE overlapped
          /\ UNCHANGED faults
       \/ Fails /\ UNCHANGED <<cache, overlapped>>
    /\ Leaves(w)
    /\ UNCHANGED <<today, quota, rowVars, granted, recalls>>

(* GetDueFlashcards.                                                       *)
Due(c) == c.next = None \/ c.next <= today + 1

Midnight ==
    /\ today < LastDay
    /\ today' = today + 1
    /\ granted' = [k \in Kinds |-> 0]
    /\ UNCHANGED <<quota, rowVars, cache, h, begun, faults, recalls, overlapped>>

-----------------------------------------------------------------------------

Next ==
    \/ \E w \in Handlers :
        \/ CountSets(w) \/ SpendCards(w) \/ SpendQuiz(w) \/ GetNothing(w)
        \/ \E s \in Sets : InsertSet(w, s)
        \/ InsertCard(w) \/ InsertQuiz(w)
        \/ \E s \in Sets : MissCache(w, s)
        \/ QueryCards(w) \/ FillCache(w)
        \/ \E s \in Sets, quality \in Qualities : ReadMark(w, s, quality)
        \/ UpdateCard(w) \/ UpdateFails(w) \/ Uncache(w)
    \/ \E s \in Sets : CacheExpires(s)
    \/ Midnight

Spec == Init /\ [][Next]_vars

-----------------------------------------------------------------------------

TypeOK ==
    /\ today \in Days
    /\ quota \in [day : Days, used : [Kinds -> Nat]]
    /\ sets \subseteq Sets
    /\ card \in [Sets -> CardRow \cup {None}]
    /\ quizzes \in Nat
    /\ cache \in [Sets -> [card : CardRow \cup {None}] \cup {None}]
    /\ h \in [Handlers -> [op : {"none", "cards", "quiz", "read", "mark"},
                           step : {"idle", "quota", "ask", "insert", "query", "fill", "update", "uncache"},
                           set : Sets \cup {None}, seen : CardRow \cup {None},
                           quality : Qualities \cup {0}]]
    /\ begun \in 0..MaxRequests /\ faults \in 0..MaxFaults
    /\ granted \in [Kinds -> Nat]
    /\ recalls \in [Sets -> Nat]
    /\ overlapped \subseteq Sets

(* The row of study_quota says of its day what was let through on it, of   *)
(* cards and of quizzes alike, and no day lets through more than the tier's *)
(* limit, whatever requests overlap and on whichever kind a day begins     *)
(* (the UPDATE of checkStudyQuota resets both counters).                   *)
QuotaCountsToday ==
    /\ quota.day <= today
    /\ \A k \in Kinds :
        /\ granted[k] = IF quota.day = today THEN quota.used[k] ELSE 0
        /\ granted[k] <= Limit[k]

(* The repetitions of a card are its successful marks, all of them: of     *)
(* marks that overlap none is lost, although the interval comes from what  *)
(* each had read, and none is taken back when the card is forgotten: the   *)
(* reset of sm2Update is not written (MarkFlashcard), so the next success  *)
(* is scheduled as one of a long series.  And a card the user last forgot  *)
(* is due again by the next day.                                           *)
RecallsAreCounted ==
    \A s \in sets : card[s] # None =>
        /\ card[s].reps = recalls[s]
        /\ ~card[s].remembered => Due(card[s])

(* Redis shows a set as the table has it, but for a mark that is still to  *)
(* drop the entry, one whose Del failed, and a write that fell between a   *)
(* reader's query and its entry: also the insertion of the cards, which    *)
(* drops no entry (GetFlashcards, MarkFlashcard).                          *)
ShownSetIsCurrent ==
    \A s \in sets : cache[s] # None /\ cache[s].card # card[s] =>
        s \in overlapped
=============================================================================
