------------------------------ MODULE Progress ------------------------------
(***************************************************************************)
(* What a user has to show for studying: quiz attempts, badges, the streak *)
(* of days and a plan for an exam (SubmitQuiz of studytools.go,            *)
(* gamification.go, study_planner.go).  Three of the seven badges are      *)
(* modelled: two that are never unlearned, and one that a missed day takes *)
(* back; the others are counts of rows of other tables.                    *)
(***************************************************************************)
EXTENDS Integers, FiniteSets, Sequences

CONSTANTS
    Checks,         \* runs of CheckAndAwardBadges at a time
    Questions,      \* of the quiz, each with its right option
    Week,           \* days of week_streak (7 in the code)
    DayLength,      \* hours of a day (24)
    Chunks,         \* how many pieces a plan's documents may have
    LastHour, MaxActions, MaxFaults,    \* bounds on the model
    None

ProgressAssumption ==
    /\ Week \in Nat \ {0} /\ DayLength \in Nat \ {0}
    /\ Chunks \subseteq Nat /\ IsFiniteSet(Questions)
    /\ LastHour \in Nat /\ MaxActions \in Nat /\ MaxFaults \in Nat

Right == 0..1                   \* options of a question; 1 is the right one
badgeDefs == <<"first_quiz", "quiz_master", "week_streak">>
Badges == {badgeDefs[i] : i \in 1..Len(badgeDefs)}

StreakRow == [current : Nat, longest : Nat, last : Nat]
PlanRow == [exam : Nat, made : Nat, total : Nat, perDay : Nat]

(* No row.                                                                 *)
NoneAssumption == None \notin StreakRow \cup PlanRow

VARIABLES
    hour,
    attempts,       \* the scores of the rows of quiz_attempts
    badges,         \* rows of user_badges
    marker,         \* earned_badges:<user>_checked, for ten minutes
    check, acted, faults,
    streak,         \* the row of user_streaks
    plan,           \* a row of study_plans
    visited,        \* history: days of which a visit was written down
    skipped         \* history: a check found the marker, and none has run since

studyVars == <<attempts, badges, marker, check, acted, faults, skipped>>
vars == <<hour, studyVars, streak, plan, visited>>

Today == hour \div DayLength

Idle == [step |-> "idle", earned |-> {}, n |-> 0]

Init ==
    /\ hour = 0
    /\ attempts = {} /\ badges = {} /\ marker = FALSE
    /\ check = [g \in Checks |-> Idle] /\ acted = 0 /\ faults = 0
    /\ streak = None /\ plan = None
    /\ visited = {} /\ skipped = FALSE

-----------------------------------------------------------------------------
(* Study actions; each starts a check of its own.                          *)

Starts(g) ==
    /\ check[g] = Idle
    /\ acted < MaxActions /\ acted' = acted + 1
    /\ check' = [check EXCEPT ![g].step = "marker"]
    /\ UNCHANGED <<hour, badges, marker, faults, skipped, streak, plan, visited>>

(* SubmitQuiz: what was answered is scored, not what was asked; an answer  *)
(* that is no number counts as option 0.                                   *)
Option(answer) == IF answer = None THEN 0 ELSE answer

Score(answers) ==
    LET correct == {q \in DOMAIN answers : Option(answers[q]) = 1}
    IN  IF answers = << >> THEN 0
        ELSE (100 * Cardinality(correct)) \div Cardinality(DOMAIN answers)

Answers == UNION {[asked -> Right \cup {None}] : asked \in SUBSET Questions}

SubmitQuiz(g) ==
    /\ Starts(g)
    /\ \E answers \in Answers : attempts' = attempts \cup {Score(answers)}

(* MarkFlashcard (FlashCards has the mark itself).                         *)
MarkCard(g) == Starts(g) /\ UNCHANGED attempts

-----------------------------------------------------------------------------
(* CheckAndAwardBadges.                                                    *)

Merit(b) ==
    CASE b = "first_quiz" -> attempts # {}
      [] b = "quiz_master" -> 100 \in attempts
      [] b = "week_streak" -> streak # None /\ streak.current >= Week

CheckMarker(g) ==
    /\ check[g].step = "marker"
    /\ check' = [check EXCEPT ![g] = IF marker THEN Idle ELSE [@ EXCEPT !.step = "earned"]]
    /\ skipped' = marker
    /\ UNCHANGED <<hour, attempts, badges, marker, acted, faults, streak, plan, visited>>

ReadEarned(g) ==
    /\ check[g].step = "earned"
    /\ \/ /\ check' = [check EXCEPT ![g] = [step |-> "badge", earned |-> badges, n |-> 1]]
          /\ UNCHANGED faults
       \/ /\ faults < MaxFaults /\ faults' = faults + 1
          /\ check' = [check EXCEPT ![g] = Idle]
    /\ UNCHANGED <<hour, attempts, badges, marker, acted, skipped, streak, plan, visited>>

AfterBadge(g) ==
    IF check[g].n < Len(badgeDefs) THEN [check[g] EXCEPT !.n = @ + 1]
    ELSE [check[g] EXCEPT !.step = "mark"]

(* Mutant of AfterEarned: the first badge already earned ends the check.   *)
EndsAtEarned(g) == [check[g] EXCEPT !.step = "mark"]

AfterEarned(g) == AfterBadge(g)

CheckBadge(g) ==
    LET b == badgeDefs[check[g].n]
    IN  /\ check[g].step = "badge"
        /\ IF b \in check[g].earned
           THEN check' = [check EXCEPT ![g] = AfterEarned(g)] /\ UNCHANGED <<badges, faults>>
           ELSE /\ check' = [check EXCEPT ![g] = AfterBadge(g)]
                /\ \/ badges' = badges \cup (IF Merit(b) THEN {b} ELSE {}) /\ UNCHANGED faults
                   \/ faults < MaxFaults /\ faults' = faults + 1 /\ UNCHANGED badges
        /\ UNCHANGED <<hour, attempts, marker, acted, skipped, streak, plan, visited>>

SetMarker(g) ==
    /\ check[g].step = "mark"
    /\ marker' = TRUE
    /\ check' = [check EXCEPT ![g] = Idle]
    /\ UNCHANGED <<hour, attempts, badges, acted, faults, skipped, streak, plan, visited>>

MarkerExpires ==
    /\ marker /\ marker' = FALSE
    /\ UNCHANGED <<hour, attempts, badges, check, acted, faults, skipped, streak, plan, visited>>

-----------------------------------------------------------------------------
(* The streak.                                                             *)

Larger(a, b) == IF a < b THEN b ELSE a

(* Mutant of Current: a second look on the same day starts anew.           *)
CurrentAnew(s) == IF s.last = Today - 1 THEN s.current + 1 ELSE 1

Current(s) ==
    CASE s.last = Today - 1 -> s.current + 1
      [] s.last = Today -> s.current
      [] OTHER -> 1

Counted ==
    IF streak = None THEN [current |-> 1, longest |-> 1, last |-> Today]
    ELSE [current |-> Current(streak),
          longest |-> Larger(streak.longest,
                             IF streak.last = Today - 1 THEN streak.current + 1 ELSE 1),
          last |-> Today]

(* GetStreak: one upsert, then the row is shown.  The error of the upsert  *)
(* is dropped: the row stays as it was, and the day is not one of its run. *)
GetStreak ==
    /\ \/ streak' = Counted /\ visited' = visited \cup {Today}
       \/ UNCHANGED <<streak, visited>>
    /\ UNCHANGED <<hour, studyVars, plan>>

-----------------------------------------------------------------------------
(* The plan.                                                               *)

CeilDiv(a, b) == (a + b - 1) \div b

DaysLeft(exam) == CeilDiv(exam * DayLength - hour, DayLength)
Pages(chunks) == CeilDiv(chunks, 4)

(* Mutant of PagesPerDay: rounded down.                                    *)
PagesPerDayDown(pages, days) == IF days > 0 THEN pages \div days ELSE 0

PagesPerDay(pages, days) == IF days > 0 THEN CeilDiv(pages, days) ELSE 0

(* CreateStudyPlan: the exam is the first hour of its day.                 *)
CreateStudyPlan(exam, chunks) ==
    /\ plan = None
    /\ exam * DayLength >= hour
    /\ plan' = [exam |-> exam, made |-> Today, total |-> Pages(chunks),
                perDay |-> PagesPerDay(Pages(chunks), DaysLeft(exam))]
    /\ UNCHANGED <<hour, studyVars, streak, visited>>

DeleteStudyPlan ==
    /\ plan # None /\ plan' = None
    /\ UNCHANGED <<hour, studyVars, streak, visited>>

Pass ==
    /\ hour < LastHour /\ hour' = hour + 1
    /\ UNCHANGED <<studyVars, streak, plan, visited>>

-----------------------------------------------------------------------------

Next ==
    \/ \E g \in Checks :
        \/ SubmitQuiz(g) \/ MarkCard(g)
        \/ CheckMarker(g) \/ ReadEarned(g) \/ CheckBadge(g) \/ SetMarker(g)
    \/ MarkerExpires
    \/ GetStreak
    \/ \E exam \in 0..(LastHour \div DayLength), chunks \in Chunks : CreateStudyPlan(exam, chunks)
    \/ DeleteStudyPlan
    \/ Pass

Spec == Init /\ [][Next]_vars

-----------------------------------------------------------------------------

TypeOK ==
    /\ hour \in 0..LastHour
    /\ attempts \subseteq 0..100 /\ badges \subseteq Badges /\ marker \in BOOLEAN
    /\ check \in [Checks -> [step : {"idle", "marker", "earned", "badge", "mark"},
                             earned : SUBSET Badges, n : 0..Len(badgeDefs)]]
    /\ acted \in 0..MaxActions /\ faults \in 0..MaxFaults
    /\ streak \in StreakRow \cup {None} /\ plan \in PlanRow \cup {None}
    /\ visited \subseteq 0..(LastHour \div DayLength) /\ skipped \in BOOLEAN

(* When no check is at work and the last one did not stop at the marker,   *)
(* every badge of a quiz that was earned has been given, although checks   *)
(* overlap attempts and each other and each reads the badges given only    *)
(* once (CheckAndAwardBadges); an INSERT that failed is made up for by no  *)
(* promise.                                                                *)
NoBadgeForgotten ==
    (\A g \in Checks : check[g] = Idle) /\ ~skipped /\ faults = 0 =>
        \A b \in {"first_quiz", "quiz_master"} : Merit(b) => b \in badges

Visited(from, to) == from..to \subseteq visited

(* The streak is the run of days that ends with the last visit written     *)
(* down, and the longest is the longest run there was, however often a day *)
(* is looked at.  A visit counts when its upsert did: the day of one that  *)
(* failed breaks the run, and is made up for by a later look on that day   *)
(* only (GetStreak).                                                       *)
StreakIsARun ==
    streak # None =>
        LET first == streak.last - streak.current + 1
        IN  /\ \A d \in visited : d <= streak.last
            /\ Visited(first, streak.last) /\ first - 1 \notin visited
            /\ \E d \in visited : Visited(d, d + streak.longest - 1)
            /\ \A d \in visited : ~Visited(d, d + streak.longest)

(* The pages a day of a plan reach its total by the day of the exam, and   *)
(* one page less would not (CreateStudyPlan); an exam that begins this     *)
(* very hour leaves no day.                                                *)
PlanReachesTheExam ==
    plan # None /\ plan.exam > plan.made =>
        LET days == plan.exam - plan.made
        IN  /\ plan.perDay * days >= plan.total
            /\ plan.perDay > 0 => (plan.perDay - 1) * days < plan.total
=============================================================================
