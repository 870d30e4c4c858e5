---------------------------- MODULE ChatSession ----------------------------
(***************************************************************************)
(* One chat session: controllers/chat.go and session.go (a chat about a    *)
(* document), global_ai_chat.go (the chat about the whole library) and     *)
(* share.go (its shared link).                                             *)
(*                                                                         *)
(* The session is kept twice: as a row of chat_histories with its          *)
(* messages, and as a list of question and answer pairs in Redis, from     *)
(* which the next prompt is built.  Turns, edits of messages, readings     *)
(* that complete log ids and the making of a link run side by side; every  *)
(* call of PostgreSQL and of Redis is a step.  What is asked and answered  *)
(* is told apart by its turn only; whether a filter or the answer cache    *)
(* answers at once is left open.                                           *)
(***************************************************************************)
EXTENDS Naturals, Sequences, FiniteSets

CONSTANTS
    Turns,          \* questions asked in the session
    Tasks,          \* edits, readings and sharings that may run at a time
    KeptMessages,   \* maxStoredChatMessages
    KeptPairs,      \* normalChatRedisPairLimit
    TierPairs,      \* tierContextTurns of the user
    Lanes, MaxTasks, MaxFaults, \* bounds on the model: at work at a time, tasks, failed calls
    None            \* no turn

ChatAssumption ==
    /\ KeptMessages \in Nat \ {0} /\ KeptPairs \in Nat \ {0} /\ TierPairs \in Nat \ {0}
    /\ Lanes \in Nat /\ MaxTasks \in Nat /\ MaxFaults \in Nat
    /\ None \notin Turns

Scopes == {"document", "global"}    \* chat_scope
Message == [turn : Turns, role : {"user", "assistant"}, deleted : BOOLEAN, logged : BOOLEAN]

VARIABLES
    scope,
    row,            \* chat_histories: there, messages, count, title, summary
    list, lives,    \* session:<id>, and whether it has a lifetime
    turn,           \* of each turn: its step, the calls that save it, canned or not
    naming,         \* turns whose autoGenerateSessionTitle runs
    task,           \* the edits, readings and sharings at work
    link,           \* the shared link: "none", "open", "closed"
    faults,
    born, named,    \* history: a row was made; the user gave a title
    began,          \* history: tasks begun
    shown,          \* history: the messages that the link's summary tells
    calm            \* history: no two activities overlapped and no call failed

memory == <<list, lives>>
vars == <<scope, row, memory, turn, naming, task, link, faults, born, named, began, shown, calm>>

NoRow == [there |-> FALSE, messages |-> <<>>, count |-> 0, title |-> "none", summary |-> FALSE]
NewRow == [NoRow EXCEPT !.there = TRUE, !.title = IF scope = "global" THEN "default" ELSE "none"]
NewTurn == [step |-> "new", calls |-> <<>>, canned |-> FALSE, first |-> TRUE]
NoTask == [step |-> "idle", seen |-> <<>>]

Init ==
    /\ scope \in Scopes
    /\ row = NoRow
    /\ list = <<>> /\ lives = FALSE
    /\ turn = [t \in Turns |-> NewTurn]
    /\ naming = {}
    /\ task = [k \in Tasks |-> NoTask]
    /\ link = "none" /\ shown = {}
    /\ faults = 0 /\ born = FALSE /\ named = FALSE /\ began = 0 /\ calm = TRUE

-----------------------------------------------------------------------------
AtWork == {t \in Turns : turn[t].step \notin {"new", "out"}} \cup {k \in Tasks : task[k].step # "idle"}
Quiet == AtWork = {}

Starts == Cardinality(AtWork) < Lanes /\ calm' = (calm /\ Quiet)

Goes(t, step) == turn' = [turn EXCEPT ![t].step = step]
Ends(t) == turn' = [turn EXCEPT ![t] = [NewTurn EXCEPT !.step = "out"]]

(* A call succeeds, or fails and is only logged.                           *)
Succeeds == UNCHANGED <<faults, calm>>
Fails == faults < MaxFaults /\ faults' = faults + 1 /\ calm' = FALSE

Newest(seq, n) == SubSeq(seq, IF Len(seq) > n THEN Len(seq) - n + 1 ELSE 1, Len(seq))

(* Mutant of Append1: the row keeps every message.                         *)
AppendUncut(m) ==
    IF row.there
    THEN [row EXCEPT !.messages = Append(@, m), !.count = @ + 1]
    ELSE row

(* appendChatHistoryMessage: one UPDATE; a missing row is no error.        *)
Append1(m) ==
    IF row.there
    THEN [row EXCEPT !.messages = Newest(Append(@, m), KeptMessages), !.count = @ + 1]
    ELSE row

Appends(m) ==
    \/ row' = Append1(m) /\ Succeeds
    \/ UNCHANGED row /\ Fails

others == <<scope, naming, task, link, shown, born, named, began>>

-----------------------------------------------------------------------------
At(t, s, step) == scope = s /\ turn[t].step = step

Creates ==
    /\ ~born /\ born' = TRUE
    /\ row' = NewRow
    /\ UNCHANGED <<scope, memory, turn, naming, task, link, shown, faults, named, began, calm>>

(* A session before its first turn.                                        *)
CreateSession == scope = "document" /\ Creates
CreateGlobalAISession == scope = "global" /\ Creates

EndsTurn(t) == Ends(t) /\ UNCHANGED <<others, row, memory, faults, calm>>
SavesTurn(t, calls, canned) ==
    /\ turn' = [turn EXCEPT ![t] = [step |-> "save", calls |-> calls, canned |-> canned, first |-> TRUE]]
    /\ UNCHANGED <<others, row, memory, faults, calm>>
StepsTurn(t, step, first) ==
    /\ turn' = [turn EXCEPT ![t].step = step, ![t].first = first]
    /\ UNCHANGED <<others, row, memory, faults, calm>>

(* The session is checked.  The first turn makes its row; a turn that      *)
(* finds none any more goes on in another session.                         *)
EntersSession(t) ==
    /\ \/ row.there /\ Goes(t, "question") /\ Starts /\ UNCHANGED <<row, born, faults>>
       \/ /\ ~row.there /\ ~born /\ born' = TRUE
          /\ Goes(t, "question")
          /\ \/ row' = NewRow /\ Starts /\ UNCHANGED faults
             \/ UNCHANGED row /\ Fails
       \/ ~row.there /\ born /\ Ends(t) /\ UNCHANGED <<row, born, faults, calm>>
    /\ UNCHANGED <<scope, memory, naming, task, link, shown, named, began>>

(* The order in which an answer is saved: saveHardcodedToHistory, the end  *)
(* of ChatMessage, persistGlobalAIConversation.                            *)
CannedCalls == <<"answer", "push", "trim", "expire">>
DocumentCalls == <<"push", "trim", "expire", "answer">>
GlobalCalls == <<"push", "trim", "expire", "answer", "summary">>

Question(t) == [turn |-> t, role |-> "user", deleted |-> FALSE, logged |-> FALSE]

-----------------------------------------------------------------------------
(* ChatMessage.                                                            *)

(* The document is gone or has expired, or the request is not valid.       *)
RefuseTurn(t) == At(t, "document", "new") /\ EndsTurn(t)

OpenTurn(t) == At(t, "document", "new") /\ EntersSession(t)

(* INVALID_ATTACHMENTS.                                                    *)
RefuseAttachments(t) == At(t, "document", "question") /\ EndsTurn(t)

SaveQuestion(t) ==
    /\ At(t, "document", "question")
    /\ Appends(Question(t)) /\ Goes(t, "filter")
    /\ UNCHANGED <<others, memory>>

(* The keyword filters and the answer cache answer at once.                *)
AnswerAtOnce(t) == At(t, "document", "filter") /\ SavesTurn(t, CannedCalls, TRUE)

(* LRange -3 -1; an error counts as no history.                            *)
Recall(t) ==
    /\ At(t, "document", "filter")
    /\ \E first \in {list = <<>>, TRUE} : StepsTurn(t, "search", first)

(* No embedding: the question stays without an answer.                     *)
EmbeddingFails(t) == At(t, "document", "search") /\ EndsTurn(t)

(* Nothing near a first question was found, in the document or in what the *)
(* session is about: it is turned down.  Later ones are answered freely.   *)
FindNothing(t) == At(t, "document", "search") /\ turn[t].first /\ SavesTurn(t, CannedCalls, TRUE)

(* Chunks, the web and the pictures go into the prompt.                    *)
Found(t) == At(t, "document", "search") /\ StepsTurn(t, "ask", TRUE)

(* ChatStream; a failure saves nothing.                                    *)
Ask(t) ==
    /\ At(t, "document", "ask")
    /\ EndsTurn(t) \/ SavesTurn(t, DocumentCalls, FALSE)

-----------------------------------------------------------------------------
(* GlobalAIMessage.                                                        *)

OpenGlobalTurn(t) == At(t, "global", "new") /\ EntersSession(t)

SaveGlobalQuestion(t) ==
    /\ At(t, "global", "question")
    /\ Appends(Question(t)) /\ Goes(t, "filter")
    /\ UNCHANGED <<others, memory>>

AnswerGlobalAtOnce(t) == At(t, "global", "filter") /\ SavesTurn(t, CannedCalls, TRUE)

(* loadSessionHistorySummary: the list, or the summary of the row.         *)
RecallGlobal(t) ==
    /\ At(t, "global", "filter")
    /\ \E first \in {list = <<>> /\ ~row.summary, ~row.summary} : StepsTurn(t, "search", first)

GlobalEmbeddingFails(t) == At(t, "global", "search") /\ EndsTurn(t)

(* No document, no web page and no video: the answer says so.              *)
FindNothingGlobal(t) == At(t, "global", "search") /\ SavesTurn(t, GlobalCalls, FALSE)

FoundGlobal(t) == At(t, "global", "search") /\ StepsTurn(t, "ask", TRUE)

(* The dispatcher's Run.                                                   *)
AskGlobal(t) ==
    /\ At(t, "global", "ask")
    /\ EndsTurn(t) \/ SavesTurn(t, GlobalCalls, FALSE)

-----------------------------------------------------------------------------
(* The goroutine that saves an answer.                                     *)

Calls(t, call) == turn[t].step = "save" /\ turn[t].calls # <<>> /\ Head(turn[t].calls) = call

Returns(t) ==
    IF Len(turn[t].calls) = 1 THEN Ends(t) ELSE turn' = [turn EXCEPT ![t].calls = Tail(@)]

Push(t) ==
    /\ Calls(t, "push")
    /\ \/ list' = Append(list, [q |-> t, a |-> t]) /\ Succeeds
       \/ UNCHANGED list /\ Fails
    /\ Returns(t)
    /\ UNCHANGED <<others, row, lives>>

PairLimit(t) == IF scope = "global" /\ ~turn[t].canned THEN TierPairs ELSE KeptPairs

TrimList(t) ==
    /\ Calls(t, "trim")
    /\ \/ list' = Newest(list, PairLimit(t)) /\ Succeeds
       \/ UNCHANGED list /\ Fails
    /\ Returns(t)
    /\ UNCHANGED <<others, row, lives>>

(* EXPIRE of a missing key does nothing.                                   *)
ExpireList(t) ==
    /\ Calls(t, "expire")
    /\ \/ lives' = (list # <<>>) /\ Succeeds
       \/ UNCHANGED lives /\ Fails
    /\ Returns(t)
    /\ UNCHANGED <<others, row, list>>

SaveAnswer(t) ==
    /\ Calls(t, "answer")
    /\ Appends([turn |-> t, role |-> "assistant", deleted |-> FALSE, logged |-> ~turn[t].canned])
    /\ Returns(t)
    /\ UNCHANGED <<others, memory>>

(* The summary if there is none; early in a session a title is asked for.  *)
Summarize(t) ==
    /\ Calls(t, "summary")
    /\ \/ row' = [row EXCEPT !.summary = row.there] /\ Succeeds
       \/ UNCHANGED row /\ Fails
    /\ naming' = IF row.count <= 2 THEN naming \cup {t} ELSE naming
    /\ Returns(t)
    /\ UNCHANGED <<scope, memory, task, link, shown, born, named, began>>

(* Mutant of AutoTitle: the title is set whatever it is.                   *)
AutoTitleAnyway(t) ==
    /\ t \in naming /\ naming' = naming \ {t}
    /\ \/ row' = IF row.there THEN [row EXCEPT !.title = "auto"] ELSE row
       \/ UNCHANGED row
    /\ UNCHANGED <<scope, memory, turn, task, link, shown, faults, born, named, began, calm>>

(* autoGenerateSessionTitle; the model may fail.                           *)
AutoTitle(t) ==
    /\ t \in naming /\ naming' = naming \ {t}
    /\ \/ row.title = "default" /\ row' = [row EXCEPT !.title = "auto"]
       \/ UNCHANGED row
    /\ UNCHANGED <<scope, memory, turn, task, link, shown, faults, born, named, began, calm>>

-----------------------------------------------------------------------------
(* What else may happen to a session.                                      *)

Renames ==
    /\ row.there
    /\ row' = [row EXCEPT !.title = "user"] /\ named' = TRUE
    /\ UNCHANGED <<scope, memory, turn, naming, task, link, shown, faults, born, began, calm>>

(* RenameSession asks for no scope.                                        *)
RenameSession == Renames
RenameGlobalAISession == scope = "global" /\ Renames

(* DeleteSession asks for no scope either, and leaves the list in Redis.   *)
DeleteSession ==
    /\ row.there
    /\ row' = NoRow
    /\ UNCHANGED <<others, memory, turn, faults, calm>>

DeleteGlobalAISession ==
    /\ scope = "global" /\ row.there
    /\ row' = NoRow
    /\ list' = <<>> /\ lives' = FALSE
    /\ UNCHANGED <<others, turn, faults, calm>>

ListEnds ==
    /\ lives
    /\ list' = <<>> /\ lives' = FALSE
    /\ UNCHANGED <<others, row, turn, faults, calm>>

BeginsTask(k, step, seen) ==
    /\ task[k].step = "idle"
    /\ began < MaxTasks /\ began' = began + 1
    /\ task' = [task EXCEPT ![k] = [step |-> step, seen |-> seen]]
    /\ Starts

TaskGoes(k, step) == task' = [task EXCEPT ![k].step = step]
TaskEnds(k) == task' = [task EXCEPT ![k] = NoTask]

Hydrates(k, messages) ==
    /\ row.there /\ messages # row.messages
    /\ BeginsTask(k, "hydrate", messages)
    /\ UNCHANGED <<scope, row, memory, turn, naming, link, shown, faults, born, named>>

(* hydrateLogIDs: the answers without a log id get one, and the whole of   *)
(* the row is written back; the deleted ones are left alone,               *)
ReadMessages(k) ==
    /\ scope = "document"
    /\ Hydrates(k, [i \in DOMAIN row.messages |->
           [row.messages[i] EXCEPT !.logged = @ \/ (row.messages[i].role = "assistant" /\ ~row.messages[i].deleted)]])

(* hydrateGlobalAILogIDs: here there are none.                             *)
ReadGlobalMessages(k) ==
    /\ scope = "global"
    /\ Hydrates(k, [i \in DOMAIN row.messages |->
           [row.messages[i] EXCEPT !.logged = @ \/ row.messages[i].role = "assistant"]])

WriteHydrated(k) ==
    /\ task[k].step = "hydrate"
    /\ row' = IF row.there THEN [row EXCEPT !.messages = task[k].seen] ELSE row
    /\ TaskEnds(k)
    /\ UNCHANGED <<scope, memory, turn, naming, link, shown, faults, born, named, began, calm>>

(* Mutant of EditMessage: the links of the session stay open.              *)
EditAndLeaveLinks(k) ==
    /\ scope = "document" /\ row.there
    /\ \E i \in DOMAIN row.messages, deleted \in BOOLEAN :
           LET messages == [row.messages EXCEPT ![i].deleted = deleted]
           IN  row' = [row EXCEPT !.messages = messages] /\ BeginsTask(k, "clear", messages)
    /\ UNCHANGED <<scope, memory, turn, naming, link, shown, faults, born, named>>

(* DeleteMessage and RestoreMessage: one transaction with the row locked,  *)
(* which closes the links.                                                 *)
EditMessage(k) ==
    /\ scope = "document" /\ row.there
    /\ \E i \in DOMAIN row.messages, deleted \in BOOLEAN :
           LET messages == [row.messages EXCEPT ![i].deleted = deleted]
           IN  row' = [row EXCEPT !.messages = messages] /\ BeginsTask(k, "clear", messages)
    /\ link' = IF link = "open" THEN "closed" ELSE link
    /\ UNCHANGED <<scope, memory, turn, naming, shown, faults, born, named>>

(* rebuildNormalChatRedisHistory: the list is made again from what the     *)
(* transaction wrote, not from the row.                                    *)
ClearList(k) ==
    /\ task[k].step = "clear"
    /\ \/ list' = <<>> /\ lives' = FALSE /\ Succeeds
       \/ UNCHANGED memory /\ Fails
    /\ TaskGoes(k, "refill")
    /\ UNCHANGED <<scope, row, turn, naming, link, shown, born, named, began>>

(* Mutant of Paired: a deleted question does not end the pairing.          *)
PairedAcross(acc, m) ==
    IF m.deleted THEN acc
    ELSE IF m.role = "user" THEN [acc EXCEPT !.asked = m.turn]
    ELSE IF acc.asked = None THEN acc
    ELSE [asked |-> None, pairs |-> Append(acc.pairs, [q |-> acc.asked, a |-> m.turn])]

(* buildNormalChatRedisHistory, one message of the row.                    *)
Paired(acc, m) ==
    IF m.deleted THEN [acc EXCEPT !.asked = None]
    ELSE IF m.role = "user" THEN [acc EXCEPT !.asked = m.turn]
    ELSE IF acc.asked = None THEN acc
    ELSE [asked |-> None, pairs |-> Append(acc.pairs, [q |-> acc.asked, a |-> m.turn])]

(* After each message, from the first to the last.                         *)
Pairing(messages) ==
    LET upTo[n \in 0..Len(messages)] ==
            IF n = 0 THEN [asked |-> None, pairs |-> <<>>] ELSE Paired(upTo[n - 1], messages[n])
    IN  upTo

PairsOf(messages) == Newest(Pairing(messages)[Len(messages)].pairs, KeptPairs)

RefillList(k) ==
    /\ task[k].step = "refill"
    /\ LET pairs == PairsOf(task[k].seen)
       IN  IF pairs = <<>> THEN UNCHANGED memory /\ Succeeds
           ELSE \/ list' = Newest(list \o pairs, KeptPairs) /\ lives' = TRUE /\ Succeeds
                \/ list' = <<>> /\ lives' = FALSE /\ Fails
    /\ TaskEnds(k)
    /\ UNCHANGED <<scope, row, turn, naming, link, shown, born, named, began>>

(* filterShareableSessionMessages.                                         *)
Shareable(messages) ==
    {<<messages[i].turn, messages[i].role>> : i \in {j \in DOMAIN messages : ~messages[j].deleted}}

(* CreateSharedLink: the messages are read, summed up by the model, and    *)
(* the link is written.  One link is followed.                             *)
ReadToShare(k) ==
    /\ scope = "document" /\ row.there /\ link = "none"
    /\ \A j \in Tasks : task[j].step # "share"
    /\ BeginsTask(k, "share", row.messages)
    /\ UNCHANGED <<scope, row, memory, turn, naming, link, shown, faults, born, named>>

WriteLink(k) ==
    /\ task[k].step = "share"
    /\ \/ link' = "open" /\ shown' = Shareable(task[k].seen)
       \/ UNCHANGED <<link, shown>>
    /\ TaskEnds(k)
    /\ UNCHANGED <<scope, row, memory, turn, naming, faults, born, named, began, calm>>

LinkEnds ==
    /\ link = "open" /\ link' = "closed"
    /\ UNCHANGED <<scope, row, memory, turn, naming, task, shown, faults, born, named, began, calm>>

-----------------------------------------------------------------------------
Turn(t) ==
    \/ RefuseTurn(t) \/ OpenTurn(t) \/ RefuseAttachments(t) \/ SaveQuestion(t)
    \/ AnswerAtOnce(t) \/ Recall(t) \/ EmbeddingFails(t) \/ FindNothing(t) \/ Found(t) \/ Ask(t)
    \/ OpenGlobalTurn(t) \/ SaveGlobalQuestion(t) \/ AnswerGlobalAtOnce(t) \/ RecallGlobal(t)
    \/ GlobalEmbeddingFails(t) \/ FindNothingGlobal(t) \/ FoundGlobal(t) \/ AskGlobal(t)
    \/ Push(t) \/ TrimList(t) \/ ExpireList(t) \/ SaveAnswer(t) \/ Summarize(t) \/ AutoTitle(t)

Task(k) ==
    \/ ReadMessages(k) \/ ReadGlobalMessages(k) \/ WriteHydrated(k)
    \/ EditMessage(k) \/ ClearList(k) \/ RefillList(k)
    \/ ReadToShare(k) \/ WriteLink(k)

Next ==
    \/ CreateSession \/ CreateGlobalAISession \/ RenameSession \/ RenameGlobalAISession
    \/ DeleteSession \/ DeleteGlobalAISession \/ ListEnds \/ LinkEnds
    \/ \E t \in Turns : Turn(t)
    \/ \E k \in Tasks : Task(k)

Spec == Init /\ [][Next]_vars

-----------------------------------------------------------------------------
TypeOK ==
    /\ scope \in Scopes
    /\ row \in [there : BOOLEAN, messages : Seq(Message), count : Nat,
                title : {"none", "default", "auto", "user"}, summary : BOOLEAN]
    /\ Len(row.messages) <= KeptMessages
    /\ list \in Seq([q : Turns, a : Turns]) /\ lives \in BOOLEAN
    /\ turn \in [Turns -> [step : {"new", "question", "filter", "search", "ask", "save", "out"},
                           calls : Seq({"push", "trim", "expire", "answer", "summary"}),
                           canned : BOOLEAN, first : BOOLEAN]]
    /\ naming \subseteq Turns
    /\ task \in [Tasks -> [step : {"idle", "hydrate", "clear", "refill", "share"}, seen : Seq(Message)]]
    /\ link \in {"none", "open", "closed"} /\ shown \subseteq Turns \X {"user", "assistant"}
    /\ faults \in 0..MaxFaults /\ began \in 0..MaxTasks
    /\ born \in BOOLEAN /\ named \in BOOLEAN /\ calm \in BOOLEAN

(* As long as nothing overlapped and no call failed, the prompt's history  *)
(* holds no question with the answer to another one, none out of order,    *)
(* and none that is deleted - whatever was deleted, restored, dropped from *)
(* the row, answered at once or left without an answer before              *)
(* (rebuildNormalChatRedisHistory, and the order of the saving calls).     *)
HistoryIsHonest ==
    calm /\ Quiet =>
        /\ \A i \in DOMAIN list : list[i].q = list[i].a
        /\ \A i, j \in DOMAIN list : i # j => list[i].q # list[j].q
        /\ row.there => \A i \in DOMAIN list, j \in DOMAIN row.messages :
                            list[i].q = row.messages[j].turn => ~row.messages[j].deleted

(* A title that the user gave stays, whenever a title asked of the model   *)
(* arrives (autoGenerateSessionTitle against RenameGlobalAISession).       *)
TitleIsTheUsers == named /\ row.there => row.title = "user"

(* What a link that is still open tells is not deleted: an edit closes the *)
(* links of the session, unless it fell between the reading for a link and *)
(* its writing, or a reading wrote the row back                            *)
(* (updateNormalChatMessageState, CreateSharedLink).                       *)
LinkHidesDeleted ==
    link = "open" /\ calm /\ row.there =>
        \A i \in DOMAIN row.messages : row.messages[i].deleted =>
            <<row.messages[i].turn, row.messages[i].role>> \notin shown
=============================================================================
