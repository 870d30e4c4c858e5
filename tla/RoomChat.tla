------------------------------ MODULE RoomChat ------------------------------
(***************************************************************************)
(* The chat of a study room: handleRoomIncomingMessage, reactions, the     *)
(* history a newcomer is sent, and the answers of @MindexAI                *)
(* (controllers/group_room_ws.go).                                         *)
(*                                                                         *)
(* One room.  A message is stored in room_messages and pushed on a list in *)
(* Redis that keeps the newest; an answer of the assistant is only pushed. *)
(* A step is one call of Redis or PostgreSQL.  The reader of a socket      *)
(* serves one message at a time, and a user has one socket; every question *)
(* to the assistant is a goroutine of its own.  Delivery is in RoomHub,    *)
(* membership in GroupRoom.  What a text says, whom it mentions and which  *)
(* documents the assistant reads are left out, and so are errors of single *)
(* calls.                                                                  *)
(***************************************************************************)
EXTENDS Naturals, FiniteSets, SequencesExt

CONSTANTS
    Users,
    MaxMessages,  \* bound on the messages of a run
    Kept,         \* length of the list in Redis (50)
    MaxClicks,    \* bound on the reactions of a run
    Nobody

ChatAssumption == MaxMessages \in Nat /\ Kept \in Nat \ {0} /\ MaxClicks \in Nat
NobodyAssumption == Nobody \notin Users \cup 1..MaxMessages

Messages == 1..MaxMessages        \* by timestamp
AnswerTo(m) == MaxMessages + m
Ids == 1..(2 * MaxMessages)

VARIABLES
    stored,      \* room_messages
    list,        \* room_chat_history in Redis, the newest first
    work,        \* the reader of each user's socket
    ask,         \* the goroutine of each question
    lock,        \* ai_lock in Redis: the question that took it
    sent, clicks, \* messages and reactions so far
    said, liked, \* history: the newest that were pushed; reactions to them
    mode,        \* history: the list is "whole", "lost", or "broken" by a race
    lockLost     \* history: a lock has gone while its holder was at work

redis == <<list, lock>>
ghosts == <<said, liked, mode, lockLost>>
vars == <<stored, redis, work, ask, sent, clicks, ghosts>>

Resting == [step |-> "idle", id |-> Nobody, mention |-> FALSE, index |-> 0,
            entry |-> Nobody, rest |-> <<>>]

Init ==
    /\ stored = {} /\ list = <<>>
    /\ work = [u \in Users |-> Resting]
    /\ ask = [m \in Messages |-> "none"]
    /\ lock = Nobody /\ sent = 0 /\ clicks = 0
    /\ said = <<>> /\ liked = {} /\ mode = "whole"
    /\ lockLost = FALSE

At(u, step) == work[u].step = step
Goto(u, step) == work' = [work EXCEPT ![u].step = step]
Rest(u) == work' = [work EXCEPT ![u] = Resting]

(* Readers in the middle of what they do to the list by what they have     *)
(* read of it.                                                             *)
Meddling == {u \in Users : work[u].step \in {"set", "warm"}}

LastOf(seq) == SubSeq(seq, IF Len(seq) > Kept THEN Len(seq) - Kept + 1 ELSE 1, Len(seq))

Entry(id) == [id |-> id, likes |-> {}]

(* What history keeps; nothing can be said any more of a broken list.      *)
Judge(judgement, ids, clicked) ==
    /\ mode' = judgement
    /\ said' = IF judgement = "broken" THEN <<>> ELSE ids
    /\ liked' = IF judgement = "broken" THEN {} ELSE clicked

(* LPUSH; who meddles meanwhile may undo or repeat it.                     *)
Push(id) ==
    /\ list' = <<Entry(id)>> \o list
    /\ Judge(IF Meddling # {} \/ mode = "lost" THEN "broken" ELSE mode,
             LastOf(Append(said, id)), liked)

(* Mutant of Window: the bounds of LRANGE count both ends.                 *)
WindowAndOne == {i \in 1..Len(list) : i <= Kept + 1}

(* LRANGE 0 49.                                                            *)
Window == {i \in 1..Len(list) : i <= Kept}

(* Mutant of Trim: LTRIM counts from the other end.                        *)
TrimNewest == list' = LastOf(list)

(* LTRIM 0 49.                                                             *)
Trim == list' = SubSeq(list, 1, IF Len(list) > Kept THEN Kept ELSE Len(list))

-----------------------------------------------------------------------------
(* chat_message.                                                           *)

(* The message of a member who is within the rate limit.                   *)
SendMessage(u) ==
    /\ At(u, "idle") /\ sent < MaxMessages
    /\ sent' = sent + 1
    /\ \E mention \in BOOLEAN :
          work' = [work EXCEPT ![u] = [Resting EXCEPT !.step = "store", !.id = sent + 1,
                                                      !.mention = mention]]
    /\ UNCHANGED <<stored, redis, ask, clicks, ghosts>>

StoreMessage(u) ==
    /\ At(u, "store") /\ Goto(u, "push")
    /\ stored' = stored \cup {work[u].id}
    /\ UNCHANGED <<redis, ask, sent, clicks, ghosts>>

PushMessage(u) ==
    /\ At(u, "push") /\ Goto(u, "trim")
    /\ Push(work[u].id)
    /\ UNCHANGED <<stored, lock, ask, sent, clicks, lockLost>>

(* The trim; a question then gets its goroutine.                           *)
TrimMessage(u) ==
    /\ At(u, "trim") /\ Rest(u)
    /\ Trim
    /\ ask' = IF work[u].mention THEN [ask EXCEPT ![work[u].id] = "ask"] ELSE ask
    /\ UNCHANGED <<stored, lock, sent, clicks, ghosts>>

-----------------------------------------------------------------------------
(* handleMessageReaction: the list is read, and one entry written back at  *)
(* the place where it was.                                                 *)

(* Mutant of Toggled: a second click adds the user again.                  *)
Added(entry, u) == [entry EXCEPT !.likes = @ \cup {u}]

Toggled(entry, u) ==
    [entry EXCEPT !.likes = IF u \in @ THEN @ \ {u} ELSE @ \cup {u}]

React(u) ==
    /\ At(u, "idle") /\ clicks < MaxClicks
    /\ clicks' = clicks + 1
    /\ \E i \in Window :
          work' = [work EXCEPT ![u] = [Resting EXCEPT !.step = "set", !.index = i,
                                                      !.entry = Toggled(list[i], u)]]
    /\ UNCHANGED <<stored, redis, ask, sent, ghosts>>

(* LSET of an index that is gone fails, unnoticed.                         *)
SetEntry(u) ==
    LET click == <<work[u].entry.id, u>>
    IN /\ At(u, "set") /\ Rest(u)
       /\ list' = IF work[u].index > Len(list) THEN list
                  ELSE [list EXCEPT ![work[u].index] = work[u].entry]
       /\ Judge(IF Meddling # {u} THEN "broken" ELSE mode, said,
                IF click \in liked THEN liked \ {click} ELSE liked \cup {click})
       /\ UNCHANGED <<stored, lock, ask, sent, clicks, lockLost>>

-----------------------------------------------------------------------------
(* sendRoomHistory, when the list is empty: the newest rows of             *)
(* room_messages, with which the list is filled again.                     *)

MissHistory(u) ==
    /\ At(u, "idle")
    /\ list = <<>>
    /\ Goto(u, "query")
    /\ UNCHANGED <<stored, redis, ask, sent, clicks, ghosts>>

Ascending(S) ==
    CHOOSE seq \in [1..Cardinality(S) -> S] :
        \A i, j \in 1..Cardinality(S) : i < j => seq[i] < seq[j]

(* ORDER BY timestamp DESC LIMIT 50, then turned round: the oldest first.  *)
Newest == LastOf(Ascending(stored))

QueryHistory(u) ==
    /\ At(u, "query")
    /\ IF stored = {} THEN Rest(u)
       ELSE work' = [work EXCEPT ![u] = [Resting EXCEPT !.step = "warm", !.rest = Newest]]
    /\ Judge(IF stored # {} /\ (\/ Meddling # {} \/ mode = "warmed"
                                \/ \E v \in Users : At(v, "push"))
             THEN "broken" ELSE mode, IF mode = "lost" THEN Newest ELSE said, liked)
    /\ UNCHANGED <<stored, redis, ask, sent, clicks, lockLost>>

(* One LPUSH: the loop runs from the end of the rows to their beginning.   *)
WarmHistory(u) ==
    LET rest == work[u].rest
    IN /\ At(u, "warm") /\ rest # <<>>
       /\ list' = <<Entry(Last(rest))>> \o list
       /\ work' = [work EXCEPT ![u].rest = Front(rest)]
       /\ Judge(IF Meddling # {u} \/ mode = "whole" THEN "broken" ELSE mode, said, liked)
       /\ UNCHANGED <<stored, lock, ask, sent, clicks, lockLost>>

(* LTRIM; the list should now hold the rows.                               *)
WarmEnds(u) ==
    /\ At(u, "warm") /\ work[u].rest = <<>>
    /\ Rest(u)
    /\ Trim
    /\ Judge(IF mode = "lost" THEN "warmed" ELSE mode, said, liked)
    /\ UNCHANGED <<stored, lock, ask, sent, clicks, lockLost>>

-----------------------------------------------------------------------------
(* handleRoomAI.                                                           *)

(* Mutant of LockIsFree: the answer of SETNX is not looked at.             *)
LockIsAny == lock \in Messages \cup {Nobody}

LockIsFree == lock = Nobody

(* SETNX with a lifetime of 30 seconds; else "ai_busy".                    *)
TakeLock(m) ==
    /\ ask[m] = "ask"
    /\ lock' = IF LockIsFree THEN m ELSE lock
    /\ ask' = [ask EXCEPT ![m] = IF LockIsFree THEN "think" ELSE "over"]
    /\ UNCHANGED <<stored, list, work, sent, clicks, ghosts>>

(* The model's answer is stored; an error and "nothing found" are only told. *)
Answer(m) ==
    /\ ask[m] = "think"
    /\ \E next \in {"push", "release"} : ask' = [ask EXCEPT ![m] = next]
    /\ UNCHANGED <<stored, redis, work, sent, clicks, ghosts>>

PushAnswer(m) ==
    /\ ask[m] = "push"
    /\ ask' = [ask EXCEPT ![m] = "trim"]
    /\ Push(AnswerTo(m))
    /\ UNCHANGED <<stored, lock, work, sent, clicks, lockLost>>

TrimAnswer(m) ==
    /\ ask[m] = "trim"
    /\ ask' = [ask EXCEPT ![m] = "release"]
    /\ Trim
    /\ UNCHANGED <<stored, lock, work, sent, clicks, ghosts>>

(* The deferred DEL, whoever holds the lock by now.                        *)
Release(m) ==
    /\ ask[m] = "release"
    /\ ask' = [ask EXCEPT ![m] = "over"]
    /\ lock' = Nobody
    /\ UNCHANGED <<stored, list, work, sent, clicks, ghosts>>

Answering == {m \in Messages : ask[m] \in {"think", "push", "trim", "release"}}

(* After 30 seconds.                                                       *)
LockExpires ==
    /\ lock # Nobody
    /\ lock' = Nobody
    /\ lockLost' = (lockLost \/ lock \in Answering)
    /\ UNCHANGED <<stored, list, work, ask, sent, clicks, said, liked, mode>>

-----------------------------------------------------------------------------

(* Redis starts again with nothing.                                        *)
RedisRestarts ==
    /\ mode = "whole" /\ list # <<>>
    /\ list' = <<>> /\ lock' = Nobody
    /\ Judge(IF Meddling # {} THEN "broken" ELSE "lost", <<>>, {})
    /\ lockLost' = (lockLost \/ lock \in Answering)
    /\ UNCHANGED <<stored, work, ask, sent, clicks>>

(* So does the server: a message may have been stored and not pushed.      *)
Crash ==
    /\ work' = [u \in Users |-> Resting]
    /\ ask' = [m \in Messages |-> IF ask[m] = "none" THEN "none" ELSE "over"]
    /\ Judge(IF \E u \in Users : work[u].step \in {"push", "warm"} THEN "broken" ELSE mode,
             said, liked)
    /\ UNCHANGED <<stored, redis, sent, clicks, lockLost>>

Read(u) ==
    \/ StoreMessage(u) \/ PushMessage(u) \/ TrimMessage(u)
    \/ SetEntry(u) \/ QueryHistory(u) \/ WarmHistory(u) \/ WarmEnds(u)

Ask(m) == TakeLock(m) \/ Answer(m) \/ PushAnswer(m) \/ TrimAnswer(m) \/ Release(m)

Next ==
    \/ \E u \in Users : \/ SendMessage(u) \/ React(u) \/ MissHistory(u) \/ Read(u)
    \/ \E m \in Messages : Ask(m)
    \/ LockExpires \/ RedisRestarts \/ Crash

Spec == Init /\ [][Next]_vars

-----------------------------------------------------------------------------
(* Properties.                                                             *)

Entries == [id : Ids, likes : SUBSET Users]

(* Every variable keeps its type.                                          *)
TypeOK ==
    /\ stored \subseteq Messages
    /\ list \in Seq(Entries)
    /\ \A u \in Users :
          /\ work[u].step \in {"idle", "store", "push", "trim", "set", "query", "warm"}
          /\ work[u].id \in Messages \cup {Nobody} /\ work[u].mention \in BOOLEAN
          /\ work[u].entry \in Entries \cup {Nobody}
          /\ work[u].index \in 0..Kept /\ work[u].rest \in Seq(Messages)
    /\ ask \in [Messages -> {"none", "ask", "think", "push", "trim", "release", "over"}]
    /\ lock \in Messages \cup {Nobody} /\ sent \in 0..MaxMessages /\ clicks \in 0..MaxClicks
    /\ said \in Seq(Ids) /\ liked \subseteq Ids \X Users
    /\ mode \in {"whole", "lost", "warmed", "broken"}
    /\ lockLost \in BOOLEAN

(* What a newcomer is sent: LRANGE 0 49, turned round.                     *)
Shown == Reverse([i \in {j \in 1..Len(list) : j <= Kept} |-> list[i].id])

(* While Redis keeps its data, and nothing is pushed between the two calls *)
(* of a reaction, a newcomer sees the newest messages and answers, all of  *)
(* them and in order, however many handlers push and trim at a time.       *)
HistoryIsRecent == mode = "whole" => Shown = said

(* And the reactions to them, as often as they were given and taken back.  *)
ReactionsAreKept ==
    mode = "whole" =>
        \A i \in 1..Len(list) : list[i].likes = {u \in Users : <<list[i].id, u>> \in liked}

(* "Old to new": after the list was lost and filled again from             *)
(* room_messages, a newcomer sees the messages in their order.             *)
HistoryIsInOrder == mode = "warmed" => Shown = said

(* The assistant answers one question of the room at a time, unless the    *)
(* lock of an answer has gone before its end (handleRoomAI).               *)
OneAnswerAtATime == ~lockLost => \A m, n \in Answering : m = n
=============================================================================
