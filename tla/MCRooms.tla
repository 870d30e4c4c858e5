------------------------------ MODULE MCRooms ------------------------------
(***************************************************************************)
(* A study room: the members of the room and their documents (GroupRoom),  *)
(* and the talk of two of them (RoomChat).  The handlers of the one do not *)
(* read what those of the other write, so each is checked alone: side      *)
(* names the one a behaviour is of, the other rests, and the states are    *)
(* the sum of theirs.  Four users for a room of two, three documents of    *)
(* one of them; two who talk, two messages and their answers, a list of    *)
(* two.                                                                    *)
(***************************************************************************)
EXTENDS GroupRoom, TLC

CONSTANTS
    u1, u2, u3, u4, d1, d2, d3, h1, h2,
    Speakers, MaxMessages, Kept, MaxClicks      \* RoomChat

VARIABLES side, stored, list, work, ask, lock, sent, clicks, said, liked, mode, lockLost

Chat == INSTANCE RoomChat WITH Users <- Speakers

ASSUME TalkAssumption == Chat!ChatAssumption /\ Chat!NobodyAssumption

MCOwner == [d \in {d1, d2, d3} |-> u2]

talk == <<stored, list, work, ask, lock, sent, clicks, said, liked, mode, lockLost>>

NoTalk ==
    /\ stored = Nobody /\ list = Nobody /\ work = Nobody /\ ask = Nobody
    /\ lock = Nobody /\ sent = Nobody /\ clicks = Nobody
    /\ said = Nobody /\ liked = Nobody /\ mode = Nobody /\ lockLost = Nobody

RoomsInit ==
    \/ side = "members" /\ Init /\ NoTalk
    \/ side = "talk" /\ Init /\ Chat!Init

RoomsNext ==
    /\ UNCHANGED side
    /\ \/ side = "members" /\ Next /\ UNCHANGED talk
       \/ side = "talk" /\ Chat!Next /\ UNCHANGED vars

roomsVars == <<side, vars, talk>>
RoomsSpec == RoomsInit /\ [][RoomsNext]_roomsVars

(* The documents are alike, and so are the users who own none.             *)
Perms == Permutations({d1, d2, d3}) \cup Permutations({u1, u3, u4}) \cup Permutations({h1, h2})

-----------------------------------------------------------------------------

(* The state of the room and of its talk has its type.                     *)
Typed == TypeOK /\ (side = "talk" => Chat!TypeOK)

(* What members see of the talk after a reload is what was said, in order, *)
(* no reaction is lost, and the assistant answers one question at a time,  *)
(* but for the races named in RoomChat.                                    *)
TalkIsKept ==
    side = "talk" =>
        Chat!HistoryIsRecent /\ Chat!ReactionsAreKept /\ Chat!OneAnswerAtATime
=============================================================================
