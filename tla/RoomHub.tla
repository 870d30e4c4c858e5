------------------------------ MODULE RoomHub ------------------------------
(***************************************************************************)
(* The WebSocket hub of the study rooms: internal/ws/room_hub.go and       *)
(* ConnectRoomWS of controllers/group_room_ws.go.                          *)
(*                                                                         *)
(* One room: the hub keeps the clients of every room apart, and the rooms  *)
(* share only its loop.  A client is one socket; its handler goroutine     *)
(* registers it, sends the history, announces the user and reads until the *)
(* socket ends.  The hub's loop serves two buffered channels in any order, *)
(* and a user without a socket is announced offline by a timer.            *)
(*                                                                         *)
(* A step is what happens under h.mu, or one channel operation.  A timer   *)
(* is named by the client whose removal started it: a client is removed at *)
(* most once.  The assumption about time is that a handler gets from its   *)
(* registration to its read loop within the two minutes of the timer.      *)
(*                                                                         *)
(* A write has no deadline, and dropping a client closes its channel, not  *)
(* its connection: a peer that takes nothing more, and stays, holds its    *)
(* WritePump for as long as it likes ("stuck").                            *)
(***************************************************************************)
EXTENDS Naturals, Sequences, FiniteSets

CONSTANTS
    Clients,     \* sockets, over the whole run
    HubUsers,
    UserOf,      \* the user of each socket
    SendCap,     \* capacity of client.Send (128)
    QueueCap,    \* capacity of Register and of Unregister (64)
    NoClient

ASSUME UserOfAssumption == UserOf \in [Clients -> HubUsers]
ASSUME CapAssumption == SendCap \in Nat \ {0} /\ QueueCap \in Nat \ {0}
ASSUME NoClientAssumption == NoClient \notin Clients

VARIABLES
    pc,        \* the handler goroutine of each client; "stuck" is its read
               \* loop while the WritePump waits for the peer
    regQ, unregQ,  \* channels Register and Unregister
    present,   \* h.rooms: the clients of the room
    closed,    \* clients whose Send channel is closed
    buffered,  \* messages in client.Send
    once,      \* clients whose unregisterOnce has fired
    asking,    \* goroutines started by a broadcast to RequestUnregister
    timer,     \* the timer started when the client was removed
    timers,    \* h.timers: the timer on record for each user
    shown      \* the last presence event broadcast about each user

chans == <<regQ, unregQ, once, asking>>
hub == <<present, closed, timer, timers>>
hubVars == <<pc, chans, hub, buffered, shown>>

HubInit ==
    /\ pc = [c \in Clients |-> "none"]
    /\ regQ = <<>> /\ unregQ = <<>>
    /\ present = {} /\ closed = {}
    /\ buffered = [c \in Clients |-> 0]
    /\ once = {} /\ asking = {}
    /\ timer = [c \in Clients |-> "none"]
    /\ timers = [u \in HubUsers |-> NoClient]
    /\ shown = [u \in HubUsers |-> "offline"]

Sockets(u) == {c \in present : UserOf[c] = u}

(* Mutant of Broadcast: it sends before it looks whether there is room.    *)
BroadcastBlind(receivers) ==
    LET full == {c \in receivers : buffered[c] = SendCap}
    IN /\ buffered' = [c \in Clients |->
              buffered[c] + IF c \in receivers /\ pc[c] # "done" THEN 1 ELSE 0]
       /\ asking' = asking \cup (full \ once)

(* BroadcastToRoom and BroadcastToRoomExcept: a full buffer costs the      *)
(* client its registration, unless it has been asked for already.  What is *)
(* buffered for a handler that has ended is of no consequence.             *)
Broadcast(receivers) ==
    LET full == {c \in receivers : buffered[c] = SendCap}
        heard == {c \in receivers \ full : pc[c] # "done"}
    IN /\ buffered' = [c \in Clients |-> buffered[c] + IF c \in heard THEN 1 ELSE 0]
       /\ asking' = asking \cup (full \ once)

-----------------------------------------------------------------------------
(* ConnectRoomWS.                                                          *)

(* A member's socket, registered as soon as the hub's channel has room.    *)
Connect(c) ==
    /\ pc[c] = "none"
    /\ Len(regQ) < QueueCap
    /\ regQ' = Append(regQ, c)
    /\ pc' = [pc EXCEPT ![c] = "history"]
    /\ UNCHANGED <<unregQ, once, asking, hub, buffered, shown>>

(* sendRoomHistory: dropped when the buffer is full; a room without        *)
(* messages has none.                                                      *)
SendHistory(c) ==
    /\ pc[c] = "history"
    /\ \/ /\ pc' = [pc EXCEPT ![c] = "announce"]
          /\ UNCHANGED buffered
       \/ /\ c \notin closed
          /\ pc' = [pc EXCEPT ![c] = "announce"]
          /\ buffered' = [buffered EXCEPT ![c] = IF @ < SendCap THEN @ + 1 ELSE @]
    /\ UNCHANGED <<chans, hub, shown>>

(* The send on a closed channel panics.  gin's Recovery ends the handler:  *)
(* no pump is started and nobody closes the socket.                        *)
HistoryPanics(c) ==
    /\ pc[c] = "history" /\ c \in closed
    /\ pc' = [pc EXCEPT ![c] = "panicked"]
    /\ UNCHANGED <<chans, hub, buffered, shown>>

AnnounceOnline(c) ==
    /\ pc[c] = "announce"
    /\ pc' = [pc EXCEPT ![c] = "read"]
    /\ shown' = [shown EXCEPT ![UserOf[c]] = "online"]
    /\ Broadcast(present \ Sockets(UserOf[c]))
    /\ UNCHANGED <<regQ, unregQ, once, hub>>

(* ReadPump: a chat message is for the whole room, "typing" for the others. *)
ReadMessage(c) ==
    /\ pc[c] \in {"read", "stuck"}
    /\ \/ Broadcast(present)
       \/ Broadcast(present \ Sockets(UserOf[c]))
    /\ UNCHANGED <<pc, regQ, unregQ, once, hub, shown>>

(* What other goroutines broadcast: the words of an AI answer, the changes *)
(* made over REST.                                                         *)
RoomSpeaks ==
    /\ Broadcast(present)
    /\ UNCHANGED <<pc, regQ, unregQ, once, hub, shown>>

(* The socket ends; before the read loop, it is noticed there.             *)
SocketEnds(c) ==
    /\ pc[c] \in {"read", "stuck"}
    /\ pc' = [pc EXCEPT ![c] = "cut"]
    /\ UNCHANGED <<chans, hub, buffered, shown>>

(* WritePump, which runs from before the read loop until the socket ends.  *)
Write(c) ==
    /\ pc[c] = "read" /\ buffered[c] > 0
    /\ buffered' = [buffered EXCEPT ![c] = @ - 1]
    /\ UNCHANGED <<pc, chans, hub, shown>>

(* Mutant of WriteEnds: the pump does not look whether the channel is      *)
(* closed, and goes on sending empty messages.                             *)
WriteGoesOn(c) ==
    /\ pc[c] = "read" /\ buffered[c] = 0 /\ c \in closed
    /\ UNCHANGED hubVars

WriteEnds(c) ==
    /\ pc[c] = "read" /\ buffered[c] = 0 /\ c \in closed
    /\ pc' = [pc EXCEPT ![c] = "cut"]
    /\ UNCHANGED <<chans, hub, buffered, shown>>

(* WriteMessage waits for a peer that does not read: with a message of the *)
(* channel in hand, or with the close message ...                          *)
WriteBlocks(c) ==
    /\ pc[c] = "read" /\ (buffered[c] > 0 \/ c \in closed)
    /\ pc' = [pc EXCEPT ![c] = "stuck"]
    /\ buffered' = [buffered EXCEPT ![c] = IF @ > 0 THEN @ - 1 ELSE 0]
    /\ UNCHANGED <<chans, hub, shown>>

(* ... until the peer reads again, which may be never.  With a closed and  *)
(* empty channel the close message is written and the socket closed.       *)
WriteResumes(c) ==
    /\ pc[c] = "stuck"
    /\ pc' = [pc EXCEPT ![c] = IF c \in closed /\ buffered[c] = 0 THEN "cut" ELSE "read"]
    /\ UNCHANGED <<chans, hub, buffered, shown>>

-----------------------------------------------------------------------------
(* RequestUnregister, by the handler's defer or by a broadcast's           *)
(* goroutine: sync.Once lets one of them send.                             *)

RequestUnregister(c) ==
    /\ asking' = asking \ {c}
    /\ IF c \in once THEN UNCHANGED <<unregQ, once>>
       ELSE /\ Len(unregQ) < QueueCap
            /\ unregQ' = Append(unregQ, c)
            /\ once' = once \cup {c}

(* ReadPump ends: its defer.                                               *)
Leave(c) ==
    /\ pc[c] = "cut"
    /\ RequestUnregister(c)
    /\ pc' = [pc EXCEPT ![c] = "done"]
    /\ buffered' = [buffered EXCEPT ![c] = 0]
    /\ UNCHANGED <<regQ, hub, shown>>

DropSlow(c) ==
    /\ c \in asking
    /\ RequestUnregister(c)
    /\ UNCHANGED <<pc, regQ, hub, buffered, shown>>

-----------------------------------------------------------------------------
(* Run.                                                                    *)

(* Mutant of CancelTimer: a stopped timer stays on record.                 *)
CancelTimerKept(u) ==
    /\ timer' = [t \in Clients |->
          IF t = timers[u] /\ timer[t] = "armed" THEN "done" ELSE timer[t]]
    /\ UNCHANGED timers

(* timer.Stop() does nothing to a timer that has fired.                    *)
CancelTimer(u) ==
    /\ timers' = [timers EXCEPT ![u] = NoClient]
    /\ timer' = [t \in Clients |->
          IF t = timers[u] /\ timer[t] = "armed" THEN "done" ELSE timer[t]]

HubRegister ==
    /\ regQ # <<>>
    /\ regQ' = Tail(regQ)
    /\ present' = present \cup {Head(regQ)}
    /\ CancelTimer(UserOf[Head(regQ)])
    /\ UNCHANGED <<pc, unregQ, once, asking, closed, buffered, shown>>

(* Mutant of Remove: the channel is closed whether or not the client is    *)
(* in the room, as the feedback hub does.                                  *)
RemoveAnyhow(c) ==
    /\ present' = present \ {c}
    /\ closed' = closed \cup {c}
    /\ IF Sockets(UserOf[c]) = {c}
       THEN /\ timer' = [timer EXCEPT ![c] = "armed"]
            /\ timers' = [timers EXCEPT ![UserOf[c]] = c]
       ELSE UNCHANGED <<timer, timers>>

(* Mutant of Remove: the timer is started only when the room is empty.     *)
RemoveLast(c) ==
    IF c \notin present THEN UNCHANGED hub
    ELSE /\ present' = present \ {c}
         /\ closed' = closed \cup {c}
         /\ IF present = {c}
            THEN /\ timer' = [timer EXCEPT ![c] = "armed"]
                 /\ timers' = [timers EXCEPT ![UserOf[c]] = c]
            ELSE UNCHANGED <<timer, timers>>

(* The client leaves the room, and with the last socket of its user the    *)
(* two minutes begin.                                                      *)
Remove(c) ==
    IF c \notin present THEN UNCHANGED hub
    ELSE /\ present' = present \ {c}
         /\ closed' = closed \cup {c}
         /\ IF Sockets(UserOf[c]) = {c}
            THEN /\ timer' = [timer EXCEPT ![c] = "armed"]
                 /\ timers' = [timers EXCEPT ![UserOf[c]] = c]
            ELSE UNCHANGED <<timer, timers>>

HubUnregister ==
    /\ unregQ # <<>>
    /\ unregQ' = Tail(unregQ)
    /\ Remove(Head(unregQ))
    /\ UNCHANGED <<pc, regQ, once, asking, buffered, shown>>

-----------------------------------------------------------------------------
(* The callback of time.AfterFunc, in a goroutine of its own.              *)

(* Two minutes are enough for a handler to get to its read loop: the       *)
(* handlers of the sockets removed by then are past their announcement.    *)
TimerFires(t) ==
    /\ timer[t] = "armed"
    /\ \A c \in closed : UserOf[c] = UserOf[t]
                             => pc[c] \notin {"history", "announce"}
    /\ timer' = [timer EXCEPT ![t] = "fired"]
    /\ UNCHANGED <<pc, chans, present, closed, timers, buffered,
                   shown>>

(* delete(h.timers, timerKey), whichever timer is on record by then.       *)
TimerForgets(t) ==
    /\ timer[t] = "fired"
    /\ timer' = [timer EXCEPT ![t] = "telling"]
    /\ timers' = [timers EXCEPT ![UserOf[t]] = NoClient]
    /\ UNCHANGED <<pc, chans, present, closed, buffered, shown>>

TimerTells(t) ==
    /\ timer[t] = "telling"
    /\ timer' = [timer EXCEPT ![t] = "done"]
    /\ shown' = [shown EXCEPT ![UserOf[t]] = "offline"]
    /\ Broadcast(present)
    /\ UNCHANGED <<pc, regQ, unregQ, once, present, closed, timers>>

-----------------------------------------------------------------------------

Handler(c) ==
    \/ SendHistory(c) \/ HistoryPanics(c)
    \/ AnnounceOnline(c) \/ Leave(c)

Pump(c) == Write(c) \/ WriteEnds(c)

Timer(t) == TimerFires(t) \/ TimerForgets(t) \/ TimerTells(t)

HubNext ==
    \/ \E c \in Clients : \/ Connect(c) \/ ReadMessage(c) \/ SocketEnds(c)
                          \/ WriteBlocks(c) \/ WriteResumes(c)
                          \/ Handler(c) \/ DropSlow(c) \/ Pump(c) \/ Timer(c)
    \/ RoomSpeaks \/ HubRegister \/ HubUnregister

HubSpec == HubInit /\ [][HubNext]_hubVars

(* Goroutines run, select serves both channels and timers expire.  The     *)
(* pump of a peer that reads goes on; nothing makes a peer read, so that   *)
(* a blocked write has no fairness.                                        *)
HubFairSpec ==
    /\ HubSpec
    /\ WF_hubVars(HubRegister) /\ WF_hubVars(HubUnregister)
    /\ \A c \in Clients : /\ WF_hubVars(Handler(c)) /\ WF_hubVars(DropSlow(c))
                          /\ WF_hubVars(Pump(c)) /\ WF_hubVars(Timer(c))

-----------------------------------------------------------------------------
(* Properties.                                                             *)

(* Every variable keeps its type, and the channels their capacities.       *)
HubTypeOK ==
    /\ pc \in [Clients -> {"none", "history", "announce", "read", "stuck",
                           "cut", "done", "panicked"}]
    /\ regQ \in Seq(Clients) /\ Len(regQ) <= QueueCap
    /\ unregQ \in Seq(Clients) /\ Len(unregQ) <= QueueCap
    /\ present \subseteq Clients /\ closed \subseteq Clients
    /\ buffered \in [Clients -> 0..SendCap]
    /\ once \subseteq Clients /\ asking \subseteq Clients
    /\ timer \in [Clients -> {"none", "armed", "fired", "telling", "done"}]
    /\ timers \in [HubUsers -> Clients \cup {NoClient}]
    /\ shown \in [HubUsers -> {"online", "offline"}]

(* No broadcast sends on a closed channel, which would end the process:    *)
(* the hub closes Send only with the removal from the room, under the      *)
(* lock, and no client comes back (Run, BroadcastToRoom).                  *)
MembersAreOpen == present \cap closed = {}

(* A timer on record counts down for a user who has no socket: a           *)
(* registration takes it off, the removal of one socket of several does    *)
(* not start it.                                                           *)
CountdownMeansAbsent ==
    \A u \in HubUsers : timers[u] # NoClient => Sockets(u) = {}

(* No member's channel is closed, and a user whose timer counts down has   *)
(* no socket (Run and BroadcastToRoom of the room hub).                    *)
SocketsAreTrue == HubTypeOK /\ MembersAreOpen /\ CountdownMeansAbsent

(* Again and again every user without a socket in the room is one who has  *)
(* been announced offline, whatever the order in which sockets come and    *)
(* go, timers fire and slow clients are dropped.                           *)
AbsentShownOffline ==
    []<>(\A u \in HubUsers : Sockets(u) = {} => shown[u] = "offline")

(* A client the hub dropped is cut off in the end, so that it can connect  *)
(* again: WritePump drains what is buffered and closes the socket.  The    *)
(* one exception is a client whose peer never reads again: its pump stays  *)
(* in a write.                                                             *)
DroppedAreCut == <>[](\A c \in closed : pc[c] # "read")

(* "Gửi history đồng bộ trước khi bắt đầu read loop để tránh race với      *)
(* close(client.Send)": the history is never sent on a closed channel.     *)
HistoryIsSafe == \A c \in Clients : pc[c] # "panicked"
=============================================================================
