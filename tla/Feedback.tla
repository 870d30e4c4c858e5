------------------------------ MODULE Feedback ------------------------------
(***************************************************************************)
(* The feedback chat between users and administrators:                     *)
(* controllers/feedback.go and its hub, internal/ws/hub.go.                *)
(*                                                                         *)
(* The hub is one goroutine that registers and removes sockets; messages   *)
(* go to the sockets' buffers from the readers, under its lock.  Register  *)
(* and Unregister are channels without a buffer: who sends on one waits    *)
(* for the hub.  A full buffer starts a goroutine that wants the socket    *)
(* removed.  A panic of the hub ends the process.                          *)
(***************************************************************************)
EXTENDS Naturals, Sequences, FiniteSets

CONSTANTS
    Clients,        \* sockets, each of one connection
    Users,
    UserOf,         \* whose socket it is
    Admins,         \* users who are administrators
    Cap,            \* buffer of a socket (256)
    MaxMessages     \* bound on the rows of feedback_messages

FeedbackAssumption ==
    /\ UserOf \in [Clients -> Users] /\ Admins \subseteq Users
    /\ Cap \in Nat \ {0} /\ MaxMessages \in Nat

VARIABLES
    members,        \* Clients of the hub
    closed,         \* sockets whose Send is closed
    buffer,         \* Send: the numbers of the messages in it
    conn,           \* "none", "open", "dead"
    reader, writer, \* clientReadPump and clientWritePump of each
    dropping,       \* goroutines that wait to unregister a socket
    rows,           \* feedback_messages: who wrote each
    stopped,        \* the hub has panicked
    full,           \* history: sockets whose buffer was full when a message came
    got             \* history: the messages each socket was written

hubVars == <<members, closed, stopped>>
pumps == <<conn, reader, writer>>
vars == <<hubVars, buffer, pumps, dropping, rows, full, got>>

Resting == [step |-> "none", message |-> 0]

Init ==
    /\ members = {} /\ closed = {} /\ stopped = FALSE
    /\ buffer = [c \in Clients |-> << >>]
    /\ conn = [c \in Clients |-> "none"]
    /\ reader = [c \in Clients |-> Resting] /\ writer = [c \in Clients |-> "none"]
    /\ dropping = [c \in Clients |-> 0]
    /\ rows = << >> /\ full = {} /\ got = [c \in Clients |-> << >>]

IsAdmin(c) == UserOf[c] \in Admins
Reads(c, step) == reader[c].step = step

(* ServeFeedbackWS, to the end of Register: the pumps start when the hub   *)
(* has taken the socket.                                                   *)
ServeFeedbackWS(c) ==
    /\ ~stopped /\ conn[c] = "none"
    /\ members' = members \cup {c}
    /\ conn' = [conn EXCEPT ![c] = "open"]
    /\ reader' = [reader EXCEPT ![c].step = "read"]
    /\ writer' = [writer EXCEPT ![c] = "write"]
    /\ UNCHANGED <<closed, stopped, buffer, dropping, rows, full, got>>

(* SendToUser and SendToAdmins: to each socket that has room, and for each *)
(* that has none a goroutine that unregisters it.                          *)
Sends(to, m) ==
    LET over == {c \in to : Len(buffer[c]) = Cap}
    IN  /\ buffer' = [c \in Clients |-> IF c \in to \ over THEN Append(buffer[c], m) ELSE buffer[c]]
        /\ dropping' = [c \in Clients |-> IF c \in over THEN dropping[c] + 1 ELSE dropping[c]]
        /\ full' = full \cup over

AdminSockets == {c \in members : IsAdmin(c)}
SocketsOf(u) == {c \in members : UserOf[c] = u}

(* handleIncomingChat: the row first, and nothing when it fails.           *)
StoreMessage(c) ==
    /\ ~stopped /\ Reads(c, "read") /\ conn[c] = "open" /\ Len(rows) < MaxMessages
    /\ \/ /\ rows' = Append(rows, UserOf[c])
          /\ reader' = [reader EXCEPT ![c] = [step |-> IF IsAdmin(c) THEN "user" ELSE "admins",
                                              message |-> Len(rows')]]
       \/ UNCHANGED <<rows, reader>>
    /\ UNCHANGED <<hubVars, buffer, conn, writer, dropping, full, got>>

(* An administrator's message goes to the session's owner: any user, or    *)
(* nobody when the query fails, whose error is dropped.                    *)
SendToUser(c) ==
    /\ ~stopped /\ Reads(c, "user")
    /\ \E to \in {SocketsOf(u) : u \in Users} \cup {{}} : Sends(to, reader[c].message)
    /\ reader' = [reader EXCEPT ![c].step = "admins"]
    /\ UNCHANGED <<hubVars, conn, writer, rows, got>>

SendToAdmins(c) ==
    /\ ~stopped /\ Reads(c, "admins")
    /\ Sends(AdminSockets, reader[c].message)
    /\ reader' = [reader EXCEPT ![c] = [step |-> "read", message |-> 0]]
    /\ UNCHANGED <<hubVars, conn, writer, rows, got>>

(* CreateFeedbackSession: the session with its first message, in one       *)
(* transaction, then the administrators are told.                          *)
CreateFeedbackSession(u) ==
    /\ ~stopped /\ Len(rows) < MaxMessages
    /\ rows' = Append(rows, u)
    /\ Sends(AdminSockets, Len(rows'))
    /\ UNCHANGED <<hubVars, pumps, got>>

(* The writer sends what is in the buffer, also after it was closed; an    *)
(* error of a dead connection is dropped with the message.                 *)
Write(c) ==
    /\ ~stopped /\ writer[c] = "write" /\ buffer[c] # << >>
    /\ buffer' = [buffer EXCEPT ![c] = Tail(@)]
    /\ got' = IF conn[c] = "open" THEN [got EXCEPT ![c] = Append(@, Head(buffer[c]))] ELSE got
    /\ UNCHANGED <<hubVars, pumps, dropping, rows, full>>

WriteEnds(c) ==
    /\ ~stopped /\ writer[c] = "write" /\ buffer[c] = << >> /\ c \in closed
    /\ writer' = [writer EXCEPT ![c] = "over"]
    /\ conn' = [conn EXCEPT ![c] = "dead"]
    /\ UNCHANGED <<hubVars, buffer, reader, dropping, rows, full, got>>

(* Mutant of SocketEnds: the writer unregisters the socket as well.        *)
SocketEndsForBoth(c) ==
    /\ ~stopped /\ conn[c] = "open"
    /\ conn' = [conn EXCEPT ![c] = "dead"]
    /\ dropping' = [dropping EXCEPT ![c] = @ + 1]
    /\ UNCHANGED <<hubVars, buffer, reader, writer, rows, full, got>>

SocketEnds(c) ==
    /\ ~stopped /\ conn[c] = "open"
    /\ conn' = [conn EXCEPT ![c] = "dead"]
    /\ UNCHANGED <<hubVars, buffer, reader, writer, dropping, rows, full, got>>

ReadEnds(c) ==
    /\ ~stopped /\ Reads(c, "read") /\ conn[c] = "dead"
    /\ reader' = [reader EXCEPT ![c].step = "leave"]
    /\ UNCHANGED <<hubVars, buffer, conn, writer, dropping, rows, full, got>>

(* Mutant of Unregister: the socket stays in the map.                      *)
UnregisterKeeps(c) ==
    /\ closed' = closed \cup {c}
    /\ stopped' = (c \in closed)
    /\ UNCHANGED members

(* Run: the socket leaves the map if it is there, and Send is closed       *)
(* whether it was there or not: a second close panics.                     *)
Unregister(c) ==
    /\ members' = members \ {c}
    /\ closed' = closed \cup {c}
    /\ stopped' = (c \in closed)

ReaderLeaves(c) ==
    /\ ~stopped /\ Reads(c, "leave")
    /\ Unregister(c)
    /\ reader' = [reader EXCEPT ![c].step = "over"]
    /\ UNCHANGED <<buffer, conn, writer, dropping, rows, full, got>>

Drops(c) ==
    /\ ~stopped /\ dropping[c] > 0
    /\ Unregister(c)
    /\ dropping' = [dropping EXCEPT ![c] = @ - 1]
    /\ UNCHANGED <<buffer, pumps, rows, full, got>>

Next ==
    \/ \E c \in Clients :
        \/ ServeFeedbackWS(c) \/ StoreMessage(c) \/ SendToUser(c) \/ SendToAdmins(c)
        \/ Write(c) \/ WriteEnds(c) \/ SocketEnds(c) \/ ReadEnds(c)
        \/ ReaderLeaves(c) \/ Drops(c)
    \/ \E u \in Users : CreateFeedbackSession(u)

Spec == Init /\ [][Next]_vars

-----------------------------------------------------------------------------

TypeOK ==
    /\ members \subseteq Clients /\ closed \subseteq Clients /\ full \subseteq Clients
    /\ stopped \in BOOLEAN
    /\ rows \in Seq(Users) /\ Len(rows) <= MaxMessages
    /\ buffer \in [Clients -> Seq(1..MaxMessages)]
    /\ \A c \in Clients : Len(buffer[c]) <= Cap
    /\ got \in [Clients -> Seq(1..MaxMessages)]
    /\ conn \in [Clients -> {"none", "open", "dead"}]
    /\ writer \in [Clients -> {"none", "write", "over"}]
    /\ reader \in [Clients -> [step : {"none", "read", "user", "admins", "leave", "over"},
                               message : 0..MaxMessages]]
    /\ dropping \in [Clients -> Nat]

(* No message is sent on a closed channel, which would end the process as  *)
(* well: a socket leaves the map when its channel is closed, under the     *)
(* lock, and it is there before its pumps start (Run, SendToUser).         *)
MembersAreOpen == members \cap closed = {}

(* The hub stops only after some buffer was full: without that each socket *)
(* is unregistered once, by its reader (clientReadPump).  With it the      *)
(* second Unregister of the same socket closes its channel again.          *)
StopsAfterOverflow == stopped => full # {}

(* A socket is shown a message twice only if its owner is an administrator *)
(* who is answered in a session of his own (handleIncomingChat).           *)
Shown(c, m) == Cardinality({i \in DOMAIN got[c] : got[c][i] = m})
ShownOnce ==
    \A c \in Clients : \A m \in 1..Len(rows) :
        Shown(c, m) <= IF IsAdmin(c) /\ rows[m] \in Admins THEN 2 ELSE 1
=============================================================================
