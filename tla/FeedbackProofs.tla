--------------------------- MODULE FeedbackProofs ---------------------------
(***************************************************************************)
(* Proofs about Feedback, for any sockets, users, buffers and messages: no *)
(* socket of the hub has a closed channel, the hub closes none twice       *)
(* unless some buffer was full, a socket is shown a message once, and      *)
(* everything keeps its type and its bounds.                               *)
(*                                                                         *)
(* The last counts what a socket was shown together with what waits in its *)
(* buffer (Told): sending adds one to it, writing moves one, and who still *)
(* has a message to send on bounds what has been told of it so far.        *)
(***************************************************************************)
EXTENDS Feedback, FiniteSetTheorems, TLAPS

ReaderStep == {"none", "read", "user", "admins", "leave", "over"}
Reader == [step : ReaderStep, message : Nat]

Shape ==
    /\ members \subseteq Clients
    /\ conn \in [Clients -> {"none", "open", "dead"}]
    /\ reader \in [Clients -> Reader]
    /\ dropping \in [Clients -> Nat]
    /\ rows \in Seq(Users)

(* What is or was registered, read from or to be removed has connected.    *)
Connected ==
    \A c \in Clients :
        c \in members \cup closed \/ ~Reads(c, "none") \/ dropping[c] > 0 => conn[c] # "none"

(* As long as no buffer was full a channel is closed by its reader only,   *)
(* and that is the end of the reader.                                      *)
ClosedByReader ==
    \A c \in Clients : dropping[c] = 0 /\ (c \in closed => Reads(c, "over"))

IInv ==
    /\ Shape /\ Connected /\ MembersAreOpen
    /\ full = {} => ~stopped /\ ClosedByReader

-----------------------------------------------------------------------------

LEMMA InitOK == FeedbackAssumption /\ Init => IInv
  <1> SUFFICES ASSUME Init PROVE IInv
    OBVIOUS
  <1>1. Resting \in Reader /\ Resting.step = "none"
    BY DEF Resting, Reader, ReaderStep
  <1>2. Shape
    BY <1>1 DEF Init, Shape
  <1>3. Connected
    BY <1>1 DEF Init, Connected, Reads
  <1>4. MembersAreOpen /\ ~stopped /\ ClosedByReader
    BY DEF Init, MembersAreOpen, ClosedByReader
  <1> QED
    BY <1>2, <1>3, <1>4 DEF IInv

(* A reader that changes its step, and the message it has.                 *)
LEMMA ReaderType ==
  ASSUME Shape, NEW c \in Clients, NEW s \in ReaderStep, NEW m \in Nat
  PROVE  LET step == [reader EXCEPT ![c].step = s]
             both == [reader EXCEPT ![c] = [step |-> s, message |-> m]]
         IN  /\ step \in [Clients -> Reader] /\ both \in [Clients -> Reader]
             /\ step[c].step = s /\ both[c].step = s
             /\ \A d \in Clients \ {c} : step[d] = reader[d] /\ both[d] = reader[d]
  BY DEF Shape, Reader

(* Where the hub stays as it is and nobody new is to be removed.           *)
LEMMA HubRests ==
  ASSUME IInv, UNCHANGED <<hubVars, full, dropping>>, Shape',
         \A c \in Clients : conn[c] # "none" => conn'[c] # "none",
         \A c \in Clients : Reads(c, "none") => reader'[c] = reader[c],
         \A c \in Clients : Reads(c, "over") => reader'[c] = reader[c]
  PROVE  IInv'
  <1>1. UNCHANGED <<members, closed, stopped>>
    BY DEF hubVars
  <1>2. Connected'
    BY <1>1 DEF IInv, Connected, Reads, Shape
  <1>3. MembersAreOpen'
    BY <1>1 DEF IInv, MembersAreOpen
  <1>4. full' = {} => ~stopped' /\ ClosedByReader'
    BY <1>1 DEF IInv, ClosedByReader, Reads, Shape
  <1> QED
    BY <1>2, <1>3, <1>4 DEF IInv

(* A message to sockets of the hub: the full ones will be removed.         *)
LEMMA SendsOK ==
  ASSUME IInv, NEW to \in SUBSET members, NEW m, Sends(to, m),
         UNCHANGED <<hubVars, conn>>, Shape',
         \A c \in Clients : Reads(c, "none") => reader'[c] = reader[c],
         \A c \in Clients : Reads(c, "over") => reader'[c] = reader[c]
  PROVE  IInv'
  <1>1. UNCHANGED <<members, closed, stopped>>
    BY DEF hubVars
  <1> DEFINE over == {c \in to : Len(buffer[c]) = Cap}
  <1>2. /\ dropping' = [c \in Clients |-> IF c \in over THEN dropping[c] + 1 ELSE dropping[c]]
        /\ full' = full \cup over
        /\ over \subseteq members
    BY DEF Sends
  <1> HIDE DEF over
  <1>3. \A c \in Clients : dropping'[c] > 0 => c \in members \/ dropping[c] > 0
    BY <1>2
  <1>4. Connected'
    BY <1>1, <1>3 DEF IInv, Connected, Reads, Shape
  <1>5. MembersAreOpen'
    BY <1>1 DEF IInv, MembersAreOpen
  <1>6. ASSUME full' = {} PROVE ~stopped' /\ ClosedByReader'
    <2>1. full = {} /\ over = {}
      BY <1>2, <1>6
    <2>2. \A c \in Clients : dropping'[c] = dropping[c]
      BY <1>2, <2>1
    <2> QED
      BY <1>1, <2>1, <2>2 DEF IInv, ClosedByReader, Reads, Shape
  <1> QED
    BY <1>4, <1>5, <1>6 DEF IInv

LEMMA DroppingType ==
  ASSUME Shape, NEW to, NEW m, Sends(to, m)
  PROVE  dropping' \in [Clients -> Nat]
  BY DEF Shape, Sends

-----------------------------------------------------------------------------
(* The actions.                                                            *)

LEMMA ServeOK ==
  ASSUME IInv, NEW c \in Clients, ServeFeedbackWS(c)
  PROVE  IInv'
  <1>1. c \notin closed /\ Reads(c, "none") /\ dropping[c] = 0
    <2>1. dropping[c] \in Nat /\ conn[c] = "none"
      BY DEF IInv, Shape, ServeFeedbackWS
    <2> QED
      BY <2>1 DEF IInv, Connected
  <1>2. /\ reader' \in [Clients -> Reader]
        /\ \A d \in Clients \ {c} : reader'[d] = reader[d]
    BY ReaderType DEF ServeFeedbackWS, IInv, ReaderStep
  <1>3. /\ conn' \in [Clients -> {"none", "open", "dead"}] /\ conn'[c] = "open"
        /\ \A d \in Clients \ {c} : conn'[d] = conn[d]
    BY DEF ServeFeedbackWS, IInv, Shape
  <1>4. members' = members \cup {c} /\ UNCHANGED <<closed, stopped, dropping, rows, full>>
    BY DEF ServeFeedbackWS
  <1>5. Shape'
    BY <1>2, <1>3, <1>4 DEF IInv, Shape
  <1>6. Connected'
    BY <1>2, <1>3, <1>4 DEF IInv, Connected, Reads
  <1>7. MembersAreOpen'
    BY <1>1, <1>4 DEF IInv, MembersAreOpen
  <1>8. full' = {} => ~stopped' /\ ClosedByReader'
    BY <1>1, <1>2, <1>4 DEF IInv, ClosedByReader, Reads
  <1> QED
    BY <1>5, <1>6, <1>7, <1>8 DEF IInv

LEMMA StoreOK ==
  ASSUME IInv, NEW c \in Clients, StoreMessage(c), UserOf \in [Clients -> Users]
  PROVE  IInv'
  <1>1. UNCHANGED <<hubVars, conn, dropping, full>> /\ Reads(c, "read")
    BY DEF StoreMessage
  <1>2. CASE UNCHANGED <<rows, reader>>
    <2>1. Shape'
      BY <1>1, <1>2 DEF IInv, Shape, hubVars
    <2> QED
      BY <1>1, <1>2, <2>1, HubRests
  <1>3. CASE /\ rows' = Append(rows, UserOf[c])
             /\ reader' = [reader EXCEPT ![c] = [step |-> IF IsAdmin(c) THEN "user" ELSE "admins",
                                                 message |-> Len(rows')]]
    <2>1. rows' \in Seq(Users) /\ Len(rows') \in Nat
      BY <1>3 DEF IInv, Shape
    <2>2. /\ reader' \in [Clients -> Reader]
          /\ \A d \in Clients \ {c} : reader'[d] = reader[d]
      <3>1. PICK s \in ReaderStep : s = IF IsAdmin(c) THEN "user" ELSE "admins"
        BY DEF ReaderStep
      <3>2. PICK m \in Nat : m = Len(rows')
        BY <2>1
      <3>3. reader' = [reader EXCEPT ![c] = [step |-> s, message |-> m]]
        BY <1>3, <3>1, <3>2
      <3> QED
        BY <3>3, ReaderType DEF IInv
    <2>3. Shape'
      BY <1>1, <2>1, <2>2 DEF IInv, Shape, hubVars
    <2> QED
      BY <1>1, <2>2, <2>3, HubRests DEF Reads
  <1> QED
    BY <1>2, <1>3 DEF StoreMessage

LEMMA SendToUserOK ==
  ASSUME IInv, NEW c \in Clients, SendToUser(c)
  PROVE  IInv'
  <1>1. PICK to \in {SocketsOf(u) : u \in Users} \cup {{}} : Sends(to, reader[c].message)
    BY DEF SendToUser
  <1>2. to \in SUBSET members
    BY <1>1 DEF SocketsOf
  <1>3. UNCHANGED <<hubVars, conn, rows>> /\ Reads(c, "user")
    BY DEF SendToUser
  <1>4. /\ reader' \in [Clients -> Reader]
        /\ \A d \in Clients \ {c} : reader'[d] = reader[d]
    BY ReaderType DEF SendToUser, IInv, ReaderStep
  <1>5. dropping' \in [Clients -> Nat]
    BY <1>1, DroppingType DEF IInv
  <1>6. Shape'
    BY <1>3, <1>4, <1>5 DEF IInv, Shape, hubVars
  <1> QED
    BY <1>1, <1>2, <1>3, <1>4, <1>6, SendsOK DEF Reads

LEMMA SendToAdminsOK ==
  ASSUME IInv, NEW c \in Clients, SendToAdmins(c)
  PROVE  IInv'
  <1>1. Sends(AdminSockets, reader[c].message)
    BY DEF SendToAdmins
  <1>2. AdminSockets \in SUBSET members
    BY DEF AdminSockets
  <1>3. UNCHANGED <<hubVars, conn, rows>> /\ Reads(c, "admins")
    BY DEF SendToAdmins
  <1>4. /\ reader' \in [Clients -> Reader]
        /\ \A d \in Clients \ {c} : reader'[d] = reader[d]
    BY ReaderType DEF SendToAdmins, IInv, ReaderStep
  <1>5. dropping' \in [Clients -> Nat]
    BY <1>1, DroppingType DEF IInv
  <1>6. Shape'
    BY <1>3, <1>4, <1>5 DEF IInv, Shape, hubVars
  <1> QED
    BY <1>1, <1>2, <1>3, <1>4, <1>6, SendsOK DEF Reads

LEMMA CreateOK ==
  ASSUME IInv, NEW u \in Users, CreateFeedbackSession(u)
  PROVE  IInv'
  <1>1. Sends(AdminSockets, Len(rows')) /\ AdminSockets \in SUBSET members
    BY DEF CreateFeedbackSession, AdminSockets
  <1>2. UNCHANGED <<hubVars, pumps>> /\ rows' = Append(rows, u)
    BY DEF CreateFeedbackSession
  <1>3. UNCHANGED <<conn, reader>>
    BY <1>2 DEF pumps
  <1>4. dropping' \in [Clients -> Nat]
    BY <1>1, DroppingType DEF IInv
  <1>5. Shape'
    BY <1>2, <1>3, <1>4 DEF IInv, Shape, hubVars
  <1> QED
    BY <1>1, <1>2, <1>3, <1>5, SendsOK

(* The writer, and the end of a connection: no reader moves.               *)
LEMMA ConnectionOK ==
  ASSUME IInv, NEW c \in Clients, Write(c) \/ WriteEnds(c) \/ SocketEnds(c)
  PROVE  IInv'
  <1>1. UNCHANGED <<hubVars, reader, dropping, rows, full>>
    BY DEF Write, WriteEnds, SocketEnds, pumps
  <1>2. conn' = conn \/ conn' = [conn EXCEPT ![c] = "dead"]
    BY DEF Write, WriteEnds, SocketEnds, pumps
  <1>3. /\ conn' \in [Clients -> {"none", "open", "dead"}]
        /\ \A d \in Clients : conn[d] # "none" => conn'[d] # "none"
    BY <1>2 DEF IInv, Shape
  <1>4. Shape'
    BY <1>1, <1>3 DEF IInv, Shape, hubVars
  <1> QED
    BY <1>1, <1>3, <1>4, HubRests

LEMMA ReadEndsOK ==
  ASSUME IInv, NEW c \in Clients, ReadEnds(c)
  PROVE  IInv'
  <1>1. UNCHANGED <<hubVars, conn, dropping, rows, full>> /\ Reads(c, "read")
    BY DEF ReadEnds
  <1>2. /\ reader' \in [Clients -> Reader]
        /\ \A d \in Clients \ {c} : reader'[d] = reader[d]
    BY ReaderType DEF ReadEnds, IInv, ReaderStep
  <1>3. Shape'
    BY <1>1, <1>2 DEF IInv, Shape, hubVars
  <1> QED
    BY <1>1, <1>2, <1>3, HubRests DEF Reads

(* The reader's own removal is the first one, unless a buffer was full.    *)
LEMMA ReaderLeavesOK ==
  ASSUME IInv, NEW c \in Clients, ReaderLeaves(c)
  PROVE  IInv'
  <1>1. /\ members' = members \ {c} /\ closed' = closed \cup {c} /\ stopped' = (c \in closed)
        /\ UNCHANGED <<conn, dropping, rows, full>> /\ Reads(c, "leave")
    BY DEF ReaderLeaves, Unregister
  <1>2. /\ reader' \in [Clients -> Reader] /\ reader'[c].step = "over"
        /\ \A d \in Clients \ {c} : reader'[d] = reader[d]
    BY ReaderType DEF ReaderLeaves, IInv, ReaderStep
  <1>3. conn[c] # "none"
    BY <1>1 DEF IInv, Connected, Reads
  <1>4. Shape'
    BY <1>1, <1>2 DEF IInv, Shape
  <1>5. Connected'
    BY <1>1, <1>2, <1>3 DEF IInv, Connected, Reads
  <1>6. MembersAreOpen'
    BY <1>1 DEF IInv, MembersAreOpen
  <1>7. full' = {} => ~stopped' /\ ClosedByReader'
    BY <1>1, <1>2 DEF IInv, ClosedByReader, Reads
  <1> QED
    BY <1>4, <1>5, <1>6, <1>7 DEF IInv

(* A goroutine that removes a socket was started by a full buffer.         *)
LEMMA DropsOK ==
  ASSUME IInv, NEW c \in Clients, Drops(c)
  PROVE  IInv'
  <1>1. /\ members' = members \ {c} /\ closed' = closed \cup {c}
        /\ UNCHANGED <<conn, reader, rows, full>> /\ dropping[c] > 0
    BY DEF Drops, Unregister, pumps
  <1>2. /\ dropping' \in [Clients -> Nat]
        /\ \A d \in Clients : dropping'[d] > 0 => dropping[d] > 0
    BY <1>1 DEF Drops, IInv, Shape
  <1>3. Shape'
    BY <1>1, <1>2 DEF IInv, Shape
  <1>4. Connected'
    BY <1>1, <1>2 DEF IInv, Connected, Reads
  <1>5. MembersAreOpen'
    BY <1>1 DEF IInv, MembersAreOpen
  <1>6. full' # {}
    BY <1>1 DEF IInv, ClosedByReader, Shape
  <1> QED
    BY <1>3, <1>4, <1>5, <1>6 DEF IInv

LEMMA NextOK ==
  ASSUME FeedbackAssumption, IInv, [Next]_vars
  PROVE  IInv'
  <1>0. UserOf \in [Clients -> Users]
    BY DEF FeedbackAssumption
  <1>1. CASE \E c \in Clients :
                \/ ServeFeedbackWS(c) \/ StoreMessage(c) \/ SendToUser(c) \/ SendToAdmins(c)
                \/ Write(c) \/ WriteEnds(c) \/ SocketEnds(c) \/ ReadEnds(c)
                \/ ReaderLeaves(c) \/ Drops(c)
    BY <1>0, <1>1, ServeOK, StoreOK, SendToUserOK, SendToAdminsOK, ConnectionOK, ReadEndsOK,
       ReaderLeavesOK, DropsOK
  <1>2. CASE \E u \in Users : CreateFeedbackSession(u)
    BY <1>2, CreateOK
  <1>3. CASE UNCHANGED vars
    <2>1. Shape'
      BY <1>3 DEF IInv, Shape, vars, hubVars, pumps
    <2> QED
      BY <1>3, <2>1, HubRests DEF vars, hubVars, pumps, Reads
  <1> QED
    BY <1>1, <1>2, <1>3 DEF Next

-----------------------------------------------------------------------------
(* How often a socket is shown a message.                                  *)

Places(s, m) == {i \in DOMAIN s : s[i] = m}
Times(s, m) == Cardinality(Places(s, m))

LEMMA TimesType ==
  ASSUME NEW s \in Seq(Nat), NEW m \in Nat
  PROVE  IsFiniteSet(Places(s, m)) /\ Times(s, m) \in Nat
  <1>1. IsFiniteSet(1..Len(s))
    BY FS_Interval
  <1>2. Places(s, m) \subseteq 1..Len(s)
    BY DEF Places
  <1> QED
    BY <1>1, <1>2, FS_Subset, FS_CardinalityType DEF Times

LEMMA NeverThere ==
  ASSUME NEW s \in Seq(Nat), NEW m \in Nat, \A i \in DOMAIN s : s[i] # m
  PROVE  Times(s, m) = 0
  <1>1. Places(s, m) = {}
    BY DEF Places
  <1> QED
    BY <1>1, FS_EmptySet DEF Times

LEMMA TimesAppended ==
  ASSUME NEW s \in Seq(Nat), NEW x \in Nat, NEW m \in Nat
  PROVE  Times(Append(s, x), m) = IF x = m THEN Times(s, m) + 1 ELSE Times(s, m)
  <1> DEFINE t == Append(s, x)
  <1>1. /\ DOMAIN s = 1..Len(s) /\ DOMAIN t = 1..(Len(s) + 1) /\ Len(s) \in Nat
        /\ t[Len(s) + 1] = x /\ \A i \in 1..Len(s) : t[i] = s[i]
    OBVIOUS
  <1>2. CASE x = m
    <2>1. Places(t, m) = Places(s, m) \cup {Len(s) + 1} /\ Len(s) + 1 \notin Places(s, m)
      BY <1>1, <1>2 DEF Places
    <2> QED
      BY <1>2, <2>1, TimesType, FS_AddElement DEF Times
  <1>3. CASE x # m
    <2>1. Places(t, m) = Places(s, m)
      BY <1>1, <1>3 DEF Places
    <2> QED
      BY <1>3, <2>1 DEF Times
  <1> QED
    BY <1>2, <1>3

LEMMA TimesTail ==
  ASSUME NEW s \in Seq(Nat), s # << >>, NEW m \in Nat
  PROVE  Times(Tail(s), m) <= Times(s, m) - IF Head(s) = m THEN 1 ELSE 0
  <1> DEFINE t == Tail(s)
             T == IF Head(s) = m THEN Places(s, m) \ {1} ELSE Places(s, m)
             f == [i \in Places(t, m) |-> i + 1]
  <1>1. /\ DOMAIN s = 1..Len(s) /\ Len(s) \in Nat \ {0}
        /\ DOMAIN t = 1..(Len(s) - 1) /\ \A i \in 1..(Len(s) - 1) : t[i] = s[i + 1]
        /\ Head(s) = s[1]
    OBVIOUS
  <1>2. f \in [Places(t, m) -> T]
    BY <1>1 DEF Places
  <1>3. \A i, j \in Places(t, m) : f[i] = f[j] => i = j
    BY <1>1 DEF Places
  <1>4. f \in Injection(Places(t, m), T)
    BY <1>2, <1>3 DEF Injection, IsInjective
  <1>5. 1 \in Places(s, m) <=> Head(s) = m
    BY <1>1 DEF Places
  <1>6. IsFiniteSet(T) /\ Cardinality(T) = Times(s, m) - IF Head(s) = m THEN 1 ELSE 0
    <2>1. IsFiniteSet(Places(s, m)) /\ Times(s, m) \in Nat
      BY TimesType
    <2>2. CASE Head(s) = m
      <3>1. T = Places(s, m) \ {1}
        BY <2>2
      <3> HIDE DEF T
      <3> QED
        BY <1>5, <2>1, <2>2, <3>1, FS_RemoveElement DEF Times
    <2>3. CASE Head(s) # m
      BY <2>1, <2>3 DEF Times
    <2> QED
      BY <2>2, <2>3
  <1> HIDE DEF f, T, t
  <1> QED
    BY <1>4, <1>6, FS_Injection DEF Times, t

(* Who has numbered a message but not sent it to all it goes to, and how   *)
(* often a socket has been sent it by then: never, but for administrators  *)
(* who are answered by one of their own, and then by the first sending.    *)
Sending(r) == reader[r].step \in {"user", "admins"}

NumbersOK ==
    /\ \A r \in Clients : Sending(r) =>
          /\ reader[r].message \in 1..Len(rows) /\ rows[reader[r].message] = UserOf[r]
          /\ reader[r].step = "user" => IsAdmin(r)
    /\ \A r, q \in Clients : Sending(r) /\ Sending(q) /\ r # q => reader[r].message # reader[q].message
    /\ got \in [Clients -> Seq(Nat)] /\ buffer \in [Clients -> Seq(Nat)]
    /\ \A c \in Clients :
          /\ \A i \in DOMAIN got[c] : got[c][i] <= Len(rows)
          /\ \A i \in DOMAIN buffer[c] : buffer[c][i] <= Len(rows)

Told(c, m) == Times(got[c], m) + Times(buffer[c], m)
Allowed(c, m) == IF IsAdmin(c) /\ rows[m] \in Admins THEN 2 ELSE 1

TellsOK(c, m) ==
    /\ Told(c, m) <= Allowed(c, m)
    /\ \A r \in Clients : reader[r].message = m =>
          /\ reader[r].step = "user" => Told(c, m) = 0
          /\ reader[r].step = "admins" => Told(c, m) <= IF rows[m] \in Admins THEN 1 ELSE 0

ShownInv == NumbersOK /\ \A c \in Clients : \A m \in 1..Len(rows) : TellsOK(c, m)

LEMMA ShownSafe == ASSUME Shape, ShownInv PROVE ShownOnce
  <1> SUFFICES ASSUME NEW c \in Clients, NEW m \in 1..Len(rows)
               PROVE  Shown(c, m) <= IF IsAdmin(c) /\ rows[m] \in Admins THEN 2 ELSE 1
    BY DEF ShownOnce
  <1>1. Shown(c, m) = Times(got[c], m)
    BY DEF Shown, Times, Places
  <1>2. got[c] \in Seq(Nat) /\ buffer[c] \in Seq(Nat) /\ m \in Nat
    BY DEF ShownInv, NumbersOK, Shape
  <1>3. Times(got[c], m) \in Nat /\ Times(buffer[c], m) \in Nat
    BY <1>2, TimesType
  <1> QED
    BY <1>1, <1>3 DEF ShownInv, TellsOK, Told, Allowed

LEMMA ShownInit == ASSUME Init PROVE ShownInv
  <1>1. \A r \in Clients : ~Sending(r)
    BY DEF Init, Sending, Resting
  <1>2. got = [c \in Clients |-> << >>] /\ buffer = [c \in Clients |-> << >>]
    BY DEF Init
  <1>3. NumbersOK
    BY <1>1, <1>2 DEF NumbersOK
  <1>4. 1..Len(rows) = {}
    BY DEF Init
  <1> QED
    BY <1>3, <1>4 DEF ShownInv

(* Readers stay where they are with what they have, or stop sending.       *)
QuietReaders ==
    \A r \in Clients : \/ UNCHANGED reader[r]
                       \/ reader'[r].step \notin {"user", "admins"}

(* A message that nobody has numbered or sends on in the step stays as     *)
(* often where it is.                                                      *)
LEMMA TellsKept ==
  ASSUME Shape, ShownInv, NumbersOK', NEW c \in Clients, NEW k \in 1..Len(rows),
         rows'[k] = rows[k], Told(c, k)' <= Told(c, k),
         \A r \in Clients : reader'[r].message = k /\ reader'[r].step \in {"user", "admins"}
            => UNCHANGED reader[r]
  PROVE  TellsOK(c, k)'
  <1>1. TellsOK(c, k)
    BY DEF ShownInv
  <1>2. Told(c, k) \in Nat /\ Told(c, k)' \in Nat
    <2>1. got[c] \in Seq(Nat) /\ buffer[c] \in Seq(Nat) /\ got'[c] \in Seq(Nat) /\ buffer'[c] \in Seq(Nat)
      BY DEF ShownInv, NumbersOK
    <2>2. k \in Nat
      BY DEF Shape
    <2>3. /\ Times(got[c], k) \in Nat /\ Times(buffer[c], k) \in Nat
          /\ Times(got'[c], k) \in Nat /\ Times(buffer'[c], k) \in Nat
      BY <2>1, <2>2, TimesType
    <2> QED
      BY <2>3 DEF Told
  <1>3. Allowed(c, k)' = Allowed(c, k) /\ Allowed(c, k) \in Nat
    BY DEF Allowed, IsAdmin
  <1>4. Told(c, k)' <= Allowed(c, k)'
    BY <1>1, <1>2, <1>3 DEF TellsOK
  <1>5. ASSUME NEW r \in Clients, reader'[r].message = k
        PROVE  /\ reader'[r].step = "user" => Told(c, k)' = 0
               /\ reader'[r].step = "admins" => Told(c, k)' <= IF rows'[k] \in Admins THEN 1 ELSE 0
    <2>1. CASE reader'[r].step \in {"user", "admins"}
      <3>1. reader[r].message = k /\ reader[r].step = reader'[r].step
        BY <1>5, <2>1
      <3>2. /\ reader[r].step = "user" => Told(c, k) = 0
            /\ reader[r].step = "admins" => Told(c, k) <= IF rows[k] \in Admins THEN 1 ELSE 0
        BY <1>1, <3>1 DEF TellsOK
      <3> QED
        BY <1>2, <3>1, <3>2
    <2> QED
      BY <2>1
  <1> QED
    BY <1>4, <1>5 DEF TellsOK

(* No message is numbered, and what a socket has been sent goes on to be   *)
(* shown, or is dropped.                                                   *)
LEMMA ShownKeeps ==
  ASSUME ShownInv, Shape, UNCHANGED rows, QuietReaders,
         got' \in [Clients -> Seq(Nat)], buffer' \in [Clients -> Seq(Nat)],
         \A c \in Clients :
            /\ \A i \in DOMAIN got'[c] : got'[c][i] <= Len(rows)
            /\ \A i \in DOMAIN buffer'[c] : buffer'[c][i] <= Len(rows),
         \A c \in Clients : \A m \in 1..Len(rows) : Told(c, m)' <= Told(c, m)
  PROVE  ShownInv'
  <1>1. \A r \in Clients : Sending(r)' => Sending(r) /\ UNCHANGED reader[r]
    BY DEF QuietReaders, Sending
  <1>2. NumbersOK'
    BY <1>1 DEF ShownInv, NumbersOK, Sending, IsAdmin
  <1>3. ASSUME NEW c \in Clients, NEW m \in 1..Len(rows) PROVE TellsOK(c, m)'
    BY <1>1, <1>2, TellsKept DEF Sending
  <1> QED
    BY <1>2, <1>3 DEF ShownInv

(* The pumps and the hub.                                                  *)
LEMMA ShownByPumps ==
  ASSUME ShownInv, Shape, NEW c \in Clients,
         ServeFeedbackWS(c) \/ WriteEnds(c) \/ SocketEnds(c) \/ ReadEnds(c)
            \/ ReaderLeaves(c) \/ Drops(c)
  PROVE  ShownInv'
  <1>1. UNCHANGED <<rows, got, buffer>>
    BY DEF ServeFeedbackWS, WriteEnds, SocketEnds, ReadEnds, ReaderLeaves, Drops
  <1>2. QuietReaders
    BY DEF ServeFeedbackWS, WriteEnds, SocketEnds, ReadEnds, ReaderLeaves, Drops, pumps,
           QuietReaders, Shape, Reader
  <1>3. ASSUME NEW d \in Clients, NEW m \in 1..Len(rows) PROVE Told(d, m)' <= Told(d, m)
    <2>1. got[d] \in Seq(Nat) /\ buffer[d] \in Seq(Nat) /\ m \in Nat
      BY DEF ShownInv, NumbersOK, Shape
    <2>2. Times(got[d], m) \in Nat /\ Times(buffer[d], m) \in Nat
      BY <2>1, TimesType
    <2>3. Told(d, m)' = Told(d, m)
      BY <1>1 DEF Told
    <2> QED
      BY <2>2, <2>3 DEF Told
  <1> QED
    BY <1>1, <1>2, <1>3, ShownKeeps DEF ShownInv, NumbersOK

LEMMA AfterTheFirst ==
  ASSUME NEW s \in Seq(Nat), s # << >>
  PROVE  /\ Tail(s) \in Seq(Nat) /\ DOMAIN Tail(s) = 1..(Len(s) - 1)
         /\ \A i \in DOMAIN Tail(s) : i + 1 \in DOMAIN s /\ Tail(s)[i] = s[i + 1]
  OBVIOUS

LEMMA OneMore ==
  ASSUME NEW s \in Seq(Nat), NEW x \in Nat
  PROVE  /\ Append(s, x) \in Seq(Nat)
         /\ \A i \in DOMAIN Append(s, x) : \/ Append(s, x)[i] = x
                                           \/ (i \in DOMAIN s /\ Append(s, x)[i] = s[i])
  <1>1. /\ DOMAIN s = 1..Len(s) /\ Len(s) \in Nat
        /\ DOMAIN Append(s, x) = 1..(Len(s) + 1) /\ Append(s, x)[Len(s) + 1] = x
        /\ \A i \in 1..Len(s) : Append(s, x)[i] = s[i]
    OBVIOUS
  <1> QED
    BY <1>1

LEMMA ShownByWrite ==
  ASSUME ShownInv, Shape, NEW c \in Clients, Write(c)
  PROVE  ShownInv'
  <1>1. UNCHANGED <<rows, reader>> /\ buffer[c] # << >>
    BY DEF Write, pumps
  <1>2. /\ got \in [Clients -> Seq(Nat)] /\ buffer \in [Clients -> Seq(Nat)]
        /\ buffer' = [buffer EXCEPT ![c] = Tail(@)]
        /\ got' = got \/ got' = [got EXCEPT ![c] = Append(@, Head(buffer[c]))]
    BY DEF Write, ShownInv, NumbersOK
  <1> DEFINE x == Head(buffer[c])
  <1>3. x \in Nat /\ x = buffer[c][1] /\ 1 \in DOMAIN buffer[c]
    BY <1>1, <1>2
  <1>4. x <= Len(rows)
    BY <1>3 DEF ShownInv, NumbersOK
  <1>t. got[c] \in Seq(Nat) /\ buffer[c] \in Seq(Nat)
    BY <1>2
  <1>s. Append(got[c], x) \in Seq(Nat) /\ Tail(buffer[c]) \in Seq(Nat)
    BY <1>1, <1>3, <1>t, OneMore, AfterTheFirst
  <1>e. /\ buffer'[c] = Tail(buffer[c])
        /\ got'[c] \in {got[c], Append(got[c], x)}
        /\ \A d \in Clients \ {c} : buffer'[d] = buffer[d] /\ got'[d] = got[d]
    BY <1>2
  <1> HIDE DEF x
  <1>5. got' \in [Clients -> Seq(Nat)] /\ buffer' \in [Clients -> Seq(Nat)]
    BY <1>2, <1>s DEF x
  <1>6. ASSUME NEW d \in Clients
        PROVE  /\ \A i \in DOMAIN got'[d] : got'[d][i] <= Len(rows)
               /\ \A i \in DOMAIN buffer'[d] : buffer'[d][i] <= Len(rows)
    <2>1. /\ \A i \in DOMAIN got[d] : got[d][i] <= Len(rows)
          /\ \A i \in DOMAIN buffer[d] : buffer[d][i] <= Len(rows)
      BY DEF ShownInv, NumbersOK
    <2>2. CASE d # c
      BY <1>1, <1>e, <2>1, <2>2
    <2>3. CASE d = c
      <3>1. \A i \in DOMAIN got'[c] : \/ got'[c][i] = x
                                         \/ (i \in DOMAIN got[c] /\ got'[c][i] = got[c][i])
        <4>1. CASE got'[c] = got[c]
          BY <4>1
        <4>2. CASE got'[c] = Append(got[c], x)
          BY <4>2, <1>t, <1>3, OneMore
        <4> QED
          BY <1>e, <4>1, <4>2
      <3>2. \A i \in DOMAIN buffer'[c] : i + 1 \in DOMAIN buffer[c] /\ buffer'[c][i] = buffer[c][i + 1]
        BY <1>e, <1>t, <1>1, AfterTheFirst
      <3> QED
        BY <1>1, <1>4, <2>1, <2>3, <3>1, <3>2
    <2> QED
      BY <2>2, <2>3
  <1>7. ASSUME NEW d \in Clients, NEW m \in 1..Len(rows) PROVE Told(d, m)' <= Told(d, m)
    <2>0. m \in Nat
      BY DEF Shape
    <2>1. Times(got[d], m) \in Nat /\ Times(buffer[d], m) \in Nat
      BY <1>2, <2>0, TimesType
    <2>2. CASE d # c
      BY <1>e, <2>1, <2>2 DEF Told
    <2>3. CASE d = c
      <3>1. Times(got'[c], m) <= Times(got[c], m) + IF x = m THEN 1 ELSE 0
        <4>1. Times(Append(got[c], x), m) = IF x = m THEN Times(got[c], m) + 1 ELSE Times(got[c], m)
          BY <1>t, <1>3, <2>0, TimesAppended
        <4> QED
          <5>1. CASE got'[c] = got[c]
            BY <5>1, <2>1, <2>3
          <5>2. CASE got'[c] = Append(got[c], x)
            BY <5>2, <2>1, <2>3, <4>1
          <5> QED
            BY <1>e, <5>1, <5>2
      <3>2. Times(buffer'[c], m) <= Times(buffer[c], m) - IF x = m THEN 1 ELSE 0
        BY <1>1, <1>e, <1>t, <2>0, TimesTail DEF x
      <3>3. Times(got'[c], m) \in Nat /\ Times(buffer'[c], m) \in Nat
        BY <1>5, <2>0, TimesType
      <3> QED
        BY <2>1, <2>3, <3>1, <3>2, <3>3 DEF Told
    <2> QED
      BY <2>2, <2>3
  <1> QED
    BY <1>1, <1>5, <1>6, <1>7, ShownKeeps DEF QuietReaders

(* Sending a message to sockets.                                           *)
LEMMA Sent ==
  ASSUME buffer \in [Clients -> Seq(Nat)], NEW to \in SUBSET Clients, NEW m \in Nat, Sends(to, m)
  PROVE  /\ buffer' \in [Clients -> Seq(Nat)]
         /\ \A c \in Clients : \A i \in DOMAIN buffer'[c] :
               \/ buffer'[c][i] = m
               \/ (i \in DOMAIN buffer[c] /\ buffer'[c][i] = buffer[c][i])
  <1>1. \A c \in Clients : buffer'[c] \in {buffer[c], Append(buffer[c], m)}
    BY DEF Sends
  <1>2. DOMAIN buffer' = Clients /\ buffer' = [c \in Clients |-> buffer'[c]]
    BY DEF Sends
  <1>3. ASSUME NEW c \in Clients
        PROVE  /\ buffer'[c] \in Seq(Nat)
               /\ \A i \in DOMAIN buffer'[c] :
                     \/ buffer'[c][i] = m
                     \/ (i \in DOMAIN buffer[c] /\ buffer'[c][i] = buffer[c][i])
    <2>1. buffer[c] \in Seq(Nat)
      OBVIOUS
    <2>2. CASE buffer'[c] = buffer[c]
      BY <2>1, <2>2
    <2>3. CASE buffer'[c] = Append(buffer[c], m)
      BY <2>1, <2>3, OneMore
    <2> QED
      BY <1>1, <2>2, <2>3
  <1> QED
    BY <1>2, <1>3

LEMMA SentTimes ==
  ASSUME buffer \in [Clients -> Seq(Nat)], NEW to \in SUBSET Clients, NEW m \in Nat, Sends(to, m),
         NEW c \in Clients, NEW k \in Nat
  PROVE  Times(buffer'[c], k) <= Times(buffer[c], k) + IF k = m /\ c \in to THEN 1 ELSE 0
  <1> DEFINE s == buffer[c]
  <1>1. s \in Seq(Nat)
    OBVIOUS
  <1>2. Times(s, k) \in Nat /\ Times(Append(s, m), k) = IF m = k THEN Times(s, k) + 1 ELSE Times(s, k)
    BY <1>1, TimesType, TimesAppended
  <1>3. CASE c \notin to
    <2>1. buffer'[c] = s
      BY <1>3 DEF Sends
    <2> QED
      BY <1>2, <1>3, <2>1
  <1>4. CASE c \in to
    <2>1. buffer'[c] \in {s, Append(s, m)}
      BY DEF Sends
    <2> HIDE DEF s
    <2>2. CASE buffer'[c] = s
      BY <1>2, <2>2 DEF s
    <2>3. CASE buffer'[c] = Append(s, m)
      <3>1. Times(buffer'[c], k) = IF m = k THEN Times(s, k) + 1 ELSE Times(s, k)
        BY <1>2, <2>3
      <3> QED
        BY <1>2, <1>4, <3>1 DEF s
    <2> QED
      BY <2>1, <2>2, <2>3 DEF s
  <1> QED
    BY <1>3, <1>4

(* What a sending adds to what a socket has been told.                     *)
LEMMA ToldBySends ==
  ASSUME NumbersOK, NEW to \in SUBSET Clients, NEW m \in Nat, Sends(to, m), UNCHANGED got
  PROVE  \A c \in Clients : \A k \in Nat :
            /\ Told(c, k) \in Nat /\ Told(c, k)' \in Nat
            /\ Told(c, k)' <= Told(c, k) + IF k = m /\ c \in to THEN 1 ELSE 0
  <1> TAKE c \in Clients
  <1> TAKE k \in Nat
  <1>0. buffer \in [Clients -> Seq(Nat)]
    BY DEF NumbersOK
  <1>1. /\ Times(buffer'[c], k) \in Nat
        /\ Times(buffer'[c], k) <= Times(buffer[c], k) + IF k = m /\ c \in to THEN 1 ELSE 0
    <2>1. buffer'[c] \in Seq(Nat)
      BY <1>0, Sent
    <2> QED
      BY <1>0, <2>1, SentTimes, TimesType
  <1>2. got[c] \in Seq(Nat) /\ buffer[c] \in Seq(Nat) /\ got'[c] = got[c]
    BY DEF NumbersOK
  <1>3. Times(got[c], k) \in Nat /\ Times(buffer[c], k) \in Nat /\ Times(got'[c], k) = Times(got[c], k)
    BY <1>2, TimesType
  <1> QED
    BY <1>1, <1>3 DEF Told

(* What is in the buffers and was shown after a sending.                   *)
LEMMA NumbersAfterSends ==
  ASSUME NumbersOK, Shape, Shape', NEW to \in SUBSET Clients, NEW m \in Nat, Sends(to, m), UNCHANGED got,
         Len(rows) <= Len(rows'), m <= Len(rows')
  PROVE  /\ got' \in [Clients -> Seq(Nat)] /\ buffer' \in [Clients -> Seq(Nat)]
         /\ \A c \in Clients :
               /\ \A i \in DOMAIN got'[c] : got'[c][i] <= Len(rows')
               /\ \A i \in DOMAIN buffer'[c] : buffer'[c][i] <= Len(rows')
  <1>1. Len(rows) \in Nat /\ Len(rows') \in Nat
    BY DEF Shape
  <1>2. /\ buffer' \in [Clients -> Seq(Nat)]
        /\ \A c \in Clients : \A i \in DOMAIN buffer'[c] :
               \/ buffer'[c][i] = m
               \/ (i \in DOMAIN buffer[c] /\ buffer'[c][i] = buffer[c][i])
    <2>1. buffer \in [Clients -> Seq(Nat)]
      BY DEF NumbersOK
    <2> QED
      BY <2>1, Sent
  <1>3. ASSUME NEW c \in Clients, NEW i \in DOMAIN buffer'[c] PROVE buffer'[c][i] <= Len(rows')
    <2>1. CASE i \in DOMAIN buffer[c] /\ buffer'[c][i] = buffer[c][i]
      <3>1. buffer[c] \in Seq(Nat) /\ buffer[c][i] \in Nat /\ buffer[c][i] <= Len(rows)
        BY <2>1 DEF NumbersOK
      <3> QED
        BY <1>1, <2>1, <3>1
    <2> QED
      BY <1>2, <1>3, <2>1
  <1>4. ASSUME NEW c \in Clients, NEW i \in DOMAIN got'[c] PROVE got'[c][i] <= Len(rows')
    <2>1. got[c] \in Seq(Nat) /\ i \in DOMAIN got[c]
      BY <1>4 DEF NumbersOK
    <2>2. got[c][i] \in Nat /\ got[c][i] <= Len(rows)
      BY <2>1 DEF NumbersOK
    <2> QED
      BY <1>1, <2>2
  <1> QED
    BY <1>2, <1>3, <1>4 DEF NumbersOK

-----------------------------------------------------------------------------
(* The actions that number or send a message.                              *)

(* A reader that changes its step, the others as they are.                 *)
LEMMA OthersSend ==
  ASSUME NumbersOK, NEW c \in Clients, \A d \in Clients \ {c} : reader'[d] = reader[d],
         rows' = rows,
         Sending(c)' => Sending(c) /\ reader'[c].message = reader[c].message /\ reader'[c].step # "user",
         got' \in [Clients -> Seq(Nat)], buffer' \in [Clients -> Seq(Nat)],
         \A d \in Clients :
            /\ \A i \in DOMAIN got'[d] : got'[d][i] <= Len(rows)
            /\ \A i \in DOMAIN buffer'[d] : buffer'[d][i] <= Len(rows)
  PROVE  NumbersOK'
  <1>1. \A r \in Clients : Sending(r)' => Sending(r) /\ reader'[r].message = reader[r].message
    BY DEF Sending
  <1>2. ASSUME NEW r \in Clients, Sending(r)'
        PROVE  /\ reader'[r].message \in 1..Len(rows') /\ rows'[reader'[r].message] = UserOf[r]
               /\ reader'[r].step = "user" => IsAdmin(r)
    <2>1. /\ reader[r].message \in 1..Len(rows) /\ rows[reader[r].message] = UserOf[r]
          /\ reader[r].step = "user" => IsAdmin(r)
      BY <1>1, <1>2 DEF NumbersOK
    <2>2. reader'[r].step = "user" => reader[r].step = "user"
      BY <1>2
    <2> QED
      BY <1>1, <1>2, <2>1, <2>2
  <1>3. \A r, q \in Clients : Sending(r)' /\ Sending(q)' /\ r # q => reader'[r].message # reader'[q].message
    BY <1>1 DEF NumbersOK
  <1> QED
    BY <1>2, <1>3 DEF NumbersOK, IsAdmin

LEMMA ShownToUser ==
  ASSUME ShownInv, Shape, Shape', NEW c \in Clients, SendToUser(c)
  PROVE  ShownInv'
  <1> DEFINE m == reader[c].message
  <1>1. PICK to \in {SocketsOf(u) : u \in Users} \cup {{}} : Sends(to, m)
    BY DEF SendToUser
  <1>2. to \in SUBSET Clients
    BY <1>1 DEF SocketsOf, Shape
  <1>3. reader[c].step = "user" /\ UNCHANGED <<rows, got>> /\ reader' = [reader EXCEPT ![c].step = "admins"]
    BY DEF SendToUser, Reads
  <1>4. /\ reader'[c].step = "admins" /\ reader'[c].message = m
        /\ \A d \in Clients \ {c} : reader'[d] = reader[d]
    BY <1>3 DEF Shape, Reader
  <1>5. m \in 1..Len(rows) /\ rows[m] \in Admins /\ m \in Nat /\ NumbersOK
    <2>1. NumbersOK /\ Sending(c)
      BY <1>3 DEF ShownInv, Sending
    <2>2. m \in 1..Len(rows) /\ rows[m] = UserOf[c] /\ IsAdmin(c)
      BY <1>3, <2>1 DEF NumbersOK
    <2>3. Len(rows) \in Nat
      BY DEF Shape
    <2> QED
      BY <2>1, <2>2, <2>3 DEF IsAdmin
  <1>6. \A d \in Clients : \A k \in Nat :
            /\ Told(d, k) \in Nat /\ Told(d, k)' \in Nat
            /\ Told(d, k)' <= Told(d, k) + IF k = m /\ d \in to THEN 1 ELSE 0
    BY <1>1, <1>2, <1>3, <1>5, ToldBySends
  <1>7. NumbersOK'
    <2>1. Len(rows) \in Nat /\ Len(rows) <= Len(rows') /\ m <= Len(rows')
      BY <1>3, <1>5 DEF Shape
    <2>2. /\ got' \in [Clients -> Seq(Nat)] /\ buffer' \in [Clients -> Seq(Nat)]
          /\ \A d \in Clients :
                /\ \A i \in DOMAIN got'[d] : got'[d][i] <= Len(rows)
                /\ \A i \in DOMAIN buffer'[d] : buffer'[d][i] <= Len(rows)
      BY <1>1, <1>2, <1>3, <1>5, <2>1, NumbersAfterSends
    <2> QED
      BY <1>3, <1>4, <1>5, <2>2, OthersSend DEF Sending
  <1>8. ASSUME NEW d \in Clients, NEW k \in 1..Len(rows) PROVE TellsOK(d, k)'
    <2>1. k \in Nat
      BY DEF Shape
    <2>2. CASE k # m
      <3>1. Told(d, k)' <= Told(d, k)
        BY <1>6, <2>1, <2>2
      <3>2. \A r \in Clients : reader'[r].message = k => UNCHANGED reader[r]
        BY <1>4, <2>2
      <3> QED
        BY <1>3, <1>7, <3>1, <3>2, TellsKept
    <2>3. CASE k = m
      <3>1. Told(d, k) = 0
        BY <1>3, <2>3 DEF ShownInv, TellsOK
      <3>2. Told(d, k)' <= 1 /\ Told(d, k)' \in Nat
        <4>1. Told(d, k)' \in Nat /\ Told(d, k)' <= Told(d, k) + IF k = m /\ d \in to THEN 1 ELSE 0
          BY <1>6, <2>1
        <4> QED
          BY <3>1, <4>1
      <3>3. \A r \in Clients : reader'[r].message = m => r = c \/ reader'[r].step \notin {"user", "admins"}
        BY <1>4, <1>7, <1>3 DEF NumbersOK, Sending
      <3> QED
        BY <1>3, <1>4, <1>5, <2>3, <3>2, <3>3 DEF TellsOK, Allowed
    <2> QED
      BY <2>2, <2>3
  <1> QED
    BY <1>3, <1>7, <1>8 DEF ShownInv

LEMMA ShownToAdmins ==
  ASSUME ShownInv, Shape, Shape', NEW c \in Clients, SendToAdmins(c)
  PROVE  ShownInv'
  <1> DEFINE m == reader[c].message
  <1>1. Sends(AdminSockets, m) /\ AdminSockets \in SUBSET Clients
    BY DEF SendToAdmins, AdminSockets, Shape
  <1>2. \A d \in AdminSockets : IsAdmin(d)
    BY DEF AdminSockets
  <1>3. /\ reader[c].step = "admins" /\ UNCHANGED <<rows, got>>
        /\ reader' = [reader EXCEPT ![c] = [step |-> "read", message |-> 0]]
    BY DEF SendToAdmins, Reads
  <1>4. reader'[c].step = "read" /\ \A d \in Clients \ {c} : reader'[d] = reader[d]
    BY <1>3 DEF Shape
  <1>5. m \in 1..Len(rows) /\ m \in Nat /\ NumbersOK
    <2>1. NumbersOK /\ Sending(c)
      BY <1>3 DEF ShownInv, Sending
    <2>2. Len(rows) \in Nat
      BY DEF Shape
    <2> QED
      BY <2>1, <2>2 DEF NumbersOK
  <1>6. \A d \in Clients : \A k \in Nat :
            /\ Told(d, k) \in Nat /\ Told(d, k)' \in Nat
            /\ Told(d, k)' <= Told(d, k) + IF k = m /\ d \in AdminSockets THEN 1 ELSE 0
    BY <1>1, <1>3, <1>5, ToldBySends
  <1>7. NumbersOK'
    <2>1. Len(rows) \in Nat /\ Len(rows) <= Len(rows') /\ m <= Len(rows')
      BY <1>3, <1>5 DEF Shape
    <2>2. /\ got' \in [Clients -> Seq(Nat)] /\ buffer' \in [Clients -> Seq(Nat)]
          /\ \A d \in Clients :
                /\ \A i \in DOMAIN got'[d] : got'[d][i] <= Len(rows)
                /\ \A i \in DOMAIN buffer'[d] : buffer'[d][i] <= Len(rows)
      BY <1>1, <1>3, <1>5, <2>1, NumbersAfterSends
    <2> QED
      BY <1>3, <1>4, <1>5, <2>2, OthersSend DEF Sending
  <1>8. ASSUME NEW d \in Clients, NEW k \in 1..Len(rows) PROVE TellsOK(d, k)'
    <2>1. k \in Nat
      BY DEF Shape
    <2>2. CASE k # m
      <3>1. Told(d, k)' <= Told(d, k)
        <4>1. /\ Told(d, k) \in Nat /\ Told(d, k)' \in Nat
              /\ Told(d, k)' <= Told(d, k) + IF k = m /\ d \in AdminSockets THEN 1 ELSE 0
          BY <1>6, <2>1
        <4> QED
          BY <2>2, <4>1
      <3>2. \A r \in Clients : reader'[r].message = k /\ reader'[r].step \in {"user", "admins"}
                => UNCHANGED reader[r]
        BY <1>4
      <3> QED
        BY <1>3, <1>7, <3>1, <3>2, TellsKept
    <2>3. CASE k = m
      <3>1. Told(d, k) <= IF rows[m] \in Admins THEN 1 ELSE 0
        BY <1>3, <2>3 DEF ShownInv, TellsOK
      <3>2. /\ Told(d, k) \in Nat /\ Told(d, k)' \in Nat
            /\ Told(d, k)' <= Told(d, k) + IF d \in AdminSockets THEN 1 ELSE 0
        <4>1. /\ Told(d, k) \in Nat /\ Told(d, k)' \in Nat
              /\ Told(d, k)' <= Told(d, k) + IF k = m /\ d \in AdminSockets THEN 1 ELSE 0
          BY <1>6, <2>1
        <4> QED
          BY <2>3, <4>1
      <3>3. \A r \in Clients : reader'[r].message = m => reader'[r].step \notin {"user", "admins"}
        <4>1. Sending(c)
          BY <1>3 DEF Sending
        <4>2. \A r \in Clients \ {c} : reader[r].message = m => ~Sending(r)
          BY <1>5, <4>1 DEF NumbersOK
        <4> QED
          BY <1>4, <4>2 DEF Sending
      <3>4. Told(d, k)' <= Allowed(d, k)'
        <4>1. CASE rows[m] \in Admins /\ d \in AdminSockets
          BY <1>2, <1>3, <2>3, <3>1, <3>2, <4>1 DEF Allowed, IsAdmin
        <4>2. CASE ~(rows[m] \in Admins /\ d \in AdminSockets)
          <5>1. Told(d, k)' <= 1
            BY <3>1, <3>2, <4>2
          <5>2. Allowed(d, k)' \in {1, 2}
            BY DEF Allowed
          <5> QED
            BY <3>2, <5>1, <5>2
        <4> QED
          BY <4>1, <4>2
      <3> QED
        BY <2>3, <3>3, <3>4 DEF TellsOK
    <2> QED
      BY <2>2, <2>3
  <1> QED
    BY <1>3, <1>7, <1>8 DEF ShownInv

(* The row of a new message: no socket has been told of it.                *)
LEMMA NewRow ==
  ASSUME ShownInv, Shape, NEW u \in Users, rows' = Append(rows, u)
  PROVE  /\ Len(rows') = Len(rows) + 1 /\ Len(rows) \in Nat /\ rows'[Len(rows')] = u
         /\ \A k \in 1..Len(rows) : rows'[k] = rows[k]
         /\ \A d \in Clients : Told(d, Len(rows')) = 0
  <1>1. /\ Len(rows') = Len(rows) + 1 /\ Len(rows) \in Nat /\ rows'[Len(rows')] = u
        /\ \A k \in 1..Len(rows) : rows'[k] = rows[k]
    BY DEF Shape
  <1>2. ASSUME NEW d \in Clients PROVE Told(d, Len(rows')) = 0
    <2>1. /\ got[d] \in Seq(Nat) /\ buffer[d] \in Seq(Nat)
          /\ \A i \in DOMAIN got[d] : got[d][i] <= Len(rows)
          /\ \A i \in DOMAIN buffer[d] : buffer[d][i] <= Len(rows)
      BY DEF ShownInv, NumbersOK
    <2>2. /\ \A i \in DOMAIN got[d] : got[d][i] # Len(rows')
          /\ \A i \in DOMAIN buffer[d] : buffer[d][i] # Len(rows')
      BY <1>1, <2>1
    <2>3. Times(got[d], Len(rows')) = 0 /\ Times(buffer[d], Len(rows')) = 0
      BY <1>1, <2>1, <2>2, NeverThere
    <2> QED
      BY <2>3 DEF Told
  <1> QED
    BY <1>1, <1>2

LEMMA ShownByStore ==
  ASSUME ShownInv, Shape, Shape', NEW c \in Clients, StoreMessage(c), UserOf \in [Clients -> Users]
  PROVE  ShownInv'
  <1>1. UNCHANGED <<got, buffer>> /\ reader[c].step = "read"
    BY DEF StoreMessage, Reads
  <1>2. /\ got \in [Clients -> Seq(Nat)] /\ buffer \in [Clients -> Seq(Nat)] /\ NumbersOK
        /\ \A d \in Clients :
              /\ \A i \in DOMAIN got[d] : got[d][i] <= Len(rows)
              /\ \A i \in DOMAIN buffer[d] : buffer[d][i] <= Len(rows)
    BY DEF ShownInv, NumbersOK
  <1>3. \A d \in Clients : \A k \in Nat : Told(d, k) \in Nat /\ Told(d, k)' = Told(d, k)
    <2> TAKE d \in Clients
    <2> TAKE k \in Nat
    <2>1. got[d] \in Seq(Nat) /\ buffer[d] \in Seq(Nat)
      BY <1>2
    <2>2. Times(got[d], k) \in Nat /\ Times(buffer[d], k) \in Nat
      BY <2>1, TimesType
    <2> QED
      BY <1>1, <2>2 DEF Told
  <1>4. CASE UNCHANGED <<rows, reader>>
    <2>1. \A d \in Clients : \A k \in 1..Len(rows) : Told(d, k)' <= Told(d, k)
      BY <1>3 DEF Shape
    <2> QED
      BY <1>1, <1>2, <1>4, <2>1, ShownKeeps DEF QuietReaders
  <1>5. CASE /\ rows' = Append(rows, UserOf[c])
             /\ reader' = [reader EXCEPT ![c] = [step |-> IF IsAdmin(c) THEN "user" ELSE "admins",
                                                 message |-> Len(rows')]]
    <2> DEFINE m == Len(rows')
    <2>1. /\ m = Len(rows) + 1 /\ Len(rows) \in Nat /\ rows'[m] = UserOf[c]
          /\ \A k \in 1..Len(rows) : rows'[k] = rows[k]
          /\ \A d \in Clients : Told(d, m) = 0
      BY <1>5, NewRow
    <2>2. /\ reader'[c].message = m /\ reader'[c].step \in {"user", "admins"}
          /\ reader'[c].step = "user" => IsAdmin(c)
          /\ \A d \in Clients \ {c} : reader'[d] = reader[d]
      BY <1>5 DEF Shape
    <2> HIDE DEF m
    <2>3. NumbersOK'
      <3>1. ASSUME NEW r \in Clients, Sending(r)'
            PROVE  /\ reader'[r].message \in 1..m /\ rows'[reader'[r].message] = UserOf[r]
                   /\ reader'[r].step = "user" => IsAdmin(r)
                   /\ r # c => reader'[r].message # m
        <4>1. CASE r = c
          BY <2>1, <2>2, <4>1
        <4>2. CASE r # c
          <5>1. reader'[r] = reader[r] /\ Sending(r)
            BY <2>2, <3>1, <4>2 DEF Sending
          <5>2. /\ reader[r].message \in 1..Len(rows) /\ rows[reader[r].message] = UserOf[r]
                /\ reader[r].step = "user" => IsAdmin(r)
            BY <1>2, <5>1 DEF NumbersOK
          <5> QED
            BY <2>1, <5>1, <5>2
        <4> QED
          BY <4>1, <4>2
      <3>2. ASSUME NEW r \in Clients, NEW q \in Clients, Sending(r)', Sending(q)', r # q
            PROVE  reader'[r].message # reader'[q].message
        <4>1. CASE r = c \/ q = c
          BY <2>2, <3>1, <3>2, <4>1
        <4>2. CASE r # c /\ q # c
          BY <1>2, <2>2, <3>2, <4>2 DEF NumbersOK, Sending
        <4> QED
          BY <4>1, <4>2
      <3>3. ASSUME NEW d \in Clients
            PROVE  /\ \A i \in DOMAIN got[d] : got[d][i] <= m
                   /\ \A i \in DOMAIN buffer[d] : buffer[d][i] <= m
        <4>1. got[d] \in Seq(Nat) /\ buffer[d] \in Seq(Nat)
          BY <1>2
        <4>2. /\ \A i \in DOMAIN got[d] : got[d][i] \in Nat /\ got[d][i] <= Len(rows)
              /\ \A i \in DOMAIN buffer[d] : buffer[d][i] \in Nat /\ buffer[d][i] <= Len(rows)
          BY <1>2, <4>1
        <4> QED
          BY <2>1, <4>2
      <3> QED
        BY <1>1, <1>2, <3>1, <3>2, <3>3 DEF NumbersOK, IsAdmin, m
    <2>4. ASSUME NEW d \in Clients, NEW k \in 1..m PROVE TellsOK(d, k)'
      <3>1. k \in Nat /\ Told(d, k) \in Nat /\ Told(d, k)' = Told(d, k)
        BY <1>3, <2>1
      <3>2. CASE k = m
        BY <2>1, <3>1, <3>2 DEF TellsOK, Allowed
      <3>3. CASE k # m
        <4>1. k \in 1..Len(rows) /\ rows'[k] = rows[k]
          BY <2>1, <3>3
        <4>2. Told(d, k)' <= Told(d, k)
          BY <3>1
        <4>3. \A r \in Clients : reader'[r].message = k => UNCHANGED reader[r]
          BY <2>2, <3>3
        <4> QED
          BY <2>3, <4>1, <4>2, <4>3, TellsKept
      <3> QED
        BY <3>2, <3>3
    <2> QED
      BY <2>3, <2>4 DEF ShownInv, m
  <1> QED
    BY <1>4, <1>5 DEF StoreMessage

LEMMA ShownByCreate ==
  ASSUME ShownInv, Shape, Shape', NEW u \in Users, CreateFeedbackSession(u)
  PROVE  ShownInv'
  <1> DEFINE m == Len(rows')
  <1>1. Sends(AdminSockets, m) /\ AdminSockets \in SUBSET Clients /\ rows' = Append(rows, u)
    BY DEF CreateFeedbackSession, AdminSockets, Shape
  <1>2. UNCHANGED <<got, reader>>
    BY DEF CreateFeedbackSession, pumps
  <1>3. /\ m = Len(rows) + 1 /\ Len(rows) \in Nat
        /\ \A k \in 1..Len(rows) : rows'[k] = rows[k]
        /\ \A d \in Clients : Told(d, m) = 0
    BY <1>1, NewRow
  <1> HIDE DEF m
  <1>4. NumbersOK
    BY DEF ShownInv
  <1>5. \A d \in Clients : \A k \in Nat :
            /\ Told(d, k) \in Nat /\ Told(d, k)' \in Nat
            /\ Told(d, k)' <= Told(d, k) + IF k = m /\ d \in AdminSockets THEN 1 ELSE 0
    <2>1. m \in Nat
      BY <1>3
    <2> QED
      BY <1>1, <1>2, <1>4, <2>1, ToldBySends
  <1>6. /\ got' \in [Clients -> Seq(Nat)] /\ buffer' \in [Clients -> Seq(Nat)]
        /\ \A d \in Clients :
              /\ \A i \in DOMAIN got'[d] : got'[d][i] <= m
              /\ \A i \in DOMAIN buffer'[d] : buffer'[d][i] <= m
    <2>1. m \in Nat /\ Len(rows) <= m /\ m <= m
      BY <1>3
    <2> QED
      BY <1>1, <1>2, <1>4, <2>1, NumbersAfterSends DEF m
  <1>7. NumbersOK'
    <2>1. ASSUME NEW r \in Clients, Sending(r)'
          PROVE  /\ Sending(r) /\ reader'[r] = reader[r]
                 /\ reader'[r].message \in 1..m /\ rows'[reader'[r].message] = UserOf[r]
                 /\ reader'[r].step = "user" => IsAdmin(r)
      <3>1. Sending(r) /\ reader'[r] = reader[r]
        BY <1>2, <2>1 DEF Sending
      <3>2. /\ reader[r].message \in 1..Len(rows) /\ rows[reader[r].message] = UserOf[r]
            /\ reader[r].step = "user" => IsAdmin(r)
        BY <1>4, <3>1 DEF NumbersOK
      <3> QED
        BY <1>3, <3>1, <3>2
    <2>2. \A r, q \in Clients : Sending(r)' /\ Sending(q)' /\ r # q => reader'[r].message # reader'[q].message
      BY <1>4, <2>1 DEF NumbersOK
    <2> QED
      BY <1>6, <2>1, <2>2 DEF NumbersOK, IsAdmin, m
  <1>8. ASSUME NEW d \in Clients, NEW k \in 1..m PROVE TellsOK(d, k)'
    <2>1. k \in Nat
      BY <1>3
    <2>2. /\ Told(d, k) \in Nat /\ Told(d, k)' \in Nat
          /\ Told(d, k)' <= Told(d, k) + IF k = m /\ d \in AdminSockets THEN 1 ELSE 0
      BY <1>5, <2>1
    <2>3. CASE k = m
      <3>1. Told(d, k)' <= 1
        BY <1>3, <2>2, <2>3
      <3>2. \A r \in Clients : reader'[r].message = m => reader'[r].step \notin {"user", "admins"}
        <4>1. \A r \in Clients : Sending(r) => reader[r].message # m
          BY <1>3, <1>4 DEF NumbersOK
        <4> QED
          BY <1>2, <4>1 DEF Sending
      <3>3. Allowed(d, k)' \in {1, 2}
        BY DEF Allowed
      <3>4. Told(d, k)' <= Allowed(d, k)'
        BY <2>2, <3>1, <3>3
      <3> QED
        BY <2>3, <3>2, <3>4 DEF TellsOK
    <2>4. CASE k # m
      <3>1. k \in 1..Len(rows) /\ rows'[k] = rows[k] /\ Told(d, k)' <= Told(d, k)
        BY <1>3, <2>2, <2>4
      <3> QED
        BY <1>2, <1>7, <3>1, TellsKept
    <2> QED
      BY <2>3, <2>4
  <1> QED
    BY <1>7, <1>8 DEF ShownInv, m

LEMMA ShownNext ==
  ASSUME FeedbackAssumption, Shape, Shape', ShownInv, [Next]_vars
  PROVE  ShownInv'
  <1>0. UserOf \in [Clients -> Users]
    BY DEF FeedbackAssumption
  <1>1. CASE \E c \in Clients :
                \/ ServeFeedbackWS(c) \/ StoreMessage(c) \/ SendToUser(c) \/ SendToAdmins(c)
                \/ Write(c) \/ WriteEnds(c) \/ SocketEnds(c) \/ ReadEnds(c)
                \/ ReaderLeaves(c) \/ Drops(c)
    BY <1>0, <1>1, ShownByPumps, ShownByStore, ShownToUser, ShownToAdmins, ShownByWrite
  <1>2. CASE \E u \in Users : CreateFeedbackSession(u)
    BY <1>2, ShownByCreate
  <1>3. CASE UNCHANGED vars
    <2>1. UNCHANGED <<rows, reader, got, buffer>>
      BY <1>3 DEF vars, pumps
    <2> QED
      BY <2>1 DEF ShownInv, NumbersOK, TellsOK, Told, Allowed, Sending, IsAdmin
  <1> QED
    BY <1>1, <1>2, <1>3 DEF Next

-----------------------------------------------------------------------------

(* A message is never sent on a closed channel: the map of the hub and the *)
(* channels change together, and a socket is in the map before its pumps   *)
(* start (Run, SendToUser, SendToAdmins).                                  *)
THEOREM NoSendOnClosed == FeedbackAssumption /\ Spec => []MembersAreOpen
  <1> SUFFICES ASSUME FeedbackAssumption PROVE Spec => []MembersAreOpen
    OBVIOUS
  <1>1. Init => IInv
    BY InitOK
  <1>2. IInv /\ [Next]_vars => IInv'
    BY NextOK
  <1>3. IInv => MembersAreOpen
    BY DEF IInv
  <1> QED
    BY <1>1, <1>2, <1>3, PTL DEF Spec

(* Only a buffer that was full can bring the hub, and the process with it, *)
(* to close a channel twice: the second removal of a socket has to come    *)
(* from a goroutine of SendToUser or SendToAdmins.                         *)
THEOREM StopNeedsOverflow == FeedbackAssumption /\ Spec => []StopsAfterOverflow
  <1> SUFFICES ASSUME FeedbackAssumption PROVE Spec => []StopsAfterOverflow
    OBVIOUS
  <1>1. Init => IInv
    BY InitOK
  <1>2. IInv /\ [Next]_vars => IInv'
    BY NextOK
  <1>3. IInv => StopsAfterOverflow
    BY DEF IInv, StopsAfterOverflow
  <1> QED
    BY <1>1, <1>2, <1>3, PTL DEF Spec

(* A socket is shown a message twice only if its owner is an administrator *)
(* who is answered in a session of his own: a message is sent on only by   *)
(* the reader that numbered it, to the session's owner and then to the     *)
(* administrators, and a buffer gives out each copy once                   *)
(* (handleIncomingChat, SendToUser, SendToAdmins, clientWritePump).        *)
THEOREM MessagesAreShownOnce == FeedbackAssumption /\ Spec => []ShownOnce
  <1> SUFFICES ASSUME FeedbackAssumption PROVE Spec => []ShownOnce
    OBVIOUS
  <1>1. Init => IInv /\ ShownInv
    BY InitOK, ShownInit
  <1>2. IInv /\ ShownInv /\ [Next]_vars => (IInv /\ ShownInv)'
    BY NextOK, ShownNext DEF IInv
  <1>3. IInv /\ ShownInv => ShownOnce
    BY ShownSafe DEF IInv
  <1> QED
    BY <1>1, <1>2, <1>3, PTL DEF Spec

-----------------------------------------------------------------------------
(* Types: a reader that sends has a message, numbered by its row.          *)

Typing == TypeOK /\ \A c \in Clients : Sending(c) => reader[c].message # 0

LEMMA TypingInit == FeedbackAssumption /\ Init => Typing
  <1> SUFFICES ASSUME FeedbackAssumption, Init PROVE Typing
    OBVIOUS
  <1>1. << >> \in Seq(Users) /\ Len(<< >>) = 0 /\ << >> \in Seq(1..MaxMessages)
    OBVIOUS
  <1>2. Cap \in Nat /\ MaxMessages \in Nat
    BY DEF FeedbackAssumption
  <1>3. TypeOK
    <2>1. rows \in Seq(Users) /\ Len(rows) <= MaxMessages
      BY <1>1, <1>2 DEF Init
    <2>2. /\ buffer \in [Clients -> Seq(1..MaxMessages)] /\ got \in [Clients -> Seq(1..MaxMessages)]
          /\ \A c \in Clients : Len(buffer[c]) <= Cap
      BY <1>1, <1>2 DEF Init
    <2>3. reader \in [Clients -> [step : {"none", "read", "user", "admins", "leave", "over"},
                                  message : 0..MaxMessages]]
      BY <1>2 DEF Init, Resting
    <2> QED
      BY <2>1, <2>2, <2>3 DEF Init, TypeOK
  <1>4. \A c \in Clients : ~Sending(c)
    BY DEF Init, Sending, Resting
  <1> QED
    BY <1>3, <1>4 DEF Typing

(* A message goes to the buffers that have room.                           *)
LEMMA SendsTyped ==
  ASSUME FeedbackAssumption, TypeOK, NEW to \in SUBSET Clients, NEW m \in 1..MaxMessages, Sends(to, m)
  PROVE  /\ buffer' \in [Clients -> Seq(1..MaxMessages)]
         /\ \A c \in Clients : Len(buffer'[c]) <= Cap
         /\ dropping' \in [Clients -> Nat] /\ full' \subseteq Clients
  <1> DEFINE over == {c \in to : Len(buffer[c]) = Cap}
  <1>1. /\ buffer' = [c \in Clients |-> IF c \in to \ over THEN Append(buffer[c], m) ELSE buffer[c]]
        /\ dropping' = [c \in Clients |-> IF c \in over THEN dropping[c] + 1 ELSE dropping[c]]
        /\ full' = full \cup over
    BY DEF Sends
  <1>2. over \subseteq Clients /\ \A c \in to \ over : Len(buffer[c]) # Cap
    OBVIOUS
  <1> HIDE DEF over
  <1>3. ASSUME NEW c \in Clients
        PROVE  buffer'[c] \in Seq(1..MaxMessages) /\ Len(buffer'[c]) <= Cap /\ dropping'[c] \in Nat
    <2>1. buffer[c] \in Seq(1..MaxMessages) /\ Len(buffer[c]) <= Cap /\ dropping[c] \in Nat
      BY DEF TypeOK
    <2>2. Cap \in Nat /\ Len(buffer[c]) \in Nat
      BY <2>1 DEF FeedbackAssumption
    <2>3. dropping'[c] \in Nat
      BY <1>1, <2>1
    <2>4. CASE c \in to \ over
      <3>1. buffer'[c] = Append(buffer[c], m) /\ Len(buffer[c]) < Cap
        BY <1>1, <1>2, <2>1, <2>2, <2>4
      <3> QED
        BY <2>1, <2>2, <2>3, <3>1
    <2>5. CASE c \notin to \ over
      BY <1>1, <2>1, <2>3, <2>5
    <2> QED
      BY <2>4, <2>5
  <1>4. full' \subseteq Clients
    BY <1>1, <1>2 DEF TypeOK
  <1>5. DOMAIN buffer' = Clients /\ DOMAIN dropping' = Clients
    BY <1>1
  <1> QED
    BY <1>1, <1>3, <1>4, <1>5

LEMMA SendTyped ==
  ASSUME FeedbackAssumption, Typing, NEW c \in Clients, SendToUser(c) \/ SendToAdmins(c)
  PROVE  Typing'
  <1>1. TypeOK /\ Sending(c) /\ reader[c].message # 0
    BY DEF Typing, SendToUser, SendToAdmins, Reads, Sending
  <1>2. MaxMessages \in Nat
    BY DEF FeedbackAssumption
  <1>3. reader[c].message \in 1..MaxMessages
    BY <1>1, <1>2 DEF TypeOK
  <1>4. PICK to \in SUBSET Clients : Sends(to, reader[c].message)
    <2>1. CASE SendToUser(c)
      <3>1. PICK to \in {SocketsOf(u) : u \in Users} \cup {{}} : Sends(to, reader[c].message)
        BY <2>1 DEF SendToUser
      <3>2. to \in SUBSET Clients
        BY <1>1, <3>1 DEF SocketsOf, TypeOK
      <3> QED
        BY <3>1, <3>2
    <2>2. CASE SendToAdmins(c)
      <3>1. AdminSockets \in SUBSET Clients
        BY <1>1 DEF AdminSockets, TypeOK
      <3> QED
        BY <2>2, <3>1 DEF SendToAdmins
    <2> QED
      BY <2>1, <2>2
  <1>5. /\ buffer' \in [Clients -> Seq(1..MaxMessages)]
        /\ \A d \in Clients : Len(buffer'[d]) <= Cap
        /\ dropping' \in [Clients -> Nat] /\ full' \subseteq Clients
    BY <1>1, <1>3, <1>4, SendsTyped
  <1>6. UNCHANGED <<members, closed, stopped, conn, writer, rows, got>>
    BY DEF SendToUser, SendToAdmins, hubVars
  <1>7. /\ reader' \in [Clients -> [step : {"none", "read", "user", "admins", "leave", "over"},
                                    message : 0..MaxMessages]]
        /\ \A d \in Clients : Sending(d)' => reader'[d].message # 0
    <2>1. /\ reader \in [Clients -> [step : {"none", "read", "user", "admins", "leave", "over"},
                                     message : 0..MaxMessages]]
          /\ \A d \in Clients : Sending(d) => reader[d].message # 0
      BY <1>1 DEF TypeOK, Typing
    <2>2. \/ reader' = [reader EXCEPT ![c].step = "admins"]
          \/ reader' = [reader EXCEPT ![c] = [step |-> "read", message |-> 0]]
      BY DEF SendToUser, SendToAdmins
    <2> QED
      BY <1>1, <1>2, <2>1, <2>2 DEF Sending
  <1>8. TypeOK'
    BY <1>1, <1>5, <1>6, <1>7 DEF TypeOK
  <1> QED
    BY <1>7, <1>8 DEF Typing

(* A message is numbered by the row it makes.                              *)
LEMMA StoreTyped ==
  ASSUME FeedbackAssumption, Typing, NEW c \in Clients, StoreMessage(c)
  PROVE  Typing'
  <1>1. CASE UNCHANGED <<rows, reader>>
    BY <1>1 DEF Typing, TypeOK, StoreMessage, hubVars, Sending
  <1>2. CASE /\ rows' = Append(rows, UserOf[c])
             /\ reader' = [reader EXCEPT ![c] = [step |-> IF IsAdmin(c) THEN "user" ELSE "admins",
                                                 message |-> Len(rows')]]
    <2>1. rows \in Seq(Users) /\ Len(rows) < MaxMessages /\ MaxMessages \in Nat /\ UserOf[c] \in Users
      BY DEF Typing, TypeOK, StoreMessage, FeedbackAssumption
    <2>2. rows' \in Seq(Users) /\ Len(rows') \in 1..MaxMessages
      BY <1>2, <2>1
    <2>3. /\ reader' \in [Clients -> [step : {"none", "read", "user", "admins", "leave", "over"},
                                      message : 0..MaxMessages]]
          /\ \A d \in Clients : Sending(d)' => reader'[d].message # 0
      BY <1>2, <2>2 DEF Typing, TypeOK, Sending
    <2> QED
      BY <2>1, <2>2, <2>3 DEF Typing, TypeOK, StoreMessage, hubVars
  <1> QED
    BY <1>1, <1>2 DEF StoreMessage

LEMMA CreateTyped ==
  ASSUME FeedbackAssumption, Typing, NEW u \in Users, CreateFeedbackSession(u)
  PROVE  Typing'
  <1>1. rows \in Seq(Users) /\ Len(rows) < MaxMessages /\ MaxMessages \in Nat /\ TypeOK
    BY DEF Typing, TypeOK, CreateFeedbackSession, FeedbackAssumption
  <1>2. rows' = Append(rows, u) /\ Sends(AdminSockets, Len(rows'))
    BY DEF CreateFeedbackSession
  <1>3. rows' \in Seq(Users) /\ Len(rows') \in 1..MaxMessages
    BY <1>1, <1>2
  <1>4. AdminSockets \in SUBSET Clients
    BY <1>1 DEF AdminSockets, TypeOK
  <1>5. /\ buffer' \in [Clients -> Seq(1..MaxMessages)]
        /\ \A d \in Clients : Len(buffer'[d]) <= Cap
        /\ dropping' \in [Clients -> Nat] /\ full' \subseteq Clients
    BY <1>1, <1>2, <1>3, <1>4, SendsTyped
  <1>6. UNCHANGED <<members, closed, stopped, conn, reader, writer, got>>
    BY DEF CreateFeedbackSession, hubVars, pumps
  <1> QED
    BY <1>1, <1>3, <1>5, <1>6 DEF Typing, TypeOK, Sending

LEMMA WriteTyped ==
  ASSUME FeedbackAssumption, Typing, NEW c \in Clients, Write(c)
  PROVE  Typing'
  <1>1. buffer[c] \in Seq(1..MaxMessages) /\ buffer[c] # << >> /\ Len(buffer[c]) <= Cap /\ Cap \in Nat
    BY DEF Typing, TypeOK, Write, FeedbackAssumption
  <1>2. Head(buffer[c]) \in 1..MaxMessages /\ Tail(buffer[c]) \in Seq(1..MaxMessages)
        /\ Len(Tail(buffer[c])) <= Cap
    <2>1. ASSUME NEW s \in Seq(1..MaxMessages), s # << >>, Len(s) <= Cap
          PROVE  Head(s) \in 1..MaxMessages /\ Tail(s) \in Seq(1..MaxMessages) /\ Len(Tail(s)) <= Cap
      <3>1. Len(s) \in Nat \ {0}
        BY <2>1
      <3>2. Tail(s) \in Seq(1..MaxMessages) /\ Len(Tail(s)) = Len(s) - 1
        BY <2>1, <3>1
      <3>3. Len(Tail(s)) <= Cap
        <4>1. Cap \in Nat /\ Len(s) <= Cap
          BY <1>1, <2>1
        <4> QED
          BY <3>1, <3>2, <4>1
      <3>4. Head(s) \in 1..MaxMessages
        <4>1. 1 \in DOMAIN s /\ Head(s) = s[1]
          BY <2>1, <3>1
        <4>2. \A i \in DOMAIN s : s[i] \in 1..MaxMessages
          <5> DEFINE S == 1..MaxMessages
          <5>1. s \in Seq(S)
            BY <2>1
          <5> HIDE DEF S
          <5>2. \A i \in DOMAIN s : s[i] \in S
            BY <5>1
          <5> QED
            BY <5>2 DEF S
        <4> QED
          BY <4>1, <4>2
      <3> QED
        BY <3>2, <3>3, <3>4
    <2> QED
      BY <1>1, <2>1
  <1>3. /\ buffer' = [buffer EXCEPT ![c] = Tail(buffer[c])]
        /\ buffer' \in [Clients -> Seq(1..MaxMessages)]
        /\ \A d \in Clients : Len(buffer'[d]) <= Cap
    BY <1>2 DEF Typing, TypeOK, Write
  <1>4. got' \in [Clients -> Seq(1..MaxMessages)]
    <2>1. got \in [Clients -> Seq(1..MaxMessages)]
      BY DEF Typing, TypeOK
    <2>2. Append(got[c], Head(buffer[c])) \in Seq(1..MaxMessages)
      BY <1>2, <2>1
    <2>3. got' = [got EXCEPT ![c] = Append(got[c], Head(buffer[c]))] \/ got' = got
      BY DEF Write
    <2> QED
      BY <2>1, <2>2, <2>3
  <1>5. UNCHANGED <<members, closed, stopped, conn, reader, writer, dropping, rows, full>>
    BY DEF Write, hubVars, pumps
  <1> QED
    BY <1>3, <1>4, <1>5 DEF Typing, TypeOK, Sending

(* The life of a socket.                                                   *)
LEMMA SocketTyped ==
  ASSUME FeedbackAssumption, Typing, NEW c \in Clients,
         \/ ServeFeedbackWS(c) \/ WriteEnds(c) \/ SocketEnds(c) \/ ReadEnds(c)
         \/ ReaderLeaves(c) \/ Drops(c)
  PROVE  Typing'
  <1>1. UNCHANGED <<buffer, rows, full, got>>
    BY DEF ServeFeedbackWS, WriteEnds, SocketEnds, ReadEnds, ReaderLeaves, Drops
  <1>2. members' \subseteq Clients /\ closed' \subseteq Clients /\ stopped' \in BOOLEAN
    <2>1. members \subseteq Clients /\ closed \subseteq Clients /\ stopped \in BOOLEAN
      BY DEF Typing, TypeOK
    <2>2. /\ members' \in {members, members \cup {c}, members \ {c}}
          /\ closed' \in {closed, closed \cup {c}}
      BY DEF ServeFeedbackWS, WriteEnds, SocketEnds, ReadEnds, ReaderLeaves, Drops, Unregister, hubVars
    <2>3. stopped' = stopped \/ stopped' = (c \in closed)
      BY Zenon DEF ServeFeedbackWS, WriteEnds, SocketEnds, ReadEnds, ReaderLeaves, Drops,
                   Unregister, hubVars
    <2>4. stopped' \in BOOLEAN
      <3>1. (c \in closed) \in BOOLEAN
        BY <2>1
      <3>2. CASE stopped' = (c \in closed)
        BY <3>1, <3>2
      <3>3. CASE stopped' = stopped
        BY <2>1, <3>3
      <3> QED
        BY <2>3, <3>2, <3>3
    <2> QED
      BY <2>1, <2>2, <2>4
  <1>3. /\ conn' \in [Clients -> {"none", "open", "dead"}]
        /\ writer' \in [Clients -> {"none", "write", "over"}]
    BY DEF ServeFeedbackWS, WriteEnds, SocketEnds, ReadEnds, ReaderLeaves, Drops, pumps,
           Typing, TypeOK
  <1>4. /\ reader' \in [Clients -> [step : {"none", "read", "user", "admins", "leave", "over"},
                                    message : 0..MaxMessages]]
        /\ \A d \in Clients : Sending(d)' => reader'[d].message # 0
    <2>1. /\ reader \in [Clients -> [step : {"none", "read", "user", "admins", "leave", "over"},
                                     message : 0..MaxMessages]]
          /\ \A d \in Clients : Sending(d) => reader[d].message # 0
      BY DEF TypeOK, Typing
    <2>2. reader' = reader \/ \E s \in {"read", "leave", "over"} : reader' = [reader EXCEPT ![c].step = s]
      BY DEF ServeFeedbackWS, WriteEnds, SocketEnds, ReadEnds, ReaderLeaves, Drops, pumps
    <2> QED
      BY <2>1, <2>2 DEF Sending
  <1>5. dropping' \in [Clients -> Nat]
    <2>1. dropping \in [Clients -> Nat]
      BY DEF Typing, TypeOK
    <2>2. \/ dropping' = dropping
          \/ dropping[c] > 0 /\ dropping' = [dropping EXCEPT ![c] = @ - 1]
      BY DEF ServeFeedbackWS, WriteEnds, SocketEnds, ReadEnds, ReaderLeaves, Drops
    <2> QED
      BY <2>1, <2>2
  <1> QED
    BY <1>1, <1>2, <1>3, <1>4, <1>5 DEF Typing, TypeOK

LEMMA TypingNext ==
  ASSUME FeedbackAssumption, Typing, [Next]_vars
  PROVE  Typing'
  <1>1. CASE UNCHANGED vars
    BY <1>1 DEF vars, hubVars, pumps, Typing, TypeOK, Sending
  <1>2. CASE Next
    BY <1>2, StoreTyped, SendTyped, CreateTyped, WriteTyped, SocketTyped DEF Next
  <1> QED
    BY <1>1, <1>2

(* Every buffer keeps to its capacity and every message told is one that   *)
(* was numbered (internal/ws/hub.go): the types of the feedback chat.      *)
THEOREM FeedbackTypeCorrect == FeedbackAssumption /\ Spec => []TypeOK
  <1> SUFFICES ASSUME FeedbackAssumption PROVE Spec => []TypeOK
    OBVIOUS
  <1>1. Init => Typing
    BY TypingInit
  <1>2. Typing /\ [Next]_vars => Typing'
    BY TypingNext
  <1>3. Typing => TypeOK
    BY DEF Typing
  <1> QED
    BY <1>1, <1>2, <1>3, PTL DEF Spec
=============================================================================
