---------------------------- MODULE RoomsProofs ----------------------------
(***************************************************************************)
(* Proofs about a study room, for any users, documents, handlers, sockets  *)
(* and bounds.                                                             *)
(*                                                                         *)
(* GroupRoom: requests that overlap pass the limit of members, and the     *)
(* limit of documents, by no more than one each; requests that do not      *)
(* overlap keep one host, and do not close the room over its members'      *)
(* heads.                                                                  *)
(*                                                                         *)
(* RoomChat: while Redis keeps its data, a newcomer sees what was said     *)
(* last, in order and with its reactions; the assistant answers one        *)
(* question at a time.                                                     *)
(*                                                                         *)
(* MCRooms, which holds them both, keeps the types of all their variables. *)
(*                                                                         *)
(* RoomHub: no member's channel is closed, so that no broadcast ends the   *)
(* process, and a timer counts down only for a user without a socket.      *)
(***************************************************************************)
EXTENDS MCRooms, RoomHub, Integers, Sequences, FiniteSetTheorems, WellFoundedInduction, TLAPS

(* The handlers that have passed the check and not written yet.            *)
JoinSteps == {"seat", "look", "join", "rejoin"}
AddSteps == {"link", "upload"}

Joining == {h \in Handlers : req[h].step \in JoinSteps}
Adding(u) == {h \in Handlers : req[h].user = u /\ req[h].step \in AddSteps}

Tables ==
    /\ DOMAIN row = Users /\ DOMAIN req = Handlers
    /\ DOMAIN doc = Docs /\ DOMAIN linked_by = Docs
    /\ failed \in BOOLEAN

(* Nothing is asked of a room that is not there.                           *)
BeforeTheRoom == status = "none" => In = {} /\ \A h \in Handlers : req[h] = Idle

(* A file is uploaded for the one who will own it.                         *)
UploadsAreOwn ==
    \A h \in Handlers :
        req[h].step \in {"upload quota", "upload"} => Owner[req[h].arg] = req[h].user

(* A seat is taken by who sits and by who will.                            *)
SeatsAreCounted == Cardinality(In) + Cardinality(Joining) <= MaxMembers + Excess

AreCounted(u) == Cardinality(CountedFor(u)) + Cardinality(Adding(u)) <= MaxDocs + Excess

DocsAreCounted == \A u \in Users : AreCounted(u)

IInv == Tables /\ BeforeTheRoom /\ UploadsAreOwn /\ SeatsAreCounted /\ DocsAreCounted

-----------------------------------------------------------------------------
(* Counting.  A is what is there, B who is about to add to it.             *)

LEMMA Smaller ==
  ASSUME NEW T, IsFiniteSet(T), NEW S, S \subseteq T
  PROVE  IsFiniteSet(S) /\ Cardinality(S) \in Nat /\ Cardinality(S) <= Cardinality(T)
  <1>1. IsFiniteSet(S) /\ Cardinality(S) <= Cardinality(T)
    BY FS_Subset
  <1> QED
    BY <1>1, FS_CardinalityType

LEMMA Larger ==
  ASSUME NEW S, IsFiniteSet(S), NEW x
  PROVE  IsFiniteSet(S \cup {x}) /\ Cardinality(S \cup {x}) <= Cardinality(S) + 1
  <1>1. /\ IsFiniteSet(S \cup {x})
        /\ Cardinality(S \cup {x}) = IF x \in S THEN Cardinality(S) ELSE Cardinality(S) + 1
    BY FS_AddElement
  <1>2. Cardinality(S) \in Nat
    BY FS_CardinalityType
  <1> QED
    BY <1>1, <1>2

LEMMA Shrinks ==
  ASSUME NEW A, NEW B, IsFiniteSet(A), IsFiniteSet(B),
         NEW A2, A2 \subseteq A, NEW B2, B2 \subseteq B,
         NEW m \in Nat, NEW e \in Int, NEW e2 \in Int, e <= e2,
         Cardinality(A) + Cardinality(B) <= m + e
  PROVE  Cardinality(A2) + Cardinality(B2) <= m + e2
  <1>1. Cardinality(A2) \in Nat /\ Cardinality(A2) <= Cardinality(A)
    BY Smaller
  <1>2. Cardinality(B2) \in Nat /\ Cardinality(B2) <= Cardinality(B)
    BY Smaller
  <1>3. Cardinality(A) \in Nat /\ Cardinality(B) \in Nat
    BY FS_CardinalityType
  <1> QED
    BY <1>1, <1>2, <1>3

LEMMA Takes ==
  ASSUME NEW A, NEW B, IsFiniteSet(A), IsFiniteSet(B),
         NEW x, NEW A2, A2 \subseteq A \cup {x},
         NEW h \in B, NEW B2, B2 \subseteq B \ {h},
         NEW m \in Nat, NEW e \in Int, Cardinality(A) + Cardinality(B) <= m + e
  PROVE  Cardinality(A2) + Cardinality(B2) <= m + e
  <1>1. IsFiniteSet(A \cup {x}) /\ Cardinality(A \cup {x}) <= Cardinality(A) + 1
    BY Larger
  <1>2. IsFiniteSet(B \ {h}) /\ Cardinality(B \ {h}) = Cardinality(B) - 1
    BY FS_RemoveElement
  <1>3. Cardinality(A2) \in Nat /\ Cardinality(A2) <= Cardinality(A \cup {x})
    BY <1>1, Smaller
  <1>4. Cardinality(B2) \in Nat /\ Cardinality(B2) <= Cardinality(B \ {h})
    BY <1>2, Smaller
  <1>5. /\ Cardinality(A) \in Nat /\ Cardinality(B) \in Nat
        /\ Cardinality(A \cup {x}) \in Nat
    BY <1>1, FS_CardinalityType
  <1> QED
    BY <1>1, <1>2, <1>3, <1>4, <1>5

LEMMA Asks ==
  ASSUME NEW A, IsFiniteSet(A), NEW B2, B2 \subseteq Handlers,
         NEW m \in Nat, Cardinality(A) < m,
         NEW e \in Int, Cardinality(Handlers) - 1 <= e
  PROVE  Cardinality(A) + Cardinality(B2) <= m + e
  <1>1. /\ Cardinality(B2) \in Nat /\ Cardinality(B2) <= Cardinality(Handlers)
        /\ Cardinality(Handlers) \in Nat
    BY Smaller, FiniteAssumption, FS_CardinalityType
  <1>2. Cardinality(A) \in Nat
    BY FS_CardinalityType
  <1> QED
    BY <1>1, <1>2

LEMMA Ignores ==
  ASSUME NEW A, NEW B, IsFiniteSet(A), IsFiniteSet(B),
         NEW h, NEW B2, B2 \subseteq B \cup {h},
         NEW m \in Nat, NEW e \in Int, NEW e2 \in Int, e2 = e + 1,
         Cardinality(A) + Cardinality(B) <= m + e
  PROVE  Cardinality(A) + Cardinality(B2) <= m + e2
  <1>1. IsFiniteSet(B \cup {h}) /\ Cardinality(B \cup {h}) <= Cardinality(B) + 1
    BY Larger
  <1>2. Cardinality(B2) \in Nat /\ Cardinality(B2) <= Cardinality(B \cup {h})
    BY <1>1, Smaller
  <1>3. /\ Cardinality(A) \in Nat /\ Cardinality(B) \in Nat
        /\ Cardinality(B \cup {h}) \in Nat
    BY <1>1, FS_CardinalityType
  <1> QED
    BY <1>1, <1>2, <1>3

(* The sets that are counted are finite.                                   *)
LEMMA CountedAreFinite ==
  /\ IsFiniteSet(In) /\ IsFiniteSet(Joining)
  /\ \A u \in Users : IsFiniteSet(CountedFor(u)) /\ IsFiniteSet(Adding(u))
  <1>1. In \subseteq Users /\ Joining \subseteq Handlers
    BY DEF In, Joining
  <1>2. \A u \in Users : CountedFor(u) \subseteq Docs /\ Adding(u) \subseteq Handlers
    BY DEF CountedFor, Adding
  <1> QED
    BY <1>1, <1>2, FiniteAssumption, Smaller

LEMMA ExcessIsInt ==
  ASSUME Tables
  PROVE  /\ Excess \in Int
         /\ Excess = IF failed THEN Cardinality(Handlers) ELSE Cardinality(Handlers) - 1
         /\ Cardinality(Handlers) - 1 <= Excess
  <1>1. Cardinality(Handlers) \in Nat
    BY FiniteAssumption, FS_CardinalityType
  <1> QED
    BY <1>1 DEF Excess, Tables

LEMMA ExcessGrows ==
  ASSUME Tables, Tables', failed => failed'
  PROVE  Excess' \in Int /\ Excess <= Excess' /\ (~failed /\ failed' => Excess' = Excess + 1)
  <1>1. Cardinality(Handlers) \in Nat
    BY FiniteAssumption, FS_CardinalityType
  <1> QED
    BY <1>1 DEF Excess, Tables

-----------------------------------------------------------------------------
(* What a step of one handler may do to the counted sets.                  *)

LEMMA OneMoves ==
  ASSUME Tables, NEW h \in Handlers, NEW r, req' = [req EXCEPT ![h] = r]
  PROVE  /\ DOMAIN req' = Handlers /\ req'[h] = r
         /\ \A g \in Handlers \ {h} : req'[g] = req[g]
  BY DEF Tables

LEMMA MembersStay ==
  ASSUME UNCHANGED row
  PROVE  In' = In
  BY DEF In

LEMMA DocsStay ==
  ASSUME UNCHANGED docs
  PROVE  \A u \in Users : CountedFor(u)' = CountedFor(u)
  BY DEF docs, CountedFor

LEMMA TablesStay ==
  ASSUME Tables, NEW h \in Handlers, NEW r, req' = [req EXCEPT ![h] = r],
         DOMAIN row' = Users, DOMAIN doc' = Docs, DOMAIN linked_by' = Docs,
         failed' \in BOOLEAN
  PROVE  Tables'
  BY DEF Tables

LEMMA SeatsStay ==
  ASSUME Tables, Tables', SeatsAreCounted, failed => failed',
         In' \subseteq In, Joining' \subseteq Joining
  PROVE  SeatsAreCounted'
  <1>1. Excess \in Int /\ Excess' \in Int /\ Excess <= Excess'
    BY ExcessIsInt, ExcessGrows
  <1>2. Cardinality(In) + Cardinality(Joining) <= MaxMembers + Excess /\ MaxMembers \in Nat
    BY BoundAssumption DEF SeatsAreCounted
  <1>3. Cardinality(In') + Cardinality(Joining') <= MaxMembers + Excess'
    BY <1>1, <1>2, CountedAreFinite, Shrinks
  <1> QED
    BY <1>3 DEF SeatsAreCounted

LEMMA CountStays ==
  ASSUME Tables, Tables', NEW u \in Users, AreCounted(u), failed => failed',
         CountedFor(u)' \subseteq CountedFor(u), Adding(u)' \subseteq Adding(u)
  PROVE  AreCounted(u)'
  <1>1. Excess \in Int /\ Excess' \in Int /\ Excess <= Excess'
    BY ExcessIsInt, ExcessGrows
  <1>2. /\ Cardinality(CountedFor(u)) + Cardinality(Adding(u)) <= MaxDocs + Excess
        /\ MaxDocs \in Nat
    BY BoundAssumption DEF AreCounted
  <1>3. Cardinality(CountedFor(u)') + Cardinality(Adding(u)') <= MaxDocs + Excess'
    BY <1>1, <1>2, CountedAreFinite, Shrinks
  <1> QED
    BY <1>3 DEF AreCounted

(* A step by which nobody passes a check, sits down or adds a document.    *)
QuietTo(h, r) ==
    /\ req' = [req EXCEPT ![h] = r]
    /\ r.step \in JoinSteps => req[h].step \in JoinSteps
    /\ r.step \notin AddSteps
    /\ r.step = "upload quota" => Owner[r.arg] = r.user
    /\ status' # "none"
    /\ In' \subseteq In
    /\ \A u \in Users : CountedFor(u)' \subseteq CountedFor(u)
    /\ failed => failed'

LEMMA QuietStep ==
  ASSUME IInv, Tables', NEW h \in Handlers, NEW r, QuietTo(h, r)
  PROVE  IInv'
  <1>0. IInv /\ Tables
    BY DEF IInv
  <1>1. req'[h] = r /\ \A g \in Handlers \ {h} : req'[g] = req[g]
    BY <1>0, OneMoves DEF QuietTo
  <1>2. BeforeTheRoom'
    BY DEF BeforeTheRoom, QuietTo
  <1>3. UploadsAreOwn'
    BY <1>0, <1>1 DEF IInv, UploadsAreOwn, AddSteps, QuietTo
  <1>4. Joining' \subseteq Joining
    BY <1>1 DEF Joining, QuietTo
  <1>5. \A u \in Users : Adding(u)' \subseteq Adding(u)
    BY <1>1 DEF Adding, QuietTo
  <1>7. SeatsAreCounted'
    BY <1>0, <1>4, SeatsStay DEF IInv, QuietTo
  <1>8. DocsAreCounted'
    BY <1>0, <1>5, CountStays DEF IInv, DocsAreCounted, QuietTo
  <1> QED
    BY <1>2, <1>3, <1>7, <1>8 DEF IInv
-----------------------------------------------------------------------------
(* The requests.                                                           *)

LEMMA InitOK == Init => IInv
  <1> SUFFICES ASSUME Init PROVE IInv
    OBVIOUS
  <1>1. Tables
    BY DEF Init, Tables
  <1>2. In = {} /\ Joining = {}
    BY DEF Init, In, Joining, Idle, JoinSteps
  <1>3. \A u \in Users : CountedFor(u) = {} /\ Adding(u) = {}
    BY NobodyAssumption DEF Init, CountedFor, Adding, Idle, AddSteps
  <1>4. BeforeTheRoom /\ UploadsAreOwn
    BY <1>2 DEF Init, BeforeTheRoom, UploadsAreOwn, Idle
  <1>5. Excess \in Int /\ Cardinality(Handlers) \in Nat /\ Excess >= -1
    <2>1. Cardinality(Handlers) \in Nat
      BY FiniteAssumption, FS_CardinalityType
    <2> QED
      BY <1>1, <2>1, ExcessIsInt
  <1>6. SeatsAreCounted
    BY <1>2, <1>5, FS_EmptySet, BoundAssumption DEF SeatsAreCounted
  <1>7. DocsAreCounted
    BY <1>3, <1>5, FS_EmptySet, BoundAssumption DEF DocsAreCounted, AreCounted
  <1> QED
    BY <1>1, <1>4, <1>6, <1>7 DEF IInv

LEMMA QuietRequests ==
  ASSUME IInv, NEW h \in Handlers, NEW u \in Users,
         \/ JoinRoom(h, u) \/ LeaveRoom(h, u) \/ CloseRoom(h, u)
         \/ \E v \in Users : KickMember(h, u, v)
         \/ \E d \in Docs : \/ LinkDocToRoom(h, u, d) \/ UploadToRoom(h, u, d)
                            \/ UnlinkDocFromRoom(h, u, d)
  PROVE  IInv'
  <1>1. PICK step, arg :
           /\ Start(h, step, u, arg)
           /\ step \notin JoinSteps \cup AddSteps
           /\ step = "upload quota" => Owner[arg] = u
    <2> DEFINE Starts(step, arg) ==
            /\ Start(h, step, u, arg)
            /\ step \notin JoinSteps \cup AddSteps
            /\ step = "upload quota" => Owner[arg] = u
    <2>1. CASE JoinRoom(h, u)
      <3>1. Starts("count", Nobody)
        BY <2>1 DEF JoinRoom, JoinSteps, AddSteps
      <3> QED
        BY <3>1
    <2>2. CASE LeaveRoom(h, u)
      <3>1. Starts("abdicate", Nobody) \/ Starts("leave", Nobody)
        BY <2>2 DEF LeaveRoom, JoinSteps, AddSteps
      <3> QED
        BY <3>1
    <2>3. CASE CloseRoom(h, u)
      <3>1. Starts("close", Nobody)
        BY <2>3 DEF CloseRoom, JoinSteps, AddSteps
      <3> QED
        BY <3>1
    <2>4. ASSUME NEW v \in Users, KickMember(h, u, v)
          PROVE  \E step, arg : Starts(step, arg)
      <3>1. Starts("kick", v)
        BY <2>4 DEF KickMember, JoinSteps, AddSteps
      <3> QED
        BY <3>1
    <2>5. ASSUME NEW d \in Docs,
                 \/ LinkDocToRoom(h, u, d) \/ UploadToRoom(h, u, d)
                 \/ UnlinkDocFromRoom(h, u, d)
          PROVE  \E step, arg : Starts(step, arg)
      <3>1. \/ Starts("link count", d) \/ Starts("link quota", d)
            \/ Starts("upload quota", d) \/ Starts("unlink", d)
        BY <2>5 DEF LinkDocToRoom, UploadToRoom, UnlinkDocFromRoom, JoinSteps, AddSteps
      <3> QED
        BY <3>1
    <2> QED
      BY <2>1, <2>2, <2>3, <2>4, <2>5
  <1>2. UNCHANGED <<room, members, docs, failed>>
    BY DEF JoinRoom, LeaveRoom, CloseRoom, KickMember, LinkDocToRoom, UploadToRoom,
           UnlinkDocFromRoom
  <1>3. status # "none"
    BY DEF IInv, BeforeTheRoom, JoinRoom, LeaveRoom, CloseRoom, IsHost, KickMember,
           LinkDocToRoom, UploadToRoom, UnlinkDocFromRoom
  <1> DEFINE r == [step |-> step, user |-> u, arg |-> arg]
  <1>4. req' = [req EXCEPT ![h] = r] /\ r.step = step /\ r.user = u /\ r.arg = arg
    BY <1>1 DEF Start
  <1> HIDE DEF r
  <1>5. In' = In /\ \A v \in Users : CountedFor(v)' = CountedFor(v)
    BY <1>2, MembersStay, DocsStay DEF members
  <1>6. QuietTo(h, r)
    BY <1>1, <1>2, <1>3, <1>4, <1>5 DEF QuietTo, room
  <1>7. Tables'
    BY <1>2, <1>4, TablesStay DEF IInv, Tables, members, docs
  <1> QED
    BY <1>6, <1>7, QuietStep

-----------------------------------------------------------------------------
(* The steps that pass no check and add nothing.                           *)

LEMMA AtWork ==
  ASSUME IInv, NEW h \in Handlers, req[h].step # "idle"
  PROVE  status # "none"
  BY DEF IInv, BeforeTheRoom, Idle

(* A handler that leaves the documents alone.                              *)
LEMMA QuietContinue ==
  ASSUME IInv, NEW h \in Handlers, NEW r, req' = [req EXCEPT ![h] = r],
         req[h].step # "idle",
         r.step \in JoinSteps => req[h].step \in JoinSteps,
         r.step \notin AddSteps, r.step # "upload quota",
         UNCHANGED status \/ status' = "closed",
         DOMAIN row' = Users, In' \subseteq In,
         UNCHANGED docs, failed => failed', failed' \in BOOLEAN
  PROVE  IInv'
  <1>1. status' # "none"
    BY AtWork
  <1>2. \A u \in Users : CountedFor(u)' = CountedFor(u)
    BY DocsStay
  <1>3. QuietTo(h, r)
    BY <1>1, <1>2 DEF QuietTo
  <1>4. Tables'
    BY TablesStay DEF IInv, Tables, docs
  <1> QED
    BY <1>3, <1>4, QuietStep

LEMMA QuietMembers ==
  ASSUME IInv, NEW h \in Handlers,
         \/ LeaveWrites(h) \/ TransferPicks(h) \/ EndRoom(h) \/ Promote(h)
         \/ NameHost(h) \/ CloseWrites(h) \/ KickWrites(h)
  PROVE  IInv'
  <1>1. PICK r : /\ req' = [req EXCEPT ![h] = r]
                 /\ r.step \notin JoinSteps \cup AddSteps /\ r.step # "upload quota"
    <2> DEFINE Goes(r) ==
            /\ req' = [req EXCEPT ![h] = r]
            /\ r.step \notin JoinSteps \cup AddSteps /\ r.step # "upload quota"
    <2>1. ASSUME Done(h) PROVE \E r : Goes(r)
      <3>1. Goes(Idle)
        BY <2>1 DEF Done, Idle, JoinSteps, AddSteps
      <3> QED
        BY <3>1
    <2>2. ASSUME NEW step \in {"transfer", "end", "promote", "name"}, NEW arg,
                 Goto(h, step, arg)
          PROVE  \E r : Goes(r)
      <3>1. Goes([step |-> step, user |-> req[h].user, arg |-> arg])
        BY <2>2 DEF Goto, JoinSteps, AddSteps
      <3> QED
        BY <3>1
    <2>3. \/ Done(h)
          \/ \E step \in {"transfer", "end", "promote", "name"} : \E arg : Goto(h, step, arg)
      BY DEF LeaveWrites, TransferPicks, EndRoom, Promote, NameHost, CloseWrites, KickWrites
    <2> QED
      BY <2>1, <2>2, <2>3
  <1>2. req[h].step # "idle"
    BY DEF At, LeaveWrites, TransferPicks, EndRoom, Promote, NameHost, CloseWrites, KickWrites
  <1>3. /\ UNCHANGED status \/ status' = "closed"
        /\ UNCHANGED <<docs, failed>>
    BY DEF LeaveWrites, TransferPicks, EndRoom, Promote, NameHost, CloseWrites, KickWrites, room
  <1>4. DOMAIN row' = Users /\ In' \subseteq In
    <2>1. CASE UNCHANGED row
      BY <2>1, MembersStay DEF IInv, Tables
    <2>2. CASE \E u : row' = [row EXCEPT ![u] = "left"]
      BY <2>2 DEF IInv, Tables, In
    <2>3. CASE \E u : row' = [row EXCEPT ![u] = IF row[u] = "in" THEN "left" ELSE row[u]]
      BY <2>3 DEF IInv, Tables, In
    <2> QED
      BY <2>1, <2>2, <2>3 DEF LeaveWrites, Unseat, TransferPicks, EndRoom, Promote, NameHost,
                              CloseWrites, KickWrites, members
  <1> QED
    BY <1>1, <1>2, <1>3, <1>4, QuietContinue DEF IInv, Tables

LEMMA QuietLook ==
  ASSUME IInv, NEW h \in Handlers, JoinLooks(h)
  PROVE  IInv'
  <1>1. At(h, "look") /\ UNCHANGED <<room, members, docs, failed>>
    BY DEF JoinLooks
  <1>2. PICK r : req' = [req EXCEPT ![h] = r] /\ r.step \in {"idle", "rejoin", "join"}
    <2> DEFINE Goes(r) == req' = [req EXCEPT ![h] = r] /\ r.step \in {"idle", "rejoin", "join"}
    <2>1. ASSUME Done(h) PROVE \E r : Goes(r)
      <3>1. Goes(Idle)
        BY <2>1 DEF Done, Idle
      <3> QED
        BY <3>1
    <2>2. ASSUME NEW step \in {"rejoin", "join"}, Goto(h, step, Nobody)
          PROVE  \E r : Goes(r)
      <3>1. Goes([step |-> step, user |-> req[h].user, arg |-> Nobody])
        BY <2>2 DEF Goto
      <3> QED
        BY <3>1
    <2>3. Done(h) \/ \E step \in {"rejoin", "join"} : Goto(h, step, Nobody)
      BY DEF JoinLooks
    <2> QED
      BY <2>1, <2>2, <2>3
  <1>3. In' = In /\ DOMAIN row' = Users /\ UNCHANGED status
    BY <1>1, MembersStay DEF members, room, IInv, Tables
  <1> QED
    BY <1>1, <1>2, <1>3, QuietContinue DEF IInv, Tables, At, JoinSteps, AddSteps

-----------------------------------------------------------------------------
(* The steps that pass a check, or write after it.                         *)

(* A handler that passes the check of the seats takes one of those left.   *)
LEMMA SeatAsked ==
  ASSUME IInv, NEW h \in Handlers, NEW r, req' = [req EXCEPT ![h] = r],
         r.step \in JoinSteps, status' # "none",
         Cardinality(In) < MaxMembers,
         UNCHANGED <<row, docs, failed>>
  PROVE  IInv'
  <1>0. Tables /\ Tables'
    BY TablesStay DEF IInv, Tables, docs
  <1>1. req'[h] = r /\ \A g \in Handlers \ {h} : req'[g] = req[g]
    BY <1>0, OneMoves
  <1>2. BeforeTheRoom'
    BY DEF BeforeTheRoom
  <1>3. UploadsAreOwn'
    BY <1>1 DEF IInv, UploadsAreOwn, JoinSteps
  <1>4. In' = In /\ Joining' \subseteq Handlers /\ \A u \in Users : CountedFor(u)' = CountedFor(u)
    BY MembersStay, DocsStay DEF Joining
  <1>5. \A u \in Users : Adding(u)' \subseteq Adding(u)
    BY <1>1 DEF Adding, JoinSteps, AddSteps
  <1>6. Excess' \in Int /\ Cardinality(Handlers) - 1 <= Excess'
    <2>1. Cardinality(Handlers) \in Nat
      BY FiniteAssumption, FS_CardinalityType
    <2> QED
      BY <1>0, <2>1 DEF Excess, Tables
  <1>7. MaxMembers \in Nat
    BY BoundAssumption
  <1>8. Cardinality(In) + Cardinality(Joining') <= MaxMembers + Excess'
    BY <1>4, <1>6, <1>7, CountedAreFinite, Asks
  <1>9. SeatsAreCounted'
    BY <1>4, <1>8 DEF SeatsAreCounted
  <1>10. DocsAreCounted'
    BY <1>0, <1>4, <1>5, CountStays DEF IInv, DocsAreCounted
  <1> QED
    BY <1>0, <1>2, <1>3, <1>9, <1>10 DEF IInv

(* Who sits down had taken the seat already.                               *)
LEMMA SeatTaken ==
  ASSUME IInv, NEW h \in Handlers, Done(h), req[h].step \in JoinSteps,
         NEW u, In' \subseteq In \cup {u}, DOMAIN row' = Users,
         UNCHANGED <<status, docs, failed>>
  PROVE  IInv'
  <1>0. Tables /\ Tables'
    BY TablesStay DEF IInv, Tables, docs, Done
  <1>1. req'[h].step = "idle" /\ \A g \in Handlers \ {h} : req'[g] = req[g]
    BY <1>0, OneMoves DEF Done, Idle
  <1>2. BeforeTheRoom'
    BY AtWork DEF BeforeTheRoom, JoinSteps
  <1>3. UploadsAreOwn'
    BY <1>1 DEF IInv, UploadsAreOwn
  <1>4. h \in Joining /\ Joining' \subseteq Joining \ {h}
    BY <1>1 DEF Joining, JoinSteps
  <1>5. \A v \in Users : CountedFor(v)' = CountedFor(v) /\ Adding(v)' \subseteq Adding(v)
    BY <1>1, DocsStay DEF Adding, AddSteps
  <1>6. Excess \in Int /\ Excess' = Excess /\ MaxMembers \in Nat
    BY <1>0, ExcessIsInt, BoundAssumption DEF Excess
  <1>7. Cardinality(In) + Cardinality(Joining) <= MaxMembers + Excess
    BY DEF IInv, SeatsAreCounted
  <1>8. Cardinality(In') + Cardinality(Joining') <= MaxMembers + Excess
    BY <1>4, <1>6, <1>7, CountedAreFinite, Takes
  <1>9. SeatsAreCounted'
    BY <1>6, <1>8 DEF SeatsAreCounted
  <1>10. DocsAreCounted'
    BY <1>0, <1>5, CountStays DEF IInv, DocsAreCounted
  <1> QED
    BY <1>0, <1>2, <1>3, <1>9, <1>10 DEF IInv

(* A handler that passes the check of the quota.                           *)
LEMMA DocAsked ==
  ASSUME IInv, NEW h \in Handlers, NEW r, req' = [req EXCEPT ![h] = r],
         r.step \in AddSteps, r.user = req[h].user, req[h].step # "idle",
         r.step = "upload" => Owner[r.arg] = r.user,
         WithinQuota(req[h].user), UNCHANGED <<status, row, docs, failed>>
  PROVE  IInv'
  <1>0. Tables /\ Tables'
    BY TablesStay DEF IInv, Tables, docs
  <1>1. req'[h] = r /\ \A g \in Handlers \ {h} : req'[g] = req[g]
    BY <1>0, OneMoves
  <1>2. BeforeTheRoom'
    BY AtWork DEF BeforeTheRoom
  <1>3. UploadsAreOwn'
    BY <1>1 DEF IInv, UploadsAreOwn, AddSteps
  <1>4. In' = In /\ Joining' \subseteq Joining
    BY <1>1, MembersStay DEF Joining, JoinSteps, AddSteps
  <1>5. SeatsAreCounted'
    BY <1>0, <1>4, SeatsStay DEF IInv
  <1>6. ASSUME NEW u \in Users PROVE AreCounted(u)'
    <2>1. CountedFor(u)' = CountedFor(u)
      BY DocsStay
    <2>2. CASE u = req[h].user
      <3>1. Cardinality(CountedFor(u)) < MaxDocs /\ Adding(u)' \subseteq Handlers
        BY <2>2 DEF WithinQuota, Adding
      <3>2. Excess' \in Int /\ Cardinality(Handlers) - 1 <= Excess' /\ MaxDocs \in Nat
        <4>1. Cardinality(Handlers) \in Nat
          BY FiniteAssumption, FS_CardinalityType
        <4> QED
          BY <1>0, <4>1, BoundAssumption DEF Excess, Tables
      <3>3. Cardinality(CountedFor(u)) + Cardinality(Adding(u)') <= MaxDocs + Excess'
        BY <3>1, <3>2, CountedAreFinite, Asks
      <3> QED
        BY <2>1, <3>3 DEF AreCounted
    <2>3. CASE u # req[h].user
      <3>1. Adding(u)' \subseteq Adding(u)
        BY <1>1, <2>3 DEF Adding
      <3> QED
        BY <1>0, <2>1, <3>1, CountStays DEF IInv, DocsAreCounted
    <2> QED
      BY <2>2, <2>3
  <1> QED
    BY <1>0, <1>2, <1>3, <1>5, <1>6 DEF IInv, DocsAreCounted

(* The document that is added had been counted already.                    *)
LEMMA DocAdded ==
  ASSUME IInv, NEW h \in Handlers, Done(h), req[h].step \in AddSteps,
         NEW w, req[h].user = w, NEW d, CountedFor(w)' \subseteq CountedFor(w) \cup {d},
         \A u \in Users \ {w} : CountedFor(u)' \subseteq CountedFor(u),
         DOMAIN doc' = Docs, DOMAIN linked_by' = Docs,
         UNCHANGED <<status, row, failed>>
  PROVE  IInv'
  <1>0. Tables /\ Tables'
    BY TablesStay DEF IInv, Tables, Done
  <1>1. req'[h].step = "idle" /\ \A g \in Handlers \ {h} : req'[g] = req[g]
    BY <1>0, OneMoves DEF Done, Idle
  <1>2. BeforeTheRoom'
    BY AtWork DEF BeforeTheRoom, AddSteps
  <1>3. UploadsAreOwn'
    BY <1>1 DEF IInv, UploadsAreOwn
  <1>4. In' = In /\ Joining' \subseteq Joining
    BY <1>1, MembersStay DEF Joining, JoinSteps
  <1>5. SeatsAreCounted'
    BY <1>0, <1>4, SeatsStay DEF IInv
  <1>6. ASSUME NEW u \in Users PROVE AreCounted(u)'
    <2>1. CASE u = w
      <3>1. h \in Adding(u) /\ Adding(u)' \subseteq Adding(u) \ {h}
        BY <1>1, <2>1 DEF Adding, AddSteps
      <3>2. Excess \in Int /\ Excess' = Excess /\ MaxDocs \in Nat
        BY <1>0, ExcessIsInt, BoundAssumption DEF Excess
      <3>3. Cardinality(CountedFor(u)) + Cardinality(Adding(u)) <= MaxDocs + Excess
        BY DEF IInv, DocsAreCounted, AreCounted
      <3>4. CountedFor(u)' \subseteq CountedFor(u) \cup {d}
        BY <2>1
      <3>5. Cardinality(CountedFor(u)') + Cardinality(Adding(u)') <= MaxDocs + Excess
        BY <3>1, <3>2, <3>3, <3>4, CountedAreFinite, Takes
      <3> QED
        BY <3>2, <3>5 DEF AreCounted
    <2>2. CASE u # w
      <3>1. Adding(u)' \subseteq Adding(u)
        BY <1>1 DEF Adding, AddSteps
      <3> QED
        BY <1>0, <2>2, <3>1, CountStays DEF IInv, DocsAreCounted
    <2> QED
      BY <2>1, <2>2
  <1> QED
    BY <1>0, <1>2, <1>3, <1>5, <1>6 DEF IInv, DocsAreCounted

(* A check whose statement fails is passed by one more.                    *)
LEMMA SeatIgnored ==
  ASSUME IInv, NEW h \in Handlers, At(h, "count"), Goto(h, "look", Nobody),
         ~failed, failed' = TRUE, UNCHANGED <<room, members, docs>>
  PROVE  IInv'
  <1> DEFINE r == [step |-> "look", user |-> req[h].user, arg |-> Nobody]
  <1>a. req' = [req EXCEPT ![h] = r] /\ r.step = "look" /\ req[h].step = "count"
    BY DEF Goto, At
  <1> HIDE DEF r
  <1>0. Tables /\ Tables'
    BY <1>a, TablesStay DEF IInv, Tables, docs, members
  <1>1. req'[h] = r /\ \A g \in Handlers \ {h} : req'[g] = req[g]
    BY <1>0, <1>a, OneMoves
  <1>2. BeforeTheRoom'
    BY <1>a, AtWork DEF BeforeTheRoom, room
  <1>3. UploadsAreOwn'
    BY <1>1, <1>a DEF IInv, UploadsAreOwn
  <1>4. In' = In /\ Joining' \subseteq Joining \cup {h}
    BY <1>1, MembersStay DEF Joining, members
  <1>5. \A u \in Users : CountedFor(u)' = CountedFor(u) /\ Adding(u)' \subseteq Adding(u)
    BY <1>1, <1>a, DocsStay DEF Adding, AddSteps
  <1>6. Excess \in Int /\ Excess' \in Int /\ Excess' = Excess + 1 /\ MaxMembers \in Nat
    BY <1>0, ExcessIsInt, ExcessGrows, BoundAssumption
  <1>7. Cardinality(In) + Cardinality(Joining) <= MaxMembers + Excess
    BY DEF IInv, SeatsAreCounted
  <1>8. Cardinality(In) + Cardinality(Joining') <= MaxMembers + Excess'
    BY <1>4, <1>6, <1>7, CountedAreFinite, Ignores
  <1>9. SeatsAreCounted'
    BY <1>4, <1>8 DEF SeatsAreCounted
  <1>10. DocsAreCounted'
    BY <1>0, <1>5, CountStays DEF IInv, DocsAreCounted
  <1> QED
    BY <1>0, <1>2, <1>3, <1>9, <1>10 DEF IInv

LEMMA DocIgnored ==
  ASSUME IInv, NEW h \in Handlers, At(h, "link count"), Goto(h, "link", req[h].arg),
         ~failed, failed' = TRUE, UNCHANGED <<room, members, docs>>
  PROVE  IInv'
  <1> DEFINE r == [step |-> "link", user |-> req[h].user, arg |-> req[h].arg]
  <1>a. /\ req' = [req EXCEPT ![h] = r] /\ r.step = "link" /\ r.user = req[h].user
        /\ req[h].step = "link count"
    BY DEF Goto, At
  <1> HIDE DEF r
  <1>0. Tables /\ Tables'
    BY <1>a, TablesStay DEF IInv, Tables, docs, members
  <1>1. req'[h] = r /\ \A g \in Handlers \ {h} : req'[g] = req[g]
    BY <1>0, <1>a, OneMoves
  <1>2. BeforeTheRoom'
    BY <1>a, AtWork DEF BeforeTheRoom, room
  <1>3. UploadsAreOwn'
    BY <1>1, <1>a DEF IInv, UploadsAreOwn
  <1>4. In' = In /\ Joining' \subseteq Joining
    BY <1>1, <1>a, MembersStay DEF Joining, members, JoinSteps
  <1>5. SeatsAreCounted'
    BY <1>0, <1>4, SeatsStay DEF IInv
  <1>6. ASSUME NEW u \in Users PROVE AreCounted(u)'
    <2>1. CountedFor(u)' = CountedFor(u) /\ Adding(u)' \subseteq Adding(u) \cup {h}
      BY <1>1, DocsStay DEF Adding
    <2>2. Excess \in Int /\ Excess' \in Int /\ Excess' = Excess + 1 /\ MaxDocs \in Nat
      BY <1>0, ExcessIsInt, ExcessGrows, BoundAssumption
    <2>3. Cardinality(CountedFor(u)) + Cardinality(Adding(u)) <= MaxDocs + Excess
      BY DEF IInv, DocsAreCounted, AreCounted
    <2>4. Cardinality(CountedFor(u)) + Cardinality(Adding(u)') <= MaxDocs + Excess'
      BY <2>1, <2>2, <2>3, CountedAreFinite, Ignores
    <2> QED
      BY <2>1, <2>4 DEF AreCounted
  <1> QED
    BY <1>0, <1>2, <1>3, <1>5, <1>6 DEF IInv, DocsAreCounted

-----------------------------------------------------------------------------
(* The remaining actions.                                                  *)

LEMMA CreateRoomOK ==
  ASSUME IInv, NEW h \in Handlers, NEW u \in Users, CreateRoom(h, u)
  PROVE  IInv'
  <1> DEFINE r == [step |-> "seat", user |-> u, arg |-> Nobody]
  <1>1. req' = [req EXCEPT ![h] = r] /\ r.step \in JoinSteps
    BY DEF CreateRoom, Start, JoinSteps
  <1> HIDE DEF r
  <1>2. Cardinality(In) < MaxMembers
    <2>1. In = {}
      BY DEF IInv, BeforeTheRoom, CreateRoom
    <2> QED
      BY <2>1, FS_EmptySet, BoundAssumption
  <1>3. status' # "none" /\ UNCHANGED <<row, docs, failed>>
    BY DEF CreateRoom, members
  <1> QED
    BY <1>1, <1>2, <1>3, SeatAsked

LEMMA SeatHostOK ==
  ASSUME IInv, NEW h \in Handlers, SeatHost(h)
  PROVE  IInv'
  <1> DEFINE u == req[h].user
  <1>1. DOMAIN row' = Users /\ In' \subseteq In \cup {u}
    BY DEF SeatHost, IInv, Tables, In
  <1>2. /\ Done(h) /\ req[h].step \in JoinSteps
        /\ UNCHANGED <<status, docs, failed>>
    BY DEF SeatHost, At, JoinSteps, room
  <1> QED
    BY <1>1, <1>2, SeatTaken

LEMMA JoinOK ==
  ASSUME IInv, NEW h \in Handlers, JoinCounts(h) \/ JoinWrites(h)
  PROVE  IInv'
  <1>1. CASE JoinCounts(h) /\ HasSeat
    <2> DEFINE r == [step |-> "look", user |-> req[h].user, arg |-> Nobody]
    <2>1. req' = [req EXCEPT ![h] = r] /\ r.step \in JoinSteps
      BY <1>1 DEF JoinCounts, Goto, JoinSteps
    <2> HIDE DEF r
    <2>2. /\ Cardinality(In) < MaxMembers /\ req[h].step # "idle"
          /\ UNCHANGED <<status, row, docs, failed>>
      BY <1>1 DEF JoinCounts, HasSeat, At, room, members
    <2>3. status' # "none"
      BY <2>2, AtWork
    <2> QED
      BY <2>1, <2>2, <2>3, SeatAsked
  <1>2. CASE JoinCounts(h) /\ ~HasSeat
    <2>1. req' = [req EXCEPT ![h] = Idle] /\ req[h].step # "idle"
      BY <1>2 DEF JoinCounts, Done, At
    <2>2. Idle.step \notin JoinSteps \cup AddSteps /\ Idle.step # "upload quota"
      BY DEF Idle, JoinSteps, AddSteps
    <2>3. UNCHANGED <<status, row, docs, failed>>
      BY <1>2 DEF JoinCounts, room, members
    <2>4. In' = In /\ DOMAIN row' = Users
      BY <2>3, MembersStay DEF IInv, Tables
    <2> QED
      BY <2>1, <2>2, <2>3, <2>4, QuietContinue DEF IInv, Tables
  <1>3. CASE JoinWrites(h)
    <2> DEFINE u == req[h].user
    <2>1. row' = row \/ row' = [row EXCEPT ![u] = "in"]
      BY <1>3 DEF JoinWrites, members
    <2>2. DOMAIN row' = Users /\ In' \subseteq In \cup {u}
      BY <2>1 DEF IInv, Tables, In
    <2>3. /\ Done(h) /\ req[h].step \in JoinSteps
          /\ UNCHANGED <<status, docs, failed>>
      BY <1>3 DEF JoinWrites, At, JoinSteps, room
    <2> QED
      BY <2>2, <2>3, SeatTaken
  <1> QED
    BY <1>1, <1>2, <1>3

LEMMA CountDocsOK ==
  ASSUME IInv, NEW h \in Handlers, CountDocs(h)
  PROVE  IInv'
  <1>1. req[h].step # "idle" /\ UNCHANGED <<status, row, docs, failed>>
    BY DEF CountDocs, At, room, members
  <1>2. CASE Done(h)
    <2>1. Idle.step \notin JoinSteps \cup AddSteps /\ Idle.step # "upload quota"
      BY DEF Idle, JoinSteps, AddSteps
    <2>2. In' = In /\ DOMAIN row' = Users
      BY <1>1, MembersStay DEF IInv, Tables
    <2> QED
      BY <1>1, <1>2, <2>1, <2>2, QuietContinue DEF Done, IInv, Tables
  <1>3. ASSUME NEW step \in AddSteps, Goto(h, step, req[h].arg), WithinQuota(req[h].user),
               step = "upload" => req[h].step = "upload quota"
        PROVE  IInv'
    <2> DEFINE r == [step |-> step, user |-> req[h].user, arg |-> req[h].arg]
    <2>1. /\ req' = [req EXCEPT ![h] = r]
          /\ r.step = step /\ r.user = req[h].user /\ r.arg = req[h].arg
      BY <1>3 DEF Goto
    <2> HIDE DEF r
    <2>2. r.step = "upload" => Owner[r.arg] = r.user
      BY <1>3, <2>1 DEF IInv, UploadsAreOwn
    <2> QED
      BY <1>1, <1>3, <2>1, <2>2, DocAsked
  <1> QED
    BY <1>2, <1>3 DEF CountDocs, At, AddSteps

LEMMA LinkWritesOK ==
  ASSUME IInv, NEW h \in Handlers, LinkWrites(h)
  PROVE  IInv'
  <1>1. /\ Done(h) /\ req[h].step \in AddSteps
        /\ UNCHANGED <<status, row, doc, failed>>
    BY DEF LinkWrites, At, AddSteps, room, members
  <1>2. PICK w, d : w = req[h].user /\ d = req[h].arg
    OBVIOUS
  <1>3. \A x \in Docs : linked_by'[x] = linked_by[x] \/ (x = d /\ linked_by'[x] = w)
    BY <1>2 DEF LinkWrites, IInv, Tables
  <1>4. DOMAIN doc' = Docs /\ DOMAIN linked_by' = Docs
    BY <1>1 DEF LinkWrites, IInv, Tables
  <1>5. CountedFor(w)' \subseteq CountedFor(w) \cup {d}
    BY <1>1, <1>3 DEF CountedFor
  <1>6. \A u \in Users \ {w} : CountedFor(u)' \subseteq CountedFor(u)
    BY <1>1, <1>3 DEF CountedFor
  <1> QED
    BY <1>1, <1>2, <1>4, <1>5, <1>6, DocAdded

LEMMA UploadWritesOK ==
  ASSUME IInv, NEW h \in Handlers, UploadWrites(h)
  PROVE  IInv'
  <1>1. /\ req[h].step = "upload"
        /\ UNCHANGED <<status, row, linked_by, failed>>
    BY DEF UploadWrites, At, room, members
  <1>2. PICK w, d : w = req[h].user /\ d = req[h].arg /\ Owner[d] = w
    BY <1>1 DEF IInv, UploadsAreOwn
  <1>3. CASE doc[d] = "none"
    <2>1. Done(h) /\ doc' = [doc EXCEPT ![d] = "room"]
      BY <1>2, <1>3 DEF UploadWrites
    <2>2. DOMAIN doc' = Docs /\ DOMAIN linked_by' = Docs
      BY <1>1, <2>1 DEF IInv, Tables
    <2>3. \A x \in Docs : doc'[x] = doc[x] \/ x = d
      BY <2>1 DEF IInv, Tables
    <2>4. CountedFor(w)' \subseteq CountedFor(w) \cup {d}
      BY <1>1, <2>3 DEF CountedFor
    <2>5. \A u \in Users \ {w} : CountedFor(u)' \subseteq CountedFor(u)
      BY <1>1, <1>2, <2>3 DEF CountedFor
    <2> QED
      BY <1>1, <1>2, <2>1, <2>2, <2>4, <2>5, DocAdded DEF AddSteps
  <1>4. CASE doc[d] # "none"
    <2>1. /\ UNCHANGED docs
          /\ Done(h) \/ Goto(h, "link quota", req[h].arg)
      BY <1>1, <1>2, <1>4 DEF UploadWrites, docs
    <2>2. PICK r : req' = [req EXCEPT ![h] = r] /\ r.step \in {"idle", "link quota"}
      <3> DEFINE Goes(r) == req' = [req EXCEPT ![h] = r] /\ r.step \in {"idle", "link quota"}
      <3>1. Done(h) => Goes(Idle)
        BY DEF Done, Idle
      <3>2. Goto(h, "link quota", req[h].arg) =>
                Goes([step |-> "link quota", user |-> req[h].user, arg |-> req[h].arg])
        BY DEF Goto
      <3> QED
        BY <2>1, <3>1, <3>2
    <2>3. In' = In /\ DOMAIN row' = Users
      BY <1>1, MembersStay DEF IInv, Tables
    <2> QED
      BY <1>1, <2>1, <2>2, <2>3, QuietContinue DEF IInv, Tables, JoinSteps, AddSteps
  <1> QED
    BY <1>3, <1>4

LEMMA UnlinkWritesOK ==
  ASSUME IInv, NEW h \in Handlers, UnlinkWrites(h)
  PROVE  IInv'
  <1>1. /\ req[h].step = "unlink" /\ req' = [req EXCEPT ![h] = Idle]
        /\ UNCHANGED <<status, row, failed>>
    BY DEF UnlinkWrites, At, Done, room, members
  <1>2. DOMAIN doc' = Docs /\ DOMAIN linked_by' = Docs
    BY DEF UnlinkWrites, IInv, Tables
  <1>3. /\ \A x \in Docs : doc'[x] = doc[x] \/ doc'[x] = "library"
        /\ \A x \in Docs : linked_by'[x] = linked_by[x] \/ linked_by'[x] = Nobody
    BY DEF UnlinkWrites, IInv, Tables
  <1>4. \A u \in Users : CountedFor(u)' \subseteq CountedFor(u)
    BY <1>3, NobodyAssumption DEF CountedFor
  <1>5. Tables'
    BY <1>1, <1>2, TablesStay DEF IInv, Tables
  <1>6. status # "none" /\ In' = In
    BY <1>1, AtWork, MembersStay
  <1>7. Idle.step = "idle"
    BY DEF Idle
  <1>8. QuietTo(h, Idle)
    BY <1>1, <1>4, <1>6, <1>7 DEF QuietTo, JoinSteps, AddSteps
  <1> QED
    BY <1>5, <1>8, QuietStep

LEMMA FailuresOK ==
  ASSUME IInv, NEW h \in Handlers, Stops(h) \/ ErrorIsIgnored(h)
  PROVE  IInv'
  <1>1. UNCHANGED <<room, members, docs>> /\ ~failed /\ failed' = TRUE
    BY DEF Stops, ErrorIsIgnored
  <1>2. In' = In /\ DOMAIN row' = Users /\ UNCHANGED status
    BY <1>1, MembersStay DEF IInv, Tables, members, room
  <1>3. CASE At(h, "count") /\ Goto(h, "look", Nobody)
    BY <1>1, <1>3, SeatIgnored
  <1>4. CASE At(h, "link count") /\ Goto(h, "link", req[h].arg)
    BY <1>1, <1>4, DocIgnored
  <1>5. ASSUME NEW step, NEW arg, Goto(h, step, arg),
               \/ step = "join" /\ At(h, "look")
               \/ step \in {"transfer", "end", "name"} /\ ~At(h, "idle")
        PROVE  IInv'
    <2> DEFINE r == [step |-> step, user |-> req[h].user, arg |-> arg]
    <2>1. req' = [req EXCEPT ![h] = r] /\ r.step = step
      BY <1>5 DEF Goto
    <2> HIDE DEF r
    <2>2. /\ req[h].step # "idle"
          /\ r.step \in JoinSteps => req[h].step \in JoinSteps
          /\ r.step \notin AddSteps /\ r.step # "upload quota"
      BY <1>5, <2>1 DEF At, JoinSteps, AddSteps
    <2> QED
      BY <1>1, <1>2, <2>1, <2>2, QuietContinue
  <1>6. CASE Stops(h)
    <2>1. req' = [req EXCEPT ![h] = Idle] /\ req[h] # Idle /\ Idle.step = "idle"
      BY <1>6 DEF Stops, Done, Idle
    <2>2. status # "none"
      BY <2>1 DEF IInv, BeforeTheRoom
    <2>3. \A u \in Users : CountedFor(u)' = CountedFor(u)
      BY <1>1, DocsStay
    <2>4. QuietTo(h, Idle)
      BY <1>1, <1>2, <2>1, <2>2, <2>3 DEF QuietTo, JoinSteps, AddSteps
    <2>5. Tables'
      BY <1>1, <2>1, TablesStay DEF IInv, Tables, members, docs
    <2> QED
      BY <2>4, <2>5, QuietStep
  <1> QED
    BY <1>3, <1>4, <1>5, <1>6 DEF ErrorIsIgnored, At

(* What happens to documents elsewhere, and steps that change nothing.     *)
LEMMA ElsewhereOK ==
  ASSUME IInv,
         \/ \E d \in Docs : UploadElsewhere(d) \/ DocumentGoes(d)
         \/ UNCHANGED vars
  PROVE  IInv'
  <1>1. UNCHANGED <<status, row, req, failed>>
    BY DEF UploadElsewhere, DocumentGoes, vars, room, members
  <1>2. /\ DOMAIN doc' = Docs /\ DOMAIN linked_by' = Docs
        /\ \A x \in Docs : doc'[x] = doc[x] \/ doc'[x] \in {"none", "library"}
        /\ \A x \in Docs : linked_by'[x] = linked_by[x] \/ linked_by'[x] = Nobody
    BY DEF UploadElsewhere, DocumentGoes, vars, docs, IInv, Tables
  <1>3. \A u \in Users : CountedFor(u)' \subseteq CountedFor(u)
    BY <1>2, NobodyAssumption DEF CountedFor
  <1>4. In' = In /\ Joining' = Joining /\ \A u \in Users : Adding(u)' = Adding(u)
    BY <1>1, MembersStay DEF Joining, Adding
  <1>5. Tables /\ Tables'
    BY <1>1, <1>2 DEF IInv, Tables
  <1>6. BeforeTheRoom' /\ UploadsAreOwn'
    BY <1>1, <1>4 DEF IInv, BeforeTheRoom, UploadsAreOwn
  <1>7. SeatsAreCounted'
    BY <1>1, <1>4, <1>5, SeatsStay DEF IInv
  <1>8. DocsAreCounted'
    BY <1>1, <1>3, <1>4, <1>5, CountStays DEF IInv, DocsAreCounted
  <1> QED
    BY <1>5, <1>6, <1>7, <1>8 DEF IInv

-----------------------------------------------------------------------------
(* The theorems.                                                           *)

LEMMA NextOK == IInv /\ [Next]_vars => IInv'
  <1> SUFFICES ASSUME IInv, [Next]_vars PROVE IInv'
    OBVIOUS
  <1>1. ASSUME NEW h \in Handlers, Request(h) PROVE IInv'
    BY <1>1, CreateRoomOK, QuietRequests DEF Request
  <1>2. ASSUME NEW h \in Handlers, Continue(h) PROVE IInv'
    BY <1>2, SeatHostOK, JoinOK, QuietLook, QuietMembers, CountDocsOK, LinkWritesOK,
       UploadWritesOK, UnlinkWritesOK DEF Continue
  <1> QED
    BY <1>1, <1>2, FailuresOK, ElsewhereOK DEF Next

LEMMA IInvBounds ==
  ASSUME IInv
  PROVE  RoomIsBounded /\ QuotaIsBounded
  <1>1. Excess \in Int /\ MaxMembers \in Nat /\ MaxDocs \in Nat
    BY ExcessIsInt, BoundAssumption DEF IInv
  <1>2. RoomIsBounded
    <2>1. Cardinality(In) \in Nat /\ Cardinality(Joining) \in Nat
      BY CountedAreFinite, FS_CardinalityType
    <2> QED
      BY <1>1, <2>1 DEF IInv, SeatsAreCounted, RoomIsBounded
  <1>3. ASSUME NEW u \in Users PROVE Cardinality(CountedFor(u)) <= MaxDocs + Excess
    <2>1. Cardinality(CountedFor(u)) \in Nat /\ Cardinality(Adding(u)) \in Nat
      BY CountedAreFinite, FS_CardinalityType
    <2> QED
      BY <1>1, <2>1 DEF IInv, DocsAreCounted, AreCounted
  <1> QED
    BY <1>2, <1>3 DEF QuotaIsBounded

LEMMA SpecKeepsIInv == Spec => []IInv
  BY InitOK, NextOK, PTL DEF Spec

(* The members of a room pass its limit by no more than the handlers that  *)
(* count at the same time, and one more when a count fails.                *)
THEOREM SeatsAreBounded == Spec => []RoomIsBounded
  BY SpecKeepsIInv, IInvBounds, PTL

(* And so do the documents each of them has in the room.                   *)
THEOREM DocsAreBounded == Spec => []QuotaIsBounded
  BY SpecKeepsIInv, IInvBounds, PTL

-----------------------------------------------------------------------------
(* The host, when requests do not overlap and nothing fails.  What the one *)
(* request at work has left half-done tells what the tables say.           *)

Settled == is_host = {host_id} /\ host_id \in In

Unsettled == {"seat", "transfer", "end", "promote", "name"}

Shape(r) ==
    /\ r.step \notin Unsettled => Settled
    /\ r.step = "seat" => is_host = {} /\ In = {} /\ r.user = host_id /\ r.user \in Users
    /\ r.step \in {"abdicate", "close"} => r.user = host_id
    /\ r.step = "leave" => r.user # host_id
    /\ r.step = "kick" => r.arg # host_id
    /\ r.step \in {"transfer", "end", "promote"} => is_host = {}
    /\ r.step = "transfer" => r.user \notin In
    /\ r.step = "end" => In = {}
    /\ r.step \in {"promote", "name"} => r.arg \in In
    /\ r.step = "name" => is_host = {r.arg}

OneAtWork == \A g, h \in Working : g = h

OpenRoom == (Working = {} => Settled) /\ \A h \in Working : Shape(req[h])

HostInv ==
    Undisturbed =>
        /\ OneAtWork
        /\ status = "none" => is_host = {}
        /\ status = "active" => OpenRoom

LEMMA HostInit == Init => HostInv
  BY DEF Init, HostInv, OneAtWork, Working

(* A request goes from one record to the next while the others rest.       *)
LEMMA HostMoves ==
  ASSUME NEW h \in Handlers, NEW r, DOMAIN req = Handlers, req' = [req EXCEPT ![h] = r],
         Undisturbed' => \A g \in Handlers \ {h} : req[g] = Idle,
         status' # "none",
         Undisturbed' /\ status' = "active" => Shape(r)'
  PROVE  HostInv'
  <1> SUFFICES ASSUME Undisturbed' PROVE OneAtWork' /\ (status' = "active" => OpenRoom')
    BY DEF HostInv
  <1>1. req'[h] = r /\ \A g \in Handlers \ {h} : req'[g] = Idle
    BY DEF Working
  <1>2. Working' \subseteq {h}
    BY <1>1 DEF Working
  <1>3. ASSUME status' = "active", Working' = {} PROVE Settled'
    <2>1. r = Idle
      BY <1>1, <1>3 DEF Working
    <2> QED
      BY <1>3, <2>1 DEF Shape, Idle, Unsettled
  <1> QED
    BY <1>1, <1>2, <1>3 DEF OneAtWork, OpenRoom

(* A request begins alone, or disturbs.                                    *)
LEMMA StartsAlone ==
  ASSUME NEW h, NEW step, NEW u, NEW arg, Start(h, step, u, arg), UNCHANGED failed
  PROVE  Undisturbed' => Undisturbed /\ Working = {}
  <1>1. overlapped' = (overlapped \/ Working # {})
    BY DEF Start
  <1> QED
    BY <1>1 DEF Undisturbed

LEMMA HostStarts ==
  ASSUME NEW h \in Handlers, NEW step, NEW u, NEW arg, DOMAIN req = Handlers,
         HostInv, Start(h, step, u, arg), UNCHANGED <<status, host_id, row, is_host, failed>>,
         status # "none", step \notin Unsettled,
         step \in {"abdicate", "close"} => (Settled => u = host_id),
         step = "leave" => (Settled => u # host_id),
         step = "kick" => (Settled => arg # host_id)
  PROVE  HostInv'
  <1> DEFINE r == [step |-> step, user |-> u, arg |-> arg]
  <1>1. /\ req' = [req EXCEPT ![h] = r]
        /\ r.step = step /\ r.user = u /\ r.arg = arg
    BY DEF Start
  <1> HIDE DEF r
  <1>2. Undisturbed' => Undisturbed /\ Working = {}
    BY StartsAlone
  <1>3. Undisturbed' => \A g \in Handlers \ {h} : req[g] = Idle
    BY <1>2 DEF Working
  <1>4. In' = In
    BY DEF In
  <1>5. ASSUME Undisturbed', status' = "active" PROVE Shape(r)'
    <2>1. Settled
      BY <1>2, <1>5 DEF HostInv, OpenRoom
    <2>2. Settled'
      BY <1>4, <2>1 DEF Settled
    <2> QED
      BY <1>1, <2>1, <2>2 DEF Shape, Unsettled
  <1> QED
    BY <1>1, <1>3, <1>5, HostMoves

LEMMA HostRequests ==
  ASSUME IInv, HostInv, NEW h \in Handlers, Request(h)
  PROVE  HostInv'
  <1> DOMAIN req = Handlers
    BY DEF IInv, Tables
  <1>1. PICK u \in Users :
          \/ CreateRoom(h, u) \/ JoinRoom(h, u) \/ LeaveRoom(h, u) \/ CloseRoom(h, u)
          \/ \E v \in Users : KickMember(h, u, v)
          \/ \E d \in Docs : LinkDocToRoom(h, u, d) \/ UploadToRoom(h, u, d) \/ UnlinkDocFromRoom(h, u, d)
    BY DEF Request
  <1>2. u \in In => status # "none"
    BY DEF IInv, BeforeTheRoom
  <1>3. CASE CreateRoom(h, u)
    <2> DEFINE r == [step |-> "seat", user |-> u, arg |-> Nobody]
    <2>1. req' = [req EXCEPT ![h] = r] /\ r.step = "seat" /\ r.user = u
      BY <1>3 DEF CreateRoom, Start
    <2> HIDE DEF r
    <2>2. status = "none" /\ host_id' = u /\ status' = "active" /\ UNCHANGED <<row, is_host, failed>>
      BY <1>3 DEF CreateRoom, members
    <2>3. \A g \in Handlers : req[g] = Idle
      BY <2>2 DEF IInv, BeforeTheRoom
    <2>4. In' = {}
      BY <2>2 DEF IInv, BeforeTheRoom, In
    <2>5. Undisturbed' => is_host' = {}
      <3>1. Undisturbed' => Undisturbed
        BY <1>3, <2>2, StartsAlone DEF CreateRoom
      <3> QED
        BY <2>2, <3>1 DEF HostInv
    <2>6. Undisturbed' => Shape(r)'
      BY <2>1, <2>2, <2>4, <2>5 DEF Shape, Unsettled
    <2> QED
      BY <2>1, <2>2, <2>3, <2>6, HostMoves
  <1>4. CASE JoinRoom(h, u)
    BY <1>4, HostStarts DEF JoinRoom, room, members, Unsettled
  <1>5. CASE LeaveRoom(h, u)
    <2>1. Settled => (IsHost(u) <=> u = host_id)
      BY DEF Settled, IsHost
    <2> QED
      BY <1>2, <1>5, <2>1, HostStarts DEF LeaveRoom, room, members, Unsettled
  <1>6. CASE CloseRoom(h, u)
    BY <1>2, <1>6, HostStarts DEF CloseRoom, room, members, Unsettled, Settled, IsHost
  <1>7. ASSUME NEW v \in Users, KickMember(h, u, v) PROVE HostInv'
    BY <1>2, <1>7, HostStarts DEF KickMember, room, members, Unsettled, Settled, IsHost
  <1>8. ASSUME NEW d \in Docs,
               LinkDocToRoom(h, u, d) \/ UploadToRoom(h, u, d) \/ UnlinkDocFromRoom(h, u, d)
        PROVE  HostInv'
    <2> DEFINE Begins(step) ==
            /\ Start(h, step, u, d)
            /\ step \notin Unsettled \cup {"abdicate", "close", "leave", "kick"}
    <2>1. \/ Begins("link count") \/ Begins("link quota")
          \/ Begins("upload quota") \/ Begins("unlink")
      BY <1>8 DEF LinkDocToRoom, UploadToRoom, UnlinkDocFromRoom, Unsettled
    <2>2. PICK step : Begins(step)
      BY <2>1
    <2>3. u \in In /\ UNCHANGED <<status, host_id, row, is_host, failed>>
      BY <1>8 DEF LinkDocToRoom, UploadToRoom, UnlinkDocFromRoom, room, members
    <2> QED
      BY <1>2, <2>2, <2>3, HostStarts
  <1> QED
    BY <1>1, <1>3, <1>4, <1>5, <1>6, <1>7, <1>8


(* A handler that goes on is the only one, and finds what it left.         *)
LEMMA HostContinues ==
  ASSUME IInv, HostInv, NEW h \in Handlers, NEW r, req[h].step # "idle",
         req' = [req EXCEPT ![h] = r], UNCHANGED <<history, failed>>,
         UNCHANGED status \/ status' = "closed",
         status' = "active" /\ Shape(req[h]) => Shape(r)'
  PROVE  HostInv'
  <1>1. Undisturbed' => Undisturbed
    BY DEF Undisturbed, history
  <1>2. h \in Working
    BY DEF Working, Idle
  <1>3. Undisturbed' => \A g \in Handlers \ {h} : req[g] = Idle
    BY <1>1, <1>2 DEF HostInv, OneAtWork, Working
  <1>4. status # "none"
    BY AtWork
  <1>5. Undisturbed' /\ status' = "active" => Shape(req[h])
    BY <1>1, <1>2 DEF HostInv, OpenRoom
  <1> QED
    BY <1>3, <1>4, <1>5, HostMoves DEF IInv, Tables

(* A request that neither moves members nor names a host.                  *)
LEMMA HostRests ==
  ASSUME IInv, HostInv, NEW h \in Handlers, NEW r, req[h].step # "idle",
         req' = [req EXCEPT ![h] = r], UNCHANGED <<room, is_host, history, failed>>,
         host_id \in In => host_id \in In',
         req[h].step \notin Unsettled,
         r.step \notin Unsettled \cup {"abdicate", "close", "leave", "kick"}
  PROVE  HostInv'
  <1>1. Shape(req[h]) => Shape(r)'
    BY DEF Shape, Settled, Unsettled, room
  <1> QED
    BY <1>1, HostContinues DEF room

(* What a handler goes on with.                                            *)
LEMMA GoesOn ==
  ASSUME NEW h, NEW step, NEW arg, Goto(h, step, arg)
  PROVE  \E r : /\ req' = [req EXCEPT ![h] = r]
                /\ r.step = step /\ r.user = req[h].user /\ r.arg = arg
  <1> DEFINE Goes(r) == /\ req' = [req EXCEPT ![h] = r]
                        /\ r.step = step /\ r.user = req[h].user /\ r.arg = arg
  <1>1. Goes([step |-> step, user |-> req[h].user, arg |-> arg])
    BY DEF Goto
  <1> QED
    BY <1>1

LEMMA HostSeats ==
  ASSUME IInv, HostInv, NEW h \in Handlers, SeatHost(h)
  PROVE  HostInv'
  <1> DEFINE u == req[h].user
  <1>1. /\ req[h].step = "seat" /\ req' = [req EXCEPT ![h] = Idle]
        /\ row' = [row EXCEPT ![u] = "in"] /\ is_host' = is_host \cup {u}
        /\ UNCHANGED <<status, host_id, history, failed>>
    BY DEF SeatHost, At, Done, room
  <1>2. ASSUME Shape(req[h]) PROVE Shape(Idle)'
    <2>1. u \in In' /\ is_host' = {u} /\ host_id' = u
      BY <1>1, <1>2 DEF Shape, In, IInv, Tables
    <2> QED
      BY <2>1 DEF Shape, Settled, Idle, Unsettled
  <1> QED
    BY <1>1, <1>2, HostContinues

LEMMA HostLeaves ==
  ASSUME IInv, HostInv, NEW h \in Handlers, LeaveWrites(h)
  PROVE  HostInv'
  <1> DEFINE u == req[h].user
  <1>1. /\ row' = [row EXCEPT ![u] = "left"] /\ is_host' = is_host \ {u}
        /\ UNCHANGED <<status, host_id, history, failed>>
    BY DEF LeaveWrites, Unseat, room
  <1>2. u \notin In' /\ (u # host_id /\ host_id \in In => host_id \in In')
    BY <1>1 DEF In, IInv, Tables
  <1>3. CASE At(h, "leave") /\ Done(h)
    <2>1. Shape(req[h]) => Shape(Idle)'
      BY <1>1, <1>2, <1>3 DEF Shape, Settled, Idle, Unsettled, At
    <2> QED
      BY <1>1, <1>3, <2>1, HostContinues DEF At, Done
  <1>4. CASE At(h, "abdicate") /\ Goto(h, "transfer", Nobody)
    <2>1. PICK r : req' = [req EXCEPT ![h] = r] /\ r.step = "transfer" /\ r.user = u
      BY <1>4, GoesOn
    <2>2. Shape(req[h]) => Shape(r)'
      BY <1>1, <1>2, <1>4, <2>1 DEF Shape, Settled, Unsettled, At
    <2> QED
      BY <1>1, <1>4, <2>1, <2>2, HostContinues DEF At
  <1> QED
    BY <1>3, <1>4 DEF LeaveWrites

LEMMA HostTransfers ==
  ASSUME IInv, HostInv, NEW h \in Handlers, TransferPicks(h)
  PROVE  HostInv'
  <1>1. /\ req[h].step = "transfer"
        /\ UNCHANGED <<status, host_id, row, is_host, history, failed>>
    BY DEF TransferPicks, At, room, members
  <1>2. In' = In
    BY <1>1, MembersStay
  <1>3. CASE Heirs(req[h].user) = {}
    <2>1. PICK r : req' = [req EXCEPT ![h] = r] /\ r.step = "end"
      BY <1>3, GoesOn DEF TransferPicks
    <2>2. Shape(req[h]) => Shape(r)'
      BY <1>1, <1>2, <1>3, <2>1 DEF Shape, Unsettled, Heirs
    <2> QED
      BY <1>1, <2>1, <2>2, HostContinues
  <1>4. CASE Heirs(req[h].user) # {}
    <2>1. PICK v \in Eldest(Heirs(req[h].user)) : Goto(h, "promote", v)
      BY <1>4 DEF TransferPicks
    <2>2. PICK r : req' = [req EXCEPT ![h] = r] /\ r.step = "promote" /\ r.arg = v
      BY <2>1, GoesOn
    <2>3. v \in In
      BY <2>1 DEF Eldest, Heirs
    <2>4. Shape(req[h]) => Shape(r)'
      BY <1>1, <1>2, <2>2, <2>3 DEF Shape, Unsettled
    <2> QED
      BY <1>1, <2>2, <2>4, HostContinues
  <1> QED
    BY <1>3, <1>4

LEMMA HostCloses ==
  ASSUME IInv, HostInv, NEW h \in Handlers, EndRoom(h) \/ CloseWrites(h)
  PROVE  HostInv'
  <1>1. req[h].step # "idle" /\ req' = [req EXCEPT ![h] = Idle]
    BY DEF EndRoom, CloseWrites, At, Done
  <1>2. status' = "closed" /\ UNCHANGED <<history, failed>>
    BY DEF EndRoom, CloseWrites
  <1> QED
    BY <1>1, <1>2, HostContinues

LEMMA HostIsNamed ==
  ASSUME IInv, HostInv, NEW h \in Handlers, Promote(h) \/ NameHost(h)
  PROVE  HostInv'
  <1>1. UNCHANGED <<status, row, history, failed>> /\ In' = In
    BY MembersStay DEF Promote, NameHost, room, members
  <1>2. CASE Promote(h)
    <2>1. PICK r : req' = [req EXCEPT ![h] = r] /\ r.step = "name" /\ r.arg = req[h].arg
      BY <1>2, GoesOn DEF Promote
    <2>2. req[h].step = "promote" /\ is_host' = is_host \cup {req[h].arg}
      BY <1>2 DEF Promote, At
    <2>3. Shape(req[h]) => Shape(r)'
      BY <1>1, <2>1, <2>2 DEF Shape, Unsettled
    <2> QED
      BY <1>1, <2>1, <2>2, <2>3, HostContinues
  <1>3. CASE NameHost(h)
    <2>1. /\ req' = [req EXCEPT ![h] = Idle] /\ req[h].step = "name"
          /\ host_id' = req[h].arg /\ UNCHANGED is_host
      BY <1>3 DEF NameHost, Done, At, members
    <2>2. Shape(req[h]) => Shape(Idle)'
      BY <1>1, <2>1 DEF Shape, Settled, Idle, Unsettled
    <2> QED
      BY <1>1, <2>1, <2>2, HostContinues
  <1> QED
    BY <1>2, <1>3

LEMMA HostKicks ==
  ASSUME IInv, HostInv, NEW h \in Handlers, KickWrites(h)
  PROVE  HostInv'
  <1> DEFINE v == req[h].arg
  <1>1. /\ req[h].step = "kick" /\ req' = [req EXCEPT ![h] = Idle]
        /\ row' = [row EXCEPT ![v] = IF row[v] = "in" THEN "left" ELSE row[v]]
        /\ UNCHANGED <<status, host_id, is_host, history, failed>>
    BY DEF KickWrites, At, Done, room
  <1>2. v # host_id /\ host_id \in In => host_id \in In'
    BY <1>1 DEF In, IInv, Tables
  <1>3. Shape(req[h]) => Shape(Idle)'
    BY <1>1, <1>2 DEF Shape, Settled, Idle, Unsettled
  <1> QED
    BY <1>1, <1>3, HostContinues

(* The remaining steps move no member that is in, and no host.             *)
LEMMA HostStays ==
  ASSUME IInv, HostInv, NEW h \in Handlers,
         \/ JoinCounts(h) \/ JoinLooks(h) \/ JoinWrites(h)
         \/ CountDocs(h) \/ LinkWrites(h) \/ UploadWrites(h) \/ UnlinkWrites(h)
  PROVE  HostInv'
  <1> DEFINE Rests(step) == step \notin Unsettled \cup {"abdicate", "close", "leave", "kick"}
  <1>1. req[h].step # "idle" /\ Rests(req[h].step)
    BY DEF JoinCounts, JoinLooks, JoinWrites, CountDocs, LinkWrites, UploadWrites, UnlinkWrites,
           At, Unsettled
  <1>2. PICK r : req' = [req EXCEPT ![h] = r] /\ Rests(r.step)
    <2>1. CASE Done(h)
      <3>1. req' = [req EXCEPT ![h] = Idle] /\ Rests(Idle.step)
        BY <2>1 DEF Done, Idle, Unsettled
      <3> QED
        BY <3>1
    <2>2. ASSUME NEW step, NEW arg, Goto(h, step, arg), Rests(step)
          PROVE  \E r : req' = [req EXCEPT ![h] = r] /\ Rests(r.step)
      BY <2>2, GoesOn
    <2>3. Done(h) \/ \E step, arg : Goto(h, step, arg) /\ Rests(step)
      <3>1. /\ Rests("look") /\ Rests("join") /\ Rests("rejoin")
            /\ Rests("link") /\ Rests("upload") /\ Rests("link quota")
        BY DEF Unsettled
      <3> HIDE DEF Rests
      <3> QED
        BY <3>1 DEF JoinCounts, JoinLooks, JoinWrites, CountDocs, LinkWrites, UploadWrites, UnlinkWrites
    <2> QED
      BY <2>1, <2>2, <2>3
  <1>3. UNCHANGED <<room, is_host, history, failed>>
    BY DEF JoinCounts, JoinLooks, JoinWrites, CountDocs, LinkWrites, UploadWrites, UnlinkWrites,
           members
  <1>4. host_id \in In => host_id \in In'
    <2>1. CASE JoinWrites(h)
      <3>1. row' = row \/ row' = [row EXCEPT ![req[h].user] = "in"]
        BY <2>1 DEF JoinWrites, members
      <3>2. UNCHANGED host_id
        BY <1>3 DEF room
      <3> QED
        BY <3>1, <3>2 DEF In, IInv, Tables
    <2>2. CASE ~JoinWrites(h)
      <3>1. UNCHANGED <<row, host_id>>
        BY <2>2 DEF JoinCounts, JoinLooks, CountDocs, LinkWrites, UploadWrites, UnlinkWrites,
                    members, room
      <3> QED
        BY <3>1 DEF In
    <2> QED
      BY <2>1, <2>2
  <1> QED
    BY <1>1, <1>2, <1>3, <1>4, HostRests

LEMMA HostElsewhere ==
  ASSUME HostInv,
         \/ \E d \in Docs : UploadElsewhere(d) \/ DocumentGoes(d)
         \/ UNCHANGED vars
  PROVE  HostInv'
  <1>1. UNCHANGED <<status, host_id, row, is_host, req, overlapped, failed>>
    BY DEF UploadElsewhere, DocumentGoes, vars, room, members, history
  <1>2. In' = In /\ Working' = Working /\ (Undisturbed' => Undisturbed)
    BY <1>1 DEF In, Working, Undisturbed
  <1>3. OneAtWork' = OneAtWork /\ Settled' = Settled
    BY <1>1, <1>2 DEF OneAtWork, Settled
  <1>4. OpenRoom => OpenRoom'
    BY <1>1, <1>2, <1>3 DEF OpenRoom, Shape
  <1> QED
    BY <1>1, <1>2, <1>3, <1>4 DEF HostInv

LEMMA HostNext == IInv /\ HostInv /\ [Next]_vars => HostInv'
  <1> SUFFICES ASSUME IInv, HostInv, [Next]_vars PROVE HostInv'
    OBVIOUS
  <1>1. ASSUME NEW h \in Handlers, Continue(h) PROVE HostInv'
    BY <1>1, HostSeats, HostLeaves, HostTransfers, HostCloses, HostIsNamed, HostKicks, HostStays
       DEF Continue
  <1>2. ASSUME NEW h \in Handlers, Stops(h) \/ ErrorIsIgnored(h) PROVE HostInv'
    BY <1>2 DEF Stops, ErrorIsIgnored, HostInv, Undisturbed
  <1> QED
    BY <1>1, <1>2, HostRequests, HostElsewhere DEF Next

LEMMA HostGivesOneHost ==
  ASSUME HostInv
  PROVE  OneHost
  BY DEF HostInv, OpenRoom, Settled, OneHost

(* A step that closes the room is of its host, or finds it empty.          *)
LEMMA ClosingIsOnPurpose ==
  ASSUME HostInv, [Next]_vars, status = "active", status' = "closed", Undisturbed
  PROVE  In = {} \/ \E h \in Handlers : IsHost(req[h].user)
  <1>1. PICK h \in Handlers : EndRoom(h) \/ CloseWrites(h)
    BY DEF Next, Request, Continue, CreateRoom, JoinRoom, LeaveRoom, CloseRoom, KickMember,
           LinkDocToRoom, UploadToRoom, UnlinkDocFromRoom, SeatHost, JoinCounts, JoinLooks,
           JoinWrites, LeaveWrites, TransferPicks, Promote, NameHost, KickWrites, CountDocs,
           LinkWrites, UploadWrites, UnlinkWrites, Stops, ErrorIsIgnored, UploadElsewhere,
           DocumentGoes, vars, room
  <1>2. h \in Working
    BY <1>1 DEF EndRoom, CloseWrites, At, Working, Idle
  <1>3. Shape(req[h])
    BY <1>2 DEF HostInv, OpenRoom
  <1>4. CASE EndRoom(h)
    BY <1>3, <1>4 DEF EndRoom, At, Shape
  <1>5. CASE CloseWrites(h)
    BY <1>3, <1>5 DEF CloseWrites, At, Shape, Settled, Unsettled, IsHost
  <1> QED
    BY <1>1, <1>4, <1>5

LEMMA SpecKeepsHost == Spec => [](IInv /\ HostInv)
  BY InitOK, NextOK, HostInit, HostNext, PTL DEF Spec

(* A room whose requests come one after the other, none of them failing,   *)
(* has its one host among its members whenever it is open and at rest,     *)
(* after any number of departures, kicks and returns.                      *)
THEOREM RoomHasOneHost == Spec => []OneHost
  BY SpecKeepsHost, HostGivesOneHost, PTL

(* And then only its host closes it, or the last departure.                *)
THEOREM RoomClosesOnPurpose == Spec => ClosedOnPurpose
  <1> DEFINE OnPurpose == In = {} \/ \E h \in Handlers : IsHost(req[h].user)
             Closing == status = "active" /\ status' = "closed" /\ Undisturbed => OnPurpose
  <1>1. HostInv /\ [Next]_vars => [Closing]_vars
    BY ClosingIsOnPurpose
  <1>2. Spec => [][Closing]_vars
    BY <1>1, SpecKeepsHost, PTL DEF Spec
  <1> QED
    BY <1>2 DEF ClosedOnPurpose

-----------------------------------------------------------------------------
(* The talk.                                                               *)

LEMMA TalkConstants ==
    /\ MaxMessages \in Nat /\ Kept \in Nat \ {0} /\ MaxClicks \in Nat
    /\ Nobody \notin Speakers /\ Nobody \notin 1..MaxMessages
  BY TalkAssumption DEF Chat!ChatAssumption, Chat!NobodyAssumption

LEMMA TalkCount ==
    /\ \A S : Chat!Cardinality(S) = Cardinality(S)
    /\ \A S : Chat!IsFiniteSet(S) <=> IsFiniteSet(S)
  <1>1. \A S : Chat!Cardinality(S) = Cardinality(S)
    BY DEF Chat!Cardinality, Cardinality
  <1>2. \A S : Chat!IsFiniteSet(S) <=> IsFiniteSet(S)
    BY DEF Chat!IsFiniteSet, IsFiniteSet
  <1> QED
    BY <1>1, <1>2

(* A property of some number has a first one: induction over numbers.      *)
LEMMA LeastNumber ==
  ASSUME NEW T \in SUBSET Nat, T # {}
  PROVE  \E n \in T : \A m \in T : n <= m
  <1> DEFINE Below == {pair \in Nat \X Nat : pair[1] < pair[2]}
  <1>1. IsWellFoundedOn(Below, Nat)
    BY NatLessThanWellFounded DEF OpToRel
  <1> HIDE DEF Below
  <1>2. PICK n \in T : \A m \in T : <<m, n>> \notin Below
    BY <1>1, WFMin
  <1>3. \A m \in T : ~(m < n)
    BY <1>2 DEF Below
  <1> QED
    BY <1>2, <1>3

(* A set of timestamps can be put in order.                                *)
InOrder(seq, S) ==
    /\ seq \in [1..Cardinality(S) -> S]
    /\ \A i, j \in 1..Cardinality(S) : i < j => seq[i] < seq[j]

LEMMA OrderExists == \A n \in Nat : \A S \in SUBSET (1..n) : \E seq : InOrder(seq, S)
  <1> DEFINE Without == {n \in Nat : \E S \in SUBSET (1..n) : ~\E seq : InOrder(seq, S)}
  <1> SUFFICES Without = {}
    OBVIOUS
  <1> SUFFICES ASSUME Without # {} PROVE FALSE
    OBVIOUS
  <1>1. PICK n \in Nat : n \in Without /\ \A m \in Without : n <= m
    BY LeastNumber
  <1>2. PICK S \in SUBSET (1..n) : ~\E seq : InOrder(seq, S)
    BY <1>1
  <1>3. CASE n = 0
    <2>1. S = {}
      BY <1>2, <1>3
    <2>2. InOrder(<<>>, S)
      BY <2>1, FS_EmptySet DEF InOrder
    <2> QED
      BY <1>2, <2>2
  <1>4. CASE n # 0
    <2>1. n - 1 \in Nat /\ n - 1 \notin Without
      BY <1>1, <1>4
    <2>2. PICK seq : InOrder(seq, S \ {n})
      BY <1>2, <2>1
    <2>3. IsFiniteSet(S)
      <3>1. IsFiniteSet(1..n)
        BY <1>1, FS_Interval
      <3> QED
        BY <1>2, <3>1, FS_Subset
    <2>4. CASE n \notin S
      <3>1. S \ {n} = S
        BY <2>4
      <3> QED
        BY <1>2, <2>2, <3>1
    <2>5. CASE n \in S
      <3> DEFINE k == Cardinality(S \ {n})
                 seq1 == [i \in 1..k + 1 |-> IF i = k + 1 THEN n ELSE seq[i]]
      <3>1. Cardinality(S) = k + 1 /\ k \in Nat
        <4>1. Cardinality(S \ {n}) = Cardinality(S) - 1 /\ IsFiniteSet(S \ {n}) /\ Cardinality(S) \in Nat
          BY <2>3, <2>5, FS_RemoveElement, FS_CardinalityType
        <4>2. Cardinality(S \ {n}) \in Nat
          BY <4>1, FS_CardinalityType
        <4> QED
          BY <4>1, <4>2
      <3>2. seq \in [1..k -> S \ {n}] /\ \A i, j \in 1..k : i < j => seq[i] < seq[j]
        BY <2>2 DEF InOrder
      <3> HIDE DEF k
      <3>3. \A i \in 1..k : seq[i] \in S /\ seq[i] < n
        <4>1. n \in Nat /\ \A x \in S \ {n} : x \in S /\ x \in 1..n /\ x # n
          BY <1>1, <1>2
        <4>2. \A x \in S \ {n} : x \in S /\ x < n
          BY <4>1
        <4> QED
          BY <3>2, <4>2
      <3>4. seq1 \in [1..k + 1 -> S]
        BY <2>5, <3>1, <3>3
      <3>5. \A i, j \in 1..k + 1 : i < j => seq1[i] < seq1[j]
        BY <3>1, <3>2, <3>3
      <3>6. InOrder(seq1, S)
        BY <3>1, <3>4, <3>5 DEF InOrder
      <3> QED
        BY <1>2, <3>6
    <2> QED
      BY <2>4, <2>5
  <1> QED
    BY <1>3, <1>4

(* The newest rows are messages.                                           *)
LEMMA NewestAreMessages ==
  ASSUME stored \subseteq Chat!Messages
  PROVE  Chat!Newest \in Seq(Chat!Messages)
  <1> DEFINE seq == Chat!Ascending(stored)
  <1>1. IsFiniteSet(stored) /\ Cardinality(stored) \in Nat
    <2>1. IsFiniteSet(Chat!Messages)
      BY TalkConstants, FS_Interval DEF Chat!Messages
    <2> QED
      BY <2>1, FS_Subset, FS_CardinalityType
  <1>2. \E other : InOrder(other, stored)
    BY TalkConstants, OrderExists DEF Chat!Messages
  <1>3. seq \in [1..Cardinality(stored) -> stored]
    <2>1. \E other \in [1..Cardinality(stored) -> stored] :
             \A i, j \in 1..Cardinality(stored) : i < j => other[i] < other[j]
      BY <1>2 DEF InOrder
    <2>2. seq = CHOOSE other \in [1..Cardinality(stored) -> stored] :
                    \A i, j \in 1..Cardinality(stored) : i < j => other[i] < other[j]
      BY TalkCount DEF Chat!Ascending
    <2> QED
      BY <2>1, <2>2
  <1> HIDE DEF seq
  <1>4. seq \in Seq(Chat!Messages) /\ Len(seq) = Cardinality(stored)
    BY <1>1, <1>3
  <1>5. Chat!LastOf(seq) \in Seq(Chat!Messages)
    BY <1>4, TalkConstants DEF Chat!LastOf
  <1> QED
    BY <1>5 DEF Chat!Newest, seq

Stage == {"idle", "store", "push", "trim", "set", "query", "warm"}
Reader == [step : Stage, id : Chat!Messages \cup {Nobody}, mention : BOOLEAN, index : 0..Kept,
           entry : Chat!Entries \cup {Nobody}, rest : Seq(Chat!Messages)]

Brings(u) == work[u].step \in {"store", "push", "trim"}

TalkTypes ==
    /\ Chat!TypeOK /\ work \in [Speakers -> Reader]
    /\ \A u \in Speakers :
          /\ Brings(u) => work[u].id \in Chat!Messages
          /\ work[u].step = "set" => work[u].entry \in Chat!Entries /\ work[u].index \in 1..Kept

LEMMA Stays ==
  ASSUME NEW r \in Reader, NEW s \in Stage
  PROVE  LET q == [r EXCEPT !.step = s]
         IN  /\ q \in Reader /\ q.step = s /\ q.id = r.id /\ q.mention = r.mention
             /\ q.index = r.index /\ q.entry = r.entry /\ q.rest = r.rest
  BY DEF Reader

LEMMA RestingReader ==
    Chat!Resting \in Reader /\ Chat!Resting.step = "idle"
  <1>1. <<>> \in Seq(Chat!Messages)
    OBVIOUS
  <1>2. 0 \in 0..Kept
    BY TalkConstants
  <1> QED
    BY <1>1, <1>2 DEF Chat!Resting, Reader, Stage

(* What the reader of u is after its step.                                 *)
Becomes(u, q) == q \in Reader /\ work' = [work EXCEPT ![u] = q]

LEMMA BecomesSo ==
  ASSUME work \in [Speakers -> Reader], NEW u \in Speakers, NEW q, Becomes(u, q)
  PROVE  work' \in [Speakers -> Reader] /\ work'[u] = q /\ \A v \in Speakers \ {u} : work'[v] = work[v]
  BY DEF Becomes

LEMMA Goes ==
  ASSUME work \in [Speakers -> Reader], NEW u \in Speakers, NEW s \in Stage, Chat!Goto(u, s)
  PROVE  \E q : /\ Becomes(u, q) /\ q.step = s /\ q.id = work[u].id /\ q.mention = work[u].mention
                /\ q.index = work[u].index /\ q.entry = work[u].entry /\ q.rest = work[u].rest
  <1> DEFINE q == [work[u] EXCEPT !.step = s]
  <1>1. /\ q \in Reader /\ q.step = s /\ q.id = work[u].id /\ q.mention = work[u].mention
        /\ q.index = work[u].index /\ q.entry = work[u].entry /\ q.rest = work[u].rest
    BY Stays
  <1>2. work' = [work EXCEPT ![u] = q]
    BY DEF Chat!Goto
  <1> QED
    BY <1>1, <1>2 DEF Becomes

LEMMA Rests ==
  ASSUME NEW u \in Speakers, Chat!Rest(u)
  PROVE  Becomes(u, Chat!Resting)
  BY RestingReader DEF Chat!Rest, Becomes

(* The four ways to say of a speaker's step what the others need of it.    *)
LEMMA SendMoves ==
  ASSUME TalkTypes, NEW u \in Speakers, Chat!SendMessage(u)
  PROVE  /\ sent' = sent + 1 /\ sent' \in Chat!Messages /\ work[u].step = "idle"
         /\ UNCHANGED <<stored, list, lock, ask, clicks, said, liked, mode, lockLost>>
         /\ \E q : Becomes(u, q) /\ q.step = "store" /\ q.id = sent'
  <1>1. /\ sent' = sent + 1 /\ work[u].step = "idle" /\ sent < MaxMessages /\ sent \in 0..MaxMessages
        /\ UNCHANGED <<stored, list, lock, ask, clicks, said, liked, mode, lockLost>>
    BY DEF Chat!SendMessage, Chat!At, Chat!redis, Chat!ghosts, TalkTypes, Chat!TypeOK
  <1>2. sent' \in Chat!Messages
    BY <1>1, TalkConstants DEF Chat!Messages
  <1>3. PICK mention \in BOOLEAN :
           work' = [work EXCEPT ![u] = [Chat!Resting EXCEPT !.step = "store", !.id = sent + 1, !.mention = mention]]
    BY DEF Chat!SendMessage
  <1> DEFINE q == [Chat!Resting EXCEPT !.step = "store", !.id = sent + 1, !.mention = mention]
  <1>4. q \in Reader /\ q.step = "store" /\ q.id = sent + 1
    BY <1>1, <1>2, RestingReader DEF Reader, Stage
  <1> QED
    BY <1>1, <1>2, <1>3, <1>4 DEF Becomes

LEMMA ToggledEntry ==
  ASSUME NEW e \in Chat!Entries, NEW u \in Speakers
  PROVE  /\ Chat!Toggled(e, u) \in Chat!Entries /\ Chat!Toggled(e, u).id = e.id
         /\ Chat!Toggled(e, u).likes = IF u \in e.likes THEN e.likes \ {u} ELSE e.likes \cup {u}
  BY DEF Chat!Toggled, Chat!Entries

LEMMA ReactMoves ==
  ASSUME TalkTypes, NEW u \in Speakers, Chat!React(u)
  PROVE  /\ UNCHANGED <<stored, list, lock, ask, sent, said, liked, mode, lockLost>> /\ clicks' \in 0..MaxClicks
         /\ work[u].step = "idle"
         /\ \E q : /\ Becomes(u, q) /\ q.step = "set" /\ q.entry \in Chat!Entries /\ q.index \in 1..Kept
                   /\ q.index \in 1..Len(list) /\ q.entry = Chat!Toggled(list[q.index], u)
  <1>1. /\ UNCHANGED <<stored, list, lock, ask, sent, said, liked, mode, lockLost>> /\ work[u].step = "idle"
        /\ clicks \in 0..MaxClicks /\ clicks < MaxClicks /\ clicks' = clicks + 1 /\ list \in Seq(Chat!Entries)
    BY DEF Chat!React, Chat!At, Chat!redis, Chat!ghosts, TalkTypes, Chat!TypeOK
  <1>2. PICK i \in Chat!Window :
           work' = [work EXCEPT ![u] = [Chat!Resting EXCEPT !.step = "set", !.index = i,
                                                            !.entry = Chat!Toggled(list[i], u)]]
    BY DEF Chat!React
  <1>3. i \in 1..Len(list) /\ i \in 1..Kept /\ i \in 0..Kept
    BY <1>1, TalkConstants DEF Chat!Window
  <1>4. list[i] \in Chat!Entries
    BY <1>1, <1>3
  <1>5. Chat!Toggled(list[i], u) \in Chat!Entries
    BY <1>4, ToggledEntry
  <1> DEFINE q == [Chat!Resting EXCEPT !.step = "set", !.index = i, !.entry = Chat!Toggled(list[i], u)]
  <1>6. q \in Reader /\ q.step = "set" /\ q.index = i /\ q.entry = Chat!Toggled(list[i], u)
    BY <1>3, <1>5, RestingReader DEF Reader, Stage
  <1>7. clicks' \in 0..MaxClicks
    BY <1>1, TalkConstants
  <1> QED
    BY <1>1, <1>2, <1>3, <1>5, <1>6, <1>7 DEF Becomes

LEMMA QueryMoves ==
  ASSUME TalkTypes, NEW u \in Speakers, Chat!QueryHistory(u)
  PROVE  /\ UNCHANGED <<stored, list, lock, ask, sent, clicks, lockLost>> /\ work[u].step = "query"
         /\ mode' \in {mode, "broken"} /\ said' \in Seq(Chat!Ids) /\ liked' \subseteq Chat!Ids \X Speakers
         /\ mode' = "whole" => UNCHANGED <<said, liked>>
         /\ \E q : Becomes(u, q) /\ q.step \in {"idle", "warm"}
  <1>1. /\ UNCHANGED <<stored, list, lock, ask, sent, clicks, lockLost>> /\ work[u].step = "query"
        /\ stored \subseteq Chat!Messages /\ said \in Seq(Chat!Ids) /\ liked \subseteq Chat!Ids \X Speakers
    BY DEF Chat!QueryHistory, Chat!At, Chat!redis, TalkTypes, Chat!TypeOK
  <1>2. Chat!Newest \in Seq(Chat!Messages)
    BY <1>1, NewestAreMessages
  <1>3. Chat!Messages \subseteq Chat!Ids
    BY TalkConstants DEF Chat!Messages, Chat!Ids
  <1>4. Chat!Newest \in Seq(Chat!Ids)
    BY <1>2, <1>3
  <1>5. /\ mode' \in {mode, "broken"} /\ said' \in {<<>>, said, Chat!Newest} /\ liked' \in {{}, liked}
        /\ mode' = "whole" => UNCHANGED <<said, liked>>
    BY DEF Chat!QueryHistory, Chat!Judge
  <1>6. said' \in Seq(Chat!Ids) /\ liked' \subseteq Chat!Ids \X Speakers
    <2>1. <<>> \in Seq(Chat!Ids)
      OBVIOUS
    <2>2. said' = <<>> \/ said' = said \/ said' = Chat!Newest
      BY <1>5
    <2>3. liked' = {} \/ liked' = liked
      BY <1>5
    <2> QED
      BY <1>1, <1>4, <2>1, <2>2, <2>3
  <1>7. \E q : Becomes(u, q) /\ q.step \in {"idle", "warm"}
    <2>1. CASE Chat!Rest(u)
      BY <2>1, Rests, RestingReader
    <2>2. CASE work' = [work EXCEPT ![u] = [Chat!Resting EXCEPT !.step = "warm", !.rest = Chat!Newest]]
      <3> DEFINE q == [Chat!Resting EXCEPT !.step = "warm", !.rest = Chat!Newest]
      <3>1. q \in Reader /\ q.step = "warm"
        BY <1>2, RestingReader DEF Reader, Stage
      <3> QED
        BY <2>2, <3>1 DEF Becomes
    <2> QED
      BY <2>1, <2>2 DEF Chat!QueryHistory
  <1> QED
    BY <1>1, <1>5, <1>6, <1>7

LEMMA EntryOf ==
  ASSUME NEW id \in Chat!Ids
  PROVE  Chat!Entry(id) \in Chat!Entries /\ Chat!Entry(id).id = id /\ Chat!Entry(id).likes = {}
  BY DEF Chat!Entry, Chat!Entries

LEMMA MessagesAreIds ==
    /\ Chat!Messages \subseteq Chat!Ids /\ Chat!Messages \subseteq Nat
    /\ \A m \in Chat!Messages : Chat!AnswerTo(m) \in Chat!Ids /\ Chat!AnswerTo(m) > MaxMessages
    /\ \A m, n \in Chat!Messages : Chat!AnswerTo(m) = Chat!AnswerTo(n) => m = n
    /\ \A m \in Chat!Messages : m <= MaxMessages
  BY TalkConstants DEF Chat!Messages, Chat!Ids, Chat!AnswerTo

(* A list that has one entry more in front.                                *)
LEMMA InFront ==
  ASSUME NEW S, NEW seq \in Seq(S), NEW x \in S
  PROVE  /\ <<x>> \o seq \in Seq(S) /\ Len(<<x>> \o seq) = Len(seq) + 1 /\ Len(seq) \in Nat
         /\ (<<x>> \o seq)[1] = x /\ \A i \in 1..Len(seq) : (<<x>> \o seq)[i + 1] = seq[i]
         /\ \A i \in 2..Len(seq) + 1 : (<<x>> \o seq)[i] = seq[i - 1]
  <1>1. <<x>> \in Seq(S) /\ Len(<<x>>) = 1 /\ <<x>>[1] = x
    OBVIOUS
  <1> QED
    BY <1>1

LEMMA WarmMoves ==
  ASSUME TalkTypes, NEW u \in Speakers, Chat!WarmHistory(u)
  PROVE  /\ UNCHANGED <<stored, lock, ask, sent, clicks, lockLost>> /\ list' \in Seq(Chat!Entries)
         /\ work[u].step = "warm"
         /\ mode' \in {"lost", "warmed", "broken"} /\ said' \in Seq(Chat!Ids) /\ liked' \subseteq Chat!Ids \X Speakers
         /\ \E q : Becomes(u, q) /\ q.step = "warm"
  <1> DEFINE rest == work[u].rest
  <1>1. /\ UNCHANGED <<stored, lock, ask, sent, clicks, lockLost>> /\ work[u].step = "warm" /\ rest # <<>>
        /\ list' = <<Chat!Entry(Chat!Last(rest))>> \o list
        /\ work' = [work EXCEPT ![u].rest = Chat!Front(rest)]
        /\ list \in Seq(Chat!Entries) /\ rest \in Seq(Chat!Messages) /\ work[u] \in Reader
        /\ said \in Seq(Chat!Ids) /\ liked \subseteq Chat!Ids \X Speakers
        /\ mode \in {"whole", "lost", "warmed", "broken"}
    BY DEF Chat!WarmHistory, Chat!At, TalkTypes, Chat!TypeOK, Reader
  <1>2. Chat!Last(rest) \in Chat!Messages
    BY <1>1 DEF Chat!Last
  <1>3. Chat!Front(rest) \in Seq(Chat!Messages)
    BY <1>1 DEF Chat!Front
  <1>4. list' \in Seq(Chat!Entries)
    BY <1>1, <1>2, EntryOf, MessagesAreIds, InFront
  <1>5. /\ mode' \in {"lost", "warmed", "broken"} /\ said' \in {<<>>, said} /\ liked' \in {{}, liked}
    BY <1>1 DEF Chat!WarmHistory, Chat!Judge
  <1> DEFINE q == [work[u] EXCEPT !.rest = Chat!Front(rest)]
  <1>6. q \in Reader /\ q.step = "warm"
    BY <1>1, <1>3 DEF Reader
  <1>7. Becomes(u, q)
    BY <1>1, <1>6 DEF Becomes
  <1>8. said' \in Seq(Chat!Ids) /\ liked' \subseteq Chat!Ids \X Speakers
    <2>1. <<>> \in Seq(Chat!Ids)
      OBVIOUS
    <2>2. (said' = <<>> \/ said' = said) /\ (liked' = {} \/ liked' = liked)
      BY <1>5
    <2> QED
      BY <1>1, <2>1, <2>2
  <1> HIDE DEF q
  <1> QED
    BY <1>1, <1>4, <1>5, <1>6, <1>7, <1>8

LEMMA Trimmed ==
  ASSUME NEW S, list \in Seq(S), Chat!Trim
  PROVE  /\ list' \in Seq(S) /\ Len(list') = IF Len(list) > Kept THEN Kept ELSE Len(list)
         /\ \A i \in 1..Len(list') : i \in 1..Len(list) /\ list'[i] = list[i]
  BY TalkConstants DEF Chat!Trim

LEMMA SetMoves ==
  ASSUME TalkTypes, NEW u \in Speakers, Chat!SetEntry(u)
  PROVE  /\ UNCHANGED <<stored, lock, ask, sent, clicks, lockLost>> /\ list' \in Seq(Chat!Entries)
         /\ work[u].step = "set" /\ work[u].entry \in Chat!Entries /\ work[u].index \in 1..Kept
         /\ list' = IF work[u].index > Len(list) THEN list ELSE [list EXCEPT ![work[u].index] = work[u].entry]
         /\ mode' \in {mode, "broken"} /\ said' \in Seq(Chat!Ids) /\ liked' \subseteq Chat!Ids \X Speakers
         /\ Becomes(u, Chat!Resting)
  <1> DEFINE click == <<work[u].entry.id, u>>
  <1>1. /\ UNCHANGED <<stored, lock, ask, sent, clicks, lockLost>> /\ work[u].step = "set"
        /\ work[u].entry \in Chat!Entries /\ work[u].index \in 1..Kept
        /\ list' = IF work[u].index > Len(list) THEN list ELSE [list EXCEPT ![work[u].index] = work[u].entry]
        /\ list \in Seq(Chat!Entries) /\ said \in Seq(Chat!Ids) /\ liked \subseteq Chat!Ids \X Speakers
    BY DEF Chat!SetEntry, Chat!At, TalkTypes, Chat!TypeOK
  <1>2. click \in Chat!Ids \X Speakers
    BY <1>1 DEF Chat!Entries
  <1>3. list' \in Seq(Chat!Entries)
    <2>1. CASE work[u].index > Len(list)
      BY <1>1, <2>1
    <2>2. CASE ~(work[u].index > Len(list))
      <3>1. work[u].index \in 1..Len(list)
        BY <1>1, <2>2, TalkConstants
      <3> QED
        BY <1>1, <3>1, <2>2
    <2> QED
      BY <2>1, <2>2
  <1>4. mode' \in {mode, "broken"} /\ said' \in {<<>>, said} /\ liked' \in {{}, liked \ {click}, liked \cup {click}}
    BY DEF Chat!SetEntry, Chat!Judge
  <1>5. Becomes(u, Chat!Resting)
    BY Rests DEF Chat!SetEntry
  <1>6. said' \in Seq(Chat!Ids) /\ liked' \subseteq Chat!Ids \X Speakers
    <2>1. <<>> \in Seq(Chat!Ids)
      OBVIOUS
    <2>2. said' = <<>> \/ said' = said
      BY <1>4
    <2>3. liked' \subseteq liked \cup {click}
      BY <1>4
    <2> HIDE DEF click
    <2> QED
      BY <1>1, <1>2, <2>1, <2>2, <2>3
  <1> HIDE DEF click
  <1> QED
    BY <1>1, <1>3, <1>4, <1>5, <1>6

LEMMA Pushes ==
  ASSUME TalkTypes, NEW id \in Chat!Ids, Chat!Push(id)
  PROVE  /\ list' = <<Chat!Entry(id)>> \o list /\ list' \in Seq(Chat!Entries)
         /\ mode' \in {mode, "broken"} /\ said' \in Seq(Chat!Ids) /\ liked' \subseteq Chat!Ids \X Speakers
         /\ mode' = "whole" => /\ mode = "whole" /\ Chat!Meddling = {} /\ UNCHANGED liked
                               /\ said' = Chat!LastOf(Append(said, id))
  <1>1. /\ list \in Seq(Chat!Entries) /\ said \in Seq(Chat!Ids) /\ liked \subseteq Chat!Ids \X Speakers
        /\ list' = <<Chat!Entry(id)>> \o list
    BY DEF TalkTypes, Chat!TypeOK, Chat!Push
  <1>2. list' \in Seq(Chat!Entries)
    BY <1>1, EntryOf, InFront
  <1>3. /\ mode' \in {mode, "broken"} /\ said' \in {<<>>, Chat!LastOf(Append(said, id))} /\ liked' \in {{}, liked}
        /\ mode' = "whole" => /\ mode = "whole" /\ Chat!Meddling = {} /\ UNCHANGED liked
                              /\ said' = Chat!LastOf(Append(said, id))
    BY DEF Chat!Push, Chat!Judge
  <1>4. Chat!LastOf(Append(said, id)) \in Seq(Chat!Ids)
    <2>1. Append(said, id) \in Seq(Chat!Ids)
      BY <1>1
    <2> QED
      BY <2>1, TalkConstants DEF Chat!LastOf
  <1>5. said' \in Seq(Chat!Ids) /\ liked' \subseteq Chat!Ids \X Speakers
    <2>1. <<>> \in Seq(Chat!Ids)
      OBVIOUS
    <2>2. (said' = <<>> \/ said' = Chat!LastOf(Append(said, id))) /\ (liked' = {} \/ liked' = liked)
      BY <1>3
    <2> QED
      BY <1>1, <1>4, <2>1, <2>2
  <1> QED
    BY <1>1, <1>2, <1>3, <1>5

Asking == {"none", "ask", "think", "push", "trim", "release", "over"}

(* All that is there beside the readers.                                   *)
TableTypes ==
    /\ stored \subseteq Chat!Messages /\ list \in Seq(Chat!Entries) /\ ask \in [Chat!Messages -> Asking]
    /\ lock \in Chat!Messages \cup {Nobody} /\ sent \in 0..MaxMessages /\ clicks \in 0..MaxClicks
    /\ said \in Seq(Chat!Ids) /\ liked \subseteq Chat!Ids \X Speakers
    /\ mode \in {"whole", "lost", "warmed", "broken"} /\ lockLost \in BOOLEAN

LEMMA TypesAre ==
    TalkTypes <=> /\ TableTypes /\ work \in [Speakers -> Reader]
                  /\ \A u \in Speakers :
                        /\ Brings(u) => work[u].id \in Chat!Messages
                        /\ work[u].step = "set" => work[u].entry \in Chat!Entries /\ work[u].index \in 1..Kept
  BY DEF TalkTypes, TableTypes, Chat!TypeOK, Reader, Stage, Asking

LEMMA TypesAfter ==
  ASSUME TalkTypes, TableTypes', NEW u \in Speakers, NEW q, Becomes(u, q),
         q.step \in {"store", "push", "trim"} => q.id \in Chat!Messages,
         q.step = "set" => q.entry \in Chat!Entries /\ q.index \in 1..Kept
  PROVE  TalkTypes'
  <1>1. work' \in [Speakers -> Reader] /\ work'[u] = q /\ \A v \in Speakers \ {u} : work'[v] = work[v]
    BY TypesAre, BecomesSo
  <1>2. \A v \in Speakers :
           /\ work'[v].step \in {"store", "push", "trim"} => work'[v].id \in Chat!Messages
           /\ work'[v].step = "set" => work'[v].entry \in Chat!Entries /\ work'[v].index \in 1..Kept
    BY <1>1 DEF TalkTypes, Brings
  <1> QED
    BY <1>1, <1>2 DEF TalkTypes, TableTypes, Chat!TypeOK, Reader, Stage, Asking, Brings

(* Steps that no reader takes.                                             *)
LEMMA TypesBeside ==
  ASSUME TalkTypes, TableTypes', UNCHANGED work
  PROVE  TalkTypes'
  <1>1. work' \in [Speakers -> Reader]
    BY DEF TalkTypes
  <1>2. \A v \in Speakers :
           /\ work'[v].step \in {"store", "push", "trim"} => work'[v].id \in Chat!Messages
           /\ work'[v].step = "set" => work'[v].entry \in Chat!Entries /\ work'[v].index \in 1..Kept
    BY DEF TalkTypes, Brings
  <1> QED
    BY <1>1, <1>2 DEF TalkTypes, TableTypes, Chat!TypeOK, Reader, Stage, Asking, Brings

LEMMA JudgedTypes ==
  ASSUME NEW judgement \in {"whole", "lost", "warmed", "broken"}, NEW ids \in Seq(Chat!Ids),
         NEW clicked \in SUBSET (Chat!Ids \X Speakers), Chat!Judge(judgement, ids, clicked)
  PROVE  /\ mode' \in {"whole", "lost", "warmed", "broken"} /\ said' \in Seq(Chat!Ids)
         /\ liked' \subseteq Chat!Ids \X Speakers
  <1>1. <<>> \in Seq(Chat!Ids)
    OBVIOUS
  <1> QED
    BY <1>1 DEF Chat!Judge

LEMMA ReaderTypes ==
  ASSUME TalkTypes, NEW u \in Speakers,
         Chat!SendMessage(u) \/ Chat!React(u) \/ Chat!MissHistory(u) \/ Chat!Read(u)
  PROVE  TalkTypes'
  <1>1. TableTypes /\ work \in [Speakers -> Reader]
    BY TypesAre
  <1>2. CASE Chat!SendMessage(u)
    <2>1. /\ sent' \in 0..MaxMessages /\ sent' \in Chat!Messages
          /\ UNCHANGED <<stored, list, lock, ask, clicks, said, liked, mode, lockLost>>
      BY <1>2, SendMoves, TalkConstants DEF Chat!Messages
    <2>2. PICK q : Becomes(u, q) /\ q.step = "store" /\ q.id = sent'
      BY <1>2, SendMoves
    <2>3. TableTypes'
      BY <1>1, <2>1 DEF TableTypes
    <2> QED
      BY <2>1, <2>2, <2>3, TypesAfter
  <1>3. CASE Chat!React(u)
    <2>1. UNCHANGED <<stored, list, lock, ask, sent, said, liked, mode, lockLost>> /\ clicks' \in 0..MaxClicks
      BY <1>3, ReactMoves
    <2>2. PICK q : Becomes(u, q) /\ q.step = "set" /\ q.entry \in Chat!Entries /\ q.index \in 1..Kept
      BY <1>3, ReactMoves
    <2>3. TableTypes'
      BY <1>1, <2>1 DEF TableTypes
    <2> QED
      BY <2>2, <2>3, TypesAfter
  <1>4. CASE Chat!MissHistory(u)
    <2>1. UNCHANGED <<stored, list, lock, ask, sent, clicks, said, liked, mode, lockLost>> /\ Chat!Goto(u, "query")
      BY <1>4 DEF Chat!MissHistory, Chat!redis, Chat!ghosts
    <2>2. PICK q : Becomes(u, q) /\ q.step = "query"
      BY <1>1, <2>1, Goes DEF Stage
    <2>3. TableTypes'
      BY <1>1, <2>1 DEF TableTypes
    <2> QED
      BY <2>2, <2>3, TypesAfter
  <1>5. CASE Chat!StoreMessage(u)
    <2>1. /\ UNCHANGED <<list, lock, ask, sent, clicks, said, liked, mode, lockLost>> /\ Chat!Goto(u, "push")
          /\ stored' = stored \cup {work[u].id} /\ work[u].id \in Chat!Messages
      BY <1>5 DEF Chat!StoreMessage, Chat!At, Chat!redis, Chat!ghosts, TalkTypes, Brings
    <2>2. PICK q : Becomes(u, q) /\ q.step = "push" /\ q.id = work[u].id
      BY <1>1, <2>1, Goes DEF Stage
    <2>3. TableTypes'
      BY <1>1, <2>1 DEF TableTypes
    <2> QED
      BY <2>1, <2>2, <2>3, TypesAfter
  <1>6. CASE Chat!PushMessage(u)
    <2>1. /\ UNCHANGED <<stored, lock, ask, sent, clicks, lockLost>> /\ Chat!Goto(u, "trim")
          /\ Chat!Push(work[u].id) /\ work[u].id \in Chat!Messages
      BY <1>6 DEF Chat!PushMessage, Chat!At, TalkTypes, Brings
    <2>2. PICK q : Becomes(u, q) /\ q.step = "trim" /\ q.id = work[u].id
      BY <1>1, <2>1, Goes DEF Stage
    <2>3. work[u].id \in Chat!Ids
      BY <2>1, MessagesAreIds
    <2>4. TableTypes'
      BY <1>1, <2>1, <2>3, Pushes DEF TableTypes
    <2> QED
      BY <2>1, <2>2, <2>4, TypesAfter
  <1>7. CASE Chat!TrimMessage(u)
    <2>1. /\ UNCHANGED <<stored, lock, sent, clicks, said, liked, mode, lockLost>> /\ Chat!Rest(u)
          /\ Chat!Trim /\ ask' \in {ask, [ask EXCEPT ![work[u].id] = "ask"]}
      BY <1>7 DEF Chat!TrimMessage, Chat!ghosts
    <2>2. list' \in Seq(Chat!Entries)
      BY <1>1, <2>1, Trimmed DEF TableTypes
    <2>3. ask' \in [Chat!Messages -> Asking]
      BY <1>1, <2>1 DEF TableTypes, Asking
    <2>4. TableTypes'
      BY <1>1, <2>1, <2>2, <2>3 DEF TableTypes
    <2> QED
      BY <2>1, <2>4, Rests, RestingReader, TypesAfter
  <1>8. CASE Chat!SetEntry(u)
    <2>1. TableTypes' /\ Becomes(u, Chat!Resting)
      BY <1>1, <1>8, SetMoves DEF TableTypes
    <2> QED
      BY <2>1, RestingReader, TypesAfter
  <1>9. CASE Chat!QueryHistory(u)
    <2>1. PICK q : Becomes(u, q) /\ q.step \in {"idle", "warm"}
      BY <1>9, QueryMoves
    <2>2. TableTypes'
      BY <1>1, <1>9, QueryMoves DEF TableTypes
    <2> QED
      BY <2>1, <2>2, TypesAfter
  <1>10. CASE Chat!WarmHistory(u)
    <2>1. PICK q : Becomes(u, q) /\ q.step = "warm"
      BY <1>10, WarmMoves
    <2>2. TableTypes'
      BY <1>1, <1>10, WarmMoves DEF TableTypes
    <2> QED
      BY <2>1, <2>2, TypesAfter
  <1>11. CASE Chat!WarmEnds(u)
    <2>1. /\ UNCHANGED <<stored, lock, ask, sent, clicks, lockLost>> /\ Chat!Rest(u)
          /\ Chat!Trim /\ Chat!Judge(IF mode = "lost" THEN "warmed" ELSE mode, said, liked)
      BY <1>11 DEF Chat!WarmEnds
    <2>2. list' \in Seq(Chat!Entries)
      BY <1>1, <2>1, Trimmed DEF TableTypes
    <2>3. /\ mode' \in {"whole", "lost", "warmed", "broken"} /\ said' \in Seq(Chat!Ids)
          /\ liked' \subseteq Chat!Ids \X Speakers
      BY <1>1, <2>1, JudgedTypes DEF TableTypes
    <2>4. TableTypes'
      BY <1>1, <2>1, <2>2, <2>3 DEF TableTypes
    <2> QED
      BY <2>1, <2>4, Rests, RestingReader, TypesAfter
  <1> QED
    BY <1>2, <1>3, <1>4, <1>5, <1>6, <1>7, <1>8, <1>9, <1>10, <1>11 DEF Chat!Read

LEMMA AskTypes ==
  ASSUME TalkTypes, NEW m \in Chat!Messages, Chat!Ask(m)
  PROVE  TalkTypes'
  <1>1. TableTypes
    BY TypesAre
  <1>2. UNCHANGED <<stored, work, sent, clicks, lockLost>>
    BY DEF Chat!Ask, Chat!TakeLock, Chat!Answer, Chat!PushAnswer, Chat!TrimAnswer, Chat!Release,
           Chat!redis, Chat!ghosts
  <1>3. ask' \in [Chat!Messages -> Asking]
    <2>1. \E s \in Asking : ask' = [ask EXCEPT ![m] = s]
      BY DEF Chat!Ask, Chat!TakeLock, Chat!Answer, Chat!PushAnswer, Chat!TrimAnswer, Chat!Release, Asking
    <2> QED
      BY <1>1, <2>1 DEF TableTypes
  <1>4. lock' \in Chat!Messages \cup {Nobody}
    BY <1>1 DEF Chat!Ask, Chat!TakeLock, Chat!Answer, Chat!PushAnswer, Chat!TrimAnswer, Chat!Release,
                Chat!redis, TableTypes
  <1>5. CASE Chat!PushAnswer(m)
    <2>1. Chat!Push(Chat!AnswerTo(m)) /\ Chat!AnswerTo(m) \in Chat!Ids
      BY <1>5, MessagesAreIds DEF Chat!PushAnswer
    <2>2. TableTypes'
      BY <1>1, <1>2, <1>3, <1>4, <2>1, Pushes DEF TableTypes
    <2> QED
      BY <1>2, <2>2, TypesBeside
  <1>6. CASE Chat!TrimAnswer(m)
    <2>1. Chat!Trim /\ UNCHANGED <<said, liked, mode>>
      BY <1>6 DEF Chat!TrimAnswer, Chat!ghosts
    <2>2. list' \in Seq(Chat!Entries)
      BY <1>1, <2>1, Trimmed DEF TableTypes
    <2>3. TableTypes'
      BY <1>1, <1>2, <1>3, <1>4, <2>1, <2>2 DEF TableTypes
    <2> QED
      BY <1>2, <2>3, TypesBeside
  <1>7. CASE Chat!TakeLock(m) \/ Chat!Answer(m) \/ Chat!Release(m)
    <2>1. UNCHANGED <<list, said, liked, mode>>
      BY <1>7 DEF Chat!TakeLock, Chat!Answer, Chat!Release, Chat!redis, Chat!ghosts
    <2>2. TableTypes'
      BY <1>1, <1>2, <1>3, <1>4, <2>1 DEF TableTypes
    <2> QED
      BY <1>2, <2>2, TypesBeside
  <1> QED
    BY <1>5, <1>6, <1>7 DEF Chat!Ask

LEMMA EndTypes ==
  ASSUME TalkTypes, Chat!LockExpires \/ Chat!RedisRestarts \/ Chat!Crash
  PROVE  TalkTypes'
  <1>1. TableTypes
    BY TypesAre
  <1>2. CASE Chat!LockExpires
    <2>1. /\ UNCHANGED <<stored, list, work, ask, sent, clicks, said, liked, mode>>
          /\ lock' = Nobody /\ lockLost' \in BOOLEAN
      BY <1>1, <1>2 DEF Chat!LockExpires, TableTypes
    <2>2. TableTypes'
      BY <1>1, <2>1 DEF TableTypes
    <2> QED
      BY <2>1, <2>2, TypesBeside
  <1>3. CASE Chat!RedisRestarts
    <2>1. /\ UNCHANGED <<stored, work, ask, sent, clicks>>
          /\ lock' = Nobody /\ lockLost' \in BOOLEAN /\ list' = <<>>
          /\ Chat!Judge(IF Chat!Meddling # {} THEN "broken" ELSE "lost", <<>>, {})
      BY <1>1, <1>3 DEF Chat!RedisRestarts, TableTypes
    <2>2. list' \in Seq(Chat!Entries)
      BY <2>1
    <2>3. <<>> \in Seq(Chat!Ids) /\ {} \in SUBSET (Chat!Ids \X Speakers)
      OBVIOUS
    <2>4. /\ mode' \in {"whole", "lost", "warmed", "broken"} /\ said' \in Seq(Chat!Ids)
          /\ liked' \subseteq Chat!Ids \X Speakers
      BY <2>1, <2>3, JudgedTypes
    <2>5. TableTypes'
      BY <1>1, <2>1, <2>2, <2>4 DEF TableTypes
    <2> QED
      BY <2>1, <2>5, TypesBeside
  <1>4. CASE Chat!Crash
    <2>1. /\ UNCHANGED <<stored, list, lock, sent, clicks, lockLost>>
          /\ work' = [u \in Speakers |-> Chat!Resting]
          /\ ask' = [m \in Chat!Messages |-> IF ask[m] = "none" THEN "none" ELSE "over"]
          /\ Chat!Judge(IF \E u \in Speakers : work[u].step \in {"push", "warm"} THEN "broken" ELSE mode, said, liked)
      BY <1>4 DEF Chat!Crash, Chat!redis
    <2>2. /\ mode' \in {"whole", "lost", "warmed", "broken"} /\ said' \in Seq(Chat!Ids)
          /\ liked' \subseteq Chat!Ids \X Speakers
      BY <1>1, <2>1, JudgedTypes DEF TableTypes
    <2>3. TableTypes'
      BY <1>1, <2>1, <2>2 DEF TableTypes, Asking
    <2>4. work' \in [Speakers -> Reader] /\ \A u \in Speakers : work'[u].step = "idle"
      BY <2>1, RestingReader
    <2> QED
      BY <2>3, <2>4 DEF TalkTypes, TableTypes, Chat!TypeOK, Reader, Stage, Asking, Brings
  <1> QED
    BY <1>2, <1>3, <1>4

LEMMA TalkTypesStart == ASSUME Chat!Init PROVE TalkTypes
  <1>1. work \in [Speakers -> Reader] /\ \A u \in Speakers : work[u].step = "idle"
    BY RestingReader DEF Chat!Init
  <1>2. <<>> \in Seq(Chat!Entries) /\ <<>> \in Seq(Chat!Ids)
    OBVIOUS
  <1>3. 0 \in 0..MaxMessages /\ 0 \in 0..MaxClicks
    BY TalkConstants
  <1>4. TableTypes
    BY <1>2, <1>3 DEF Chat!Init, TableTypes, Asking
  <1> QED
    BY <1>1, <1>4 DEF TalkTypes, TableTypes, Chat!TypeOK, Reader, Stage, Asking, Brings

LEMMA TalkTypesStep ==
  ASSUME TalkTypes, [Chat!Next]_(Chat!vars)
  PROVE  TalkTypes'
  <1>1. CASE UNCHANGED Chat!vars
    <2>1. TableTypes' /\ UNCHANGED work
      BY <1>1, TypesAre DEF Chat!vars, Chat!redis, Chat!ghosts, TableTypes
    <2> QED
      BY <2>1, TypesBeside
  <1> QED
    BY <1>1, ReaderTypes, AskTypes, EndTypes DEF Chat!Next

-----------------------------------------------------------------------------
(* A message is in one hand until it is asked about.                       *)

HandsInv ==
    /\ \A u \in Speakers : Brings(u) => work[u].id <= sent /\ ask[work[u].id] = "none"
    /\ \A u, v \in Speakers : Brings(u) /\ Brings(v) /\ u # v => work[u].id # work[v].id
    /\ \A m \in Chat!Messages : ask[m] # "none" => m <= sent

LEMMA HandsAfter ==
  ASSUME TalkTypes, HandsInv, NEW u \in Speakers, NEW q, Becomes(u, q), UNCHANGED <<ask, sent>>,
         q.step \notin {"store", "push", "trim"} \/ (Brings(u) /\ q.id = work[u].id)
  PROVE  HandsInv'
  <1>1. work' \in [Speakers -> Reader] /\ work'[u] = q /\ \A v \in Speakers \ {u} : work'[v] = work[v]
    BY TypesAre, BecomesSo
  <1>2. \A v \in Speakers : work'[v].step \in {"store", "push", "trim"} => Brings(v) /\ work'[v].id = work[v].id
    BY <1>1 DEF Brings
  <1> QED
    BY <1>2 DEF HandsInv, Brings

LEMMA ReaderHands ==
  ASSUME TalkTypes, HandsInv, NEW u \in Speakers,
         Chat!SendMessage(u) \/ Chat!React(u) \/ Chat!MissHistory(u) \/ Chat!Read(u)
  PROVE  HandsInv'
  <1>1. TableTypes /\ work \in [Speakers -> Reader]
    BY TypesAre
  <1>2. CASE Chat!SendMessage(u)
    <2>1. sent' = sent + 1 /\ sent' \in Chat!Messages /\ UNCHANGED ask /\ sent \in Nat
      BY <1>1, <1>2, SendMoves, TalkConstants DEF TableTypes
    <2>2. PICK q : Becomes(u, q) /\ q.step = "store" /\ q.id = sent'
      BY <1>2, SendMoves
    <2>3. work' \in [Speakers -> Reader] /\ work'[u] = q /\ \A v \in Speakers \ {u} : work'[v] = work[v]
      BY <1>1, <2>2, BecomesSo
    <2>4. ask[sent'] = "none"
      BY <2>1 DEF HandsInv
    <2>5. \A v \in Speakers : Brings(v) => work[v].id \in Nat /\ work[v].id <= sent
      BY MessagesAreIds DEF HandsInv, TalkTypes
    <2>6. \A m \in Chat!Messages : ask'[m] # "none" => m <= sent'
      BY <2>1, MessagesAreIds DEF HandsInv
    <2>7. \A v \in Speakers : work'[v].step \in {"store", "push", "trim"} =>
              /\ work'[v].id <= sent' /\ ask'[work'[v].id] = "none"
              /\ v # u => work'[v].id = work[v].id /\ Brings(v) /\ work'[v].id # sent'
      <3> SUFFICES ASSUME NEW v \in Speakers, work'[v].step \in {"store", "push", "trim"}
                   PROVE  /\ work'[v].id <= sent' /\ ask'[work'[v].id] = "none"
                          /\ v # u => work'[v].id = work[v].id /\ Brings(v) /\ work'[v].id # sent'
        OBVIOUS
      <3>1. CASE v = u
        BY <2>1, <2>2, <2>3, <2>4, <3>1
      <3>2. CASE v # u
        <4>1. work'[v] = work[v] /\ Brings(v)
          BY <2>3, <3>2 DEF Brings
        <4>2. work[v].id \in Nat /\ work[v].id <= sent /\ ask[work[v].id] = "none"
          BY <2>5, <4>1 DEF HandsInv
        <4> QED
          BY <2>1, <3>2, <4>1, <4>2
      <3> QED
        BY <3>1, <3>2
    <2>8. \A v, x \in Speakers : /\ work'[v].step \in {"store", "push", "trim"}
                                 /\ work'[x].step \in {"store", "push", "trim"} /\ v # x
                                 => work'[v].id # work'[x].id
      <3> SUFFICES ASSUME NEW v \in Speakers, NEW x \in Speakers, v # x,
                          work'[v].step \in {"store", "push", "trim"}, work'[x].step \in {"store", "push", "trim"}
                   PROVE  work'[v].id # work'[x].id
        OBVIOUS
      <3>1. CASE v = u \/ x = u
        BY <2>2, <2>3, <2>7, <3>1
      <3>2. CASE v # u /\ x # u
        BY <2>7, <3>2 DEF HandsInv
      <3> QED
        BY <3>1, <3>2
    <2> QED
      BY <2>6, <2>7, <2>8 DEF HandsInv, Brings
  <1>3. CASE Chat!React(u)
    BY <1>3, ReactMoves, HandsAfter
  <1>4. CASE Chat!MissHistory(u)
    <2>1. UNCHANGED <<ask, sent>> /\ Chat!Goto(u, "query")
      BY <1>4 DEF Chat!MissHistory
    <2> QED
      BY <1>1, <2>1, Goes, HandsAfter DEF Stage
  <1>5. CASE Chat!StoreMessage(u) \/ Chat!PushMessage(u)
    <2>1. UNCHANGED <<ask, sent>> /\ Brings(u) /\ \E s \in {"push", "trim"} : Chat!Goto(u, s)
      BY <1>5 DEF Chat!StoreMessage, Chat!PushMessage, Chat!At, Brings
    <2>2. PICK q : Becomes(u, q) /\ q.id = work[u].id
      BY <1>1, <2>1, Goes DEF Stage
    <2> QED
      BY <2>1, <2>2, HandsAfter
  <1>6. CASE Chat!TrimMessage(u)
    <2>1. /\ Brings(u) /\ UNCHANGED sent /\ Chat!Rest(u) /\ work[u].id \in Chat!Messages
          /\ ask' = ask \/ ask' = [ask EXCEPT ![work[u].id] = "ask"]
      BY <1>6 DEF Chat!TrimMessage, Chat!At, Brings, TalkTypes
    <2>2. work'[u] = Chat!Resting /\ \A v \in Speakers \ {u} : work'[v] = work[v]
      BY <1>1, <2>1, Rests, BecomesSo
    <2>3. \A v \in Speakers : work'[v].step \in {"store", "push", "trim"} =>
              v # u /\ Brings(v) /\ work'[v].id = work[v].id
      BY <2>2, RestingReader DEF Brings
    <2>4. ask \in [Chat!Messages -> Asking]
      BY <1>1 DEF TableTypes
    <2>5. \A m \in Chat!Messages : m # work[u].id => ask'[m] = ask[m]
      BY <2>1, <2>4
    <2>6. \A m \in Chat!Messages : ask'[m] # "none" => m <= sent'
      BY <2>1, <2>5 DEF HandsInv
    <2>7. \A v \in Speakers : work'[v].step \in {"store", "push", "trim"} =>
              work'[v].id <= sent' /\ ask'[work'[v].id] = "none"
      BY <2>1, <2>3, <2>5 DEF HandsInv, TalkTypes
    <2>8. \A v, x \in Speakers : /\ work'[v].step \in {"store", "push", "trim"}
                                 /\ work'[x].step \in {"store", "push", "trim"} /\ v # x
                                 => work'[v].id # work'[x].id
      BY <2>3 DEF HandsInv
    <2> QED
      BY <2>6, <2>7, <2>8 DEF HandsInv, Brings
  <1>7. CASE Chat!SetEntry(u)
    BY <1>7, SetMoves, RestingReader, HandsAfter
  <1>8. CASE Chat!QueryHistory(u)
    BY <1>8, QueryMoves, HandsAfter
  <1>9. CASE Chat!WarmHistory(u)
    BY <1>9, WarmMoves, HandsAfter
  <1>10. CASE Chat!WarmEnds(u)
    <2>1. UNCHANGED <<ask, sent>> /\ Chat!Rest(u)
      BY <1>10 DEF Chat!WarmEnds
    <2> QED
      BY <2>1, Rests, RestingReader, HandsAfter
  <1> QED
    BY <1>2, <1>3, <1>4, <1>5, <1>6, <1>7, <1>8, <1>9, <1>10 DEF Chat!Read

LEMMA AskHands ==
  ASSUME TalkTypes, HandsInv, NEW m \in Chat!Messages, Chat!Ask(m)
  PROVE  HandsInv'
  <1>1. UNCHANGED <<work, sent>> /\ ask[m] # "none" /\ \E s \in Asking \ {"none"} : ask' = [ask EXCEPT ![m] = s]
    BY DEF Chat!Ask, Chat!TakeLock, Chat!Answer, Chat!PushAnswer, Chat!TrimAnswer, Chat!Release, Asking
  <1>2. ask \in [Chat!Messages -> Asking]
    BY TypesAre DEF TableTypes
  <1>3. \A n \in Chat!Messages : n # m => ask'[n] = ask[n]
    BY <1>1, <1>2
  <1>4. \A n \in Chat!Messages : ask'[n] # "none" => n <= sent
    BY <1>1, <1>3 DEF HandsInv
  <1> QED
    BY <1>1, <1>3, <1>4 DEF HandsInv, Brings, TalkTypes

LEMMA TalkHands ==
  ASSUME TalkTypes, HandsInv, [Chat!Next]_(Chat!vars)
  PROVE  HandsInv'
  <1>1. CASE UNCHANGED Chat!vars \/ Chat!LockExpires \/ Chat!RedisRestarts
    <2>1. UNCHANGED <<work, ask, sent>>
      BY <1>1 DEF Chat!vars, Chat!LockExpires, Chat!RedisRestarts
    <2> QED
      BY <2>1 DEF HandsInv, Brings
  <1>2. CASE Chat!Crash
    <2>1. UNCHANGED sent /\ work' = [u \in Speakers |-> Chat!Resting]
          /\ ask' = [m \in Chat!Messages |-> IF ask[m] = "none" THEN "none" ELSE "over"]
      BY <1>2 DEF Chat!Crash
    <2>2. \A u \in Speakers : work'[u].step = "idle"
      BY <2>1, RestingReader
    <2> QED
      BY <2>1, <2>2 DEF HandsInv, Brings
  <1> QED
    BY <1>1, <1>2, ReaderHands, AskHands DEF Chat!Next

(* The lock of an answer at work is its own, until it has gone before.     *)
LockInv == ~lockLost => \A m \in Chat!Answering : lock = m

LEMMA TalkLock ==
  ASSUME TalkTypes, HandsInv, LockInv, [Chat!Next]_(Chat!vars)
  PROVE  LockInv'
  <1>1. ask \in [Chat!Messages -> Asking] /\ lock \in Chat!Messages \cup {Nobody} /\ Nobody \notin Chat!Messages
    BY TypesAre, TalkConstants DEF TableTypes, Chat!Messages
  <1>2. ASSUME UNCHANGED <<lock, lockLost>>, Chat!Answering' \subseteq Chat!Answering PROVE LockInv'
    BY <1>2 DEF LockInv
  <1>3. ASSUME NEW m \in Chat!Messages, NEW s \in Asking, ask' = [ask EXCEPT ![m] = s]
        PROVE  ask'[m] = s /\ \A n \in Chat!Messages : n # m => ask'[n] = ask[n]
    BY <1>1, <1>3
  <1>4. ASSUME NEW m \in Chat!Messages, Chat!TakeLock(m) PROVE LockInv'
    <2>1. CASE lock = Nobody
      <3>1. ~lockLost => Chat!Answering = {}
        BY <1>1, <2>1 DEF LockInv, Chat!Answering
      <3>2. lock' = m /\ ask' = [ask EXCEPT ![m] = "think"] /\ UNCHANGED lockLost
        BY <1>4, <2>1 DEF Chat!TakeLock, Chat!LockIsFree, Chat!ghosts
      <3>3. \A n \in Chat!Messages : n # m => ask'[n] = ask[n]
        BY <1>1, <3>2
      <3> QED
        BY <3>1, <3>2, <3>3 DEF LockInv, Chat!Answering
    <2>2. CASE lock # Nobody
      <3>1. lock' = lock /\ ask' = [ask EXCEPT ![m] = "over"] /\ UNCHANGED lockLost
        BY <1>4, <2>2 DEF Chat!TakeLock, Chat!LockIsFree, Chat!ghosts
      <3>2. Chat!Answering' \subseteq Chat!Answering
        BY <1>1, <3>1 DEF Chat!Answering
      <3> QED
        BY <1>2, <3>1, <3>2
    <2> QED
      BY <2>1, <2>2
  <1>5. ASSUME NEW m \in Chat!Messages, Chat!Answer(m) \/ Chat!PushAnswer(m) \/ Chat!TrimAnswer(m) PROVE LockInv'
    <2>1. /\ ask[m] \in {"think", "push", "trim"} /\ UNCHANGED <<lock, lockLost>>
          /\ \E s \in {"push", "trim", "release"} : ask' = [ask EXCEPT ![m] = s]
      BY <1>5 DEF Chat!Answer, Chat!PushAnswer, Chat!TrimAnswer, Chat!redis, Chat!ghosts
    <2>2. Chat!Answering' \subseteq Chat!Answering
      BY <1>1, <2>1 DEF Chat!Answering
    <2> QED
      BY <1>2, <2>1, <2>2
  <1>6. ASSUME NEW m \in Chat!Messages, Chat!Release(m) PROVE LockInv'
    <2>1. ask[m] = "release" /\ ask' = [ask EXCEPT ![m] = "over"] /\ UNCHANGED lockLost
      BY <1>6 DEF Chat!Release, Chat!ghosts
    <2>2. ~lockLost => \A n \in Chat!Answering : n = m
      BY <2>1 DEF LockInv, Chat!Answering
    <2>3. Chat!Answering' \subseteq Chat!Answering \ {m}
      BY <1>1, <2>1 DEF Chat!Answering
    <2> QED
      BY <2>1, <2>2, <2>3 DEF LockInv
  <1>7. CASE Chat!LockExpires \/ Chat!RedisRestarts
    <2>1. UNCHANGED ask /\ lockLost' = (lockLost \/ lock \in Chat!Answering)
      BY <1>7 DEF Chat!LockExpires, Chat!RedisRestarts
    <2>2. ~lockLost' => Chat!Answering = {}
      BY <2>1 DEF LockInv
    <2> QED
      BY <2>1, <2>2 DEF LockInv, Chat!Answering
  <1>8. CASE Chat!Crash
    <2>1. Chat!Answering' = {}
      BY <1>8 DEF Chat!Crash, Chat!Answering
    <2> QED
      BY <2>1 DEF LockInv
  <1>9. ASSUME NEW u \in Speakers,
               Chat!SendMessage(u) \/ Chat!React(u) \/ Chat!MissHistory(u) \/ Chat!Read(u)
        PROVE  LockInv'
    <2>1. CASE Chat!TrimMessage(u)
      <3>1. UNCHANGED <<lock, lockLost>> /\ (ask' = ask \/ ask' = [ask EXCEPT ![work[u].id] = "ask"])
        BY <2>1 DEF Chat!TrimMessage, Chat!ghosts
      <3>2. Chat!Answering' \subseteq Chat!Answering
        BY <1>1, <3>1 DEF Chat!Answering
      <3> QED
        BY <1>2, <3>1, <3>2
    <2>2. CASE ~Chat!TrimMessage(u)
      <3>1. UNCHANGED <<ask, lock, lockLost>>
        BY <1>9, <2>2 DEF Chat!SendMessage, Chat!React, Chat!MissHistory, Chat!Read, Chat!StoreMessage,
             Chat!PushMessage, Chat!SetEntry, Chat!QueryHistory, Chat!WarmHistory, Chat!WarmEnds,
             Chat!redis, Chat!ghosts
      <3> QED
        BY <1>2, <3>1 DEF Chat!Answering
    <2> QED
      BY <2>1, <2>2
  <1>10. CASE UNCHANGED Chat!vars
    BY <1>2, <1>10 DEF Chat!vars, Chat!redis, Chat!ghosts, Chat!Answering
  <1> QED
    BY <1>4, <1>5, <1>6, <1>7, <1>8, <1>9, <1>10 DEF Chat!Next, Chat!Ask

-----------------------------------------------------------------------------
(* While the list is whole: it has each message once, the newest as they   *)
(* were pushed, each with the clicks that count; and a reaction on its way *)
(* holds what is still there.                                              *)

Pushed(id) ==
    /\ id <= MaxMessages =>
          id <= sent /\ \A u \in Speakers : work[u].step \in {"store", "push"} => work[u].id # id
    /\ id > MaxMessages =>
          \A m \in Chat!Messages : Chat!AnswerTo(m) = id => ask[m] \in {"trim", "release", "over"}

Size == IF Len(list) > Kept THEN Kept ELSE Len(list)

Once ==
    /\ \A i \in 1..Len(list), id \in Chat!Ids : list[i].id = id => Pushed(id)
    /\ \A i, j \in 1..Len(list) : i # j => list[i].id # list[j].id
    /\ \A id \in Chat!Ids, u \in Speakers : <<id, u>> \in liked => Pushed(id)

Recent == Len(said) = Size /\ \A i \in 1..Size : said[i] = list[Size + 1 - i].id

Liked == \A i \in 1..Len(list) : list[i].likes = {u \in Speakers : <<list[i].id, u>> \in liked}

Clicking ==
    \A u \in Speakers : work[u].step = "set" =>
        work[u].index \in 1..Len(list) /\ work[u].entry = Chat!Toggled(list[work[u].index], u)

WholeInv == mode = "whole" => Once /\ Recent /\ Liked /\ Clicking

LEMMA ListTypes ==
  ASSUME TalkTypes
  PROVE  /\ list \in Seq(Chat!Entries) /\ Len(list) \in Nat /\ said \in Seq(Chat!Ids)
         /\ \A i \in 1..Len(list) : list[i] \in Chat!Entries /\ list[i].id \in Chat!Ids /\ list[i].likes \subseteq Speakers
         /\ Kept \in Nat \ {0} /\ Size \in Nat /\ Size <= Len(list) /\ Size <= Kept
  <1>1. list \in Seq(Chat!Entries) /\ said \in Seq(Chat!Ids)
    BY DEF TalkTypes, Chat!TypeOK
  <1>2. Len(list) \in Nat /\ \A i \in 1..Len(list) : list[i] \in Chat!Entries
    BY <1>1
  <1>3. \A e \in Chat!Entries : e.id \in Chat!Ids /\ e.likes \subseteq Speakers
    BY DEF Chat!Entries
  <1> QED
    BY <1>1, <1>2, <1>3, TalkConstants DEF Size

LEMMA WhatIsPushedStays ==
  ASSUME TalkTypes, HandsInv, TalkTypes', sent' >= sent,
         \A m \in Chat!Messages : ask[m] \in {"trim", "release", "over"} => ask'[m] \in {"trim", "release", "over"},
         \A u \in Speakers : work'[u].step \in {"store", "push"} =>
             \/ work[u].step \in {"store", "push"} /\ work'[u].id = work[u].id
             \/ work'[u].id > sent
  PROVE  \A id \in Chat!Ids : Pushed(id) => Pushed(id)'
  <1> SUFFICES ASSUME NEW id \in Chat!Ids, Pushed(id) PROVE Pushed(id)'
    OBVIOUS
  <1>1. id \in Nat /\ sent \in Nat /\ sent' \in Nat
    BY TalkConstants DEF Chat!Ids, TalkTypes, Chat!TypeOK
  <1>2. ASSUME id <= MaxMessages PROVE id <= sent'
    BY <1>1, <1>2 DEF Pushed
  <1>3. ASSUME id <= MaxMessages, NEW u \in Speakers, work'[u].step \in {"store", "push"} PROVE work'[u].id # id
    <2>1. id <= sent
      BY <1>3 DEF Pushed
    <2>2. CASE work[u].step \in {"store", "push"} /\ work'[u].id = work[u].id
      BY <1>3, <2>2 DEF Pushed
    <2>3. CASE work'[u].id > sent
      BY <1>1, <2>1, <2>3
    <2> QED
      BY <1>3, <2>2, <2>3
  <1> QED
    BY <1>2, <1>3 DEF Pushed

(* Steps that leave the list alone.                                        *)
LEMMA WholeQuiet ==
  ASSUME TalkTypes, WholeInv, \A id \in Chat!Ids : Pushed(id) => Pushed(id)',
         mode' = "whole" => mode = "whole" /\ UNCHANGED <<list, said, liked>>,
         \A u \in Speakers : work'[u].step = "set" =>
             \/ work[u].step = "set" /\ work'[u] = work[u]
             \/ /\ work'[u].index \in 1..Len(list)
                /\ work'[u].entry = Chat!Toggled(list[work'[u].index], u)
  PROVE  WholeInv'
  <1> SUFFICES ASSUME mode' = "whole" PROVE Once' /\ Recent' /\ Liked' /\ Clicking'
    BY DEF WholeInv
  <1>1. mode = "whole" /\ UNCHANGED <<list, said, liked>>
    OBVIOUS
  <1>2. Once /\ Recent /\ Liked /\ Clicking
    BY <1>1 DEF WholeInv
  <1>3. Once'
    BY <1>1, <1>2, ListTypes DEF Once
  <1>4. Recent' /\ Liked'
    BY <1>1, <1>2 DEF Recent, Size, Liked
  <1>5. Clicking'
    BY <1>1, <1>2 DEF Clicking
  <1> QED
    BY <1>3, <1>4, <1>5

LEMMA WholeTrim ==
  ASSUME TalkTypes, WholeInv, Chat!Trim, \A id \in Chat!Ids : Pushed(id) => Pushed(id)',
         mode' = "whole" => mode = "whole" /\ UNCHANGED <<said, liked>>,
         \A u \in Speakers : work'[u].step = "set" => work[u].step = "set" /\ work'[u] = work[u]
  PROVE  WholeInv'
  <1> SUFFICES ASSUME mode' = "whole" PROVE Once' /\ Recent' /\ Liked' /\ Clicking'
    BY DEF WholeInv
  <1>1. mode = "whole" /\ UNCHANGED <<said, liked>>
    OBVIOUS
  <1>2. Once /\ Recent /\ Liked /\ Clicking
    BY <1>1 DEF WholeInv
  <1>3. /\ Len(list') = Size /\ \A i \in 1..Size : i \in 1..Len(list) /\ list'[i] = list[i]
        /\ Size \in Nat /\ Size <= Kept /\ Kept \in Nat
    BY ListTypes, Trimmed DEF Size
  <1>4. Size' = Size
    BY <1>3 DEF Size
  <1>5. Once'
    BY <1>1, <1>2, <1>3, ListTypes DEF Once
  <1>6. Recent'
    <2>1. \A i \in 1..Size : Size + 1 - i \in 1..Size
      BY <1>3
    <2> QED
      BY <1>1, <1>2, <1>3, <1>4, <2>1 DEF Recent
  <1>7. Liked'
    BY <1>1, <1>2, <1>3 DEF Liked
  <1>8. Clicking'
    <2> SUFFICES ASSUME NEW u \in Speakers, work'[u].step = "set"
                 PROVE  work'[u].index \in 1..Len(list') /\ work'[u].entry = Chat!Toggled(list'[work'[u].index], u)
      BY DEF Clicking
    <2>1. work'[u] = work[u] /\ work[u].index \in 1..Len(list) /\ work[u].index \in 1..Kept
          /\ work[u].entry = Chat!Toggled(list[work[u].index], u)
      BY <1>2 DEF Clicking, TalkTypes
    <2>2. work[u].index \in 1..Size
      BY <2>1, ListTypes DEF Size
    <2> QED
      BY <1>3, <2>1, <2>2
  <1> QED
    BY <1>5, <1>6, <1>7, <1>8

LEMMA WholePush ==
  ASSUME TalkTypes, WholeInv, NEW id \in Chat!Ids, Chat!Push(id), ~Pushed(id), Pushed(id)',
         \A other \in Chat!Ids : Pushed(other) => Pushed(other)',
         \A u \in Speakers : work'[u].step = "set" => work[u].step = "set"
  PROVE  WholeInv'
  <1> SUFFICES ASSUME mode' = "whole" PROVE Once' /\ Recent' /\ Liked' /\ Clicking'
    BY DEF WholeInv
  <1>1. /\ mode = "whole" /\ Chat!Meddling = {} /\ liked' = liked
        /\ said' = Chat!LastOf(Append(said, id)) /\ list' = <<Chat!Entry(id)>> \o list
    BY Pushes
  <1>2. Once /\ Recent /\ Liked
    BY <1>1 DEF WholeInv
  <1>3. /\ Len(list') = Len(list) + 1 /\ list'[1] = Chat!Entry(id)
        /\ \A i \in 2..Len(list) + 1 : list'[i] = list[i - 1]
        /\ \A i \in 1..Len(list) : list'[i + 1] = list[i]
    BY <1>1, ListTypes, EntryOf, InFront
  <1>4. /\ Chat!Entry(id).id = id /\ Chat!Entry(id).likes = {}
        /\ list \in Seq(Chat!Entries) /\ Len(list) \in Nat /\ said \in Seq(Chat!Ids)
        /\ \A i \in 1..Len(list) : list[i].id \in Chat!Ids
        /\ Kept \in Nat \ {0} /\ Size \in Nat
    BY EntryOf, ListTypes
  <1> DEFINE n == Len(list)
  <1>5. \A i \in 1..n + 1 : i = 1 \/ (i \in 2..n + 1 /\ i - 1 \in 1..n)
    BY <1>4
  <1>6. \A i \in 1..n : list[i].id # id
    BY <1>2 DEF Once
  <1>7. Once'
    <2>1. \A i \in 1..n + 1, other \in Chat!Ids : list'[i].id = other => Pushed(other)'
      <3> SUFFICES ASSUME NEW i \in 1..n + 1, NEW other \in Chat!Ids, list'[i].id = other PROVE Pushed(other)'
        OBVIOUS
      <3>1. CASE i = 1
        <4>1. id = other
          BY <1>3, <1>4, <3>1
        <4> QED
          BY <4>1
      <3>2. CASE i # 1
        <4>1. i - 1 \in 1..n /\ list[i - 1].id = other
          BY <1>3, <1>4, <1>5, <3>2
        <4> QED
          BY <1>2, <4>1 DEF Once
      <3> QED
        BY <3>1, <3>2
    <2>2. \A i, j \in 1..n + 1 : i # j => list'[i].id # list'[j].id
      <3> SUFFICES ASSUME NEW i \in 1..n + 1, NEW j \in 1..n + 1, i # j PROVE list'[i].id # list'[j].id
        OBVIOUS
      <3>1. CASE i = 1
        BY <1>3, <1>4, <1>5, <1>6, <3>1
      <3>2. CASE j = 1
        BY <1>3, <1>4, <1>5, <1>6, <3>2
      <3>3. CASE i # 1 /\ j # 1
        <4>1. i - 1 \in 1..n /\ j - 1 \in 1..n /\ i - 1 # j - 1
          BY <1>5, <3>3
        <4>2. list[i - 1].id # list[j - 1].id
          BY <1>2, <4>1 DEF Once
        <4> QED
          BY <1>3, <1>5, <3>3, <4>2
      <3> QED
        BY <3>1, <3>2, <3>3
    <2>3. \A other \in Chat!Ids, u \in Speakers : <<other, u>> \in liked' => Pushed(other)'
      BY <1>1, <1>2 DEF Once
    <2> QED
      BY <1>3, <2>1, <2>2, <2>3 DEF Once
  <1>8. Recent'
    <2>1. Len(said) = Size /\ \A i \in 1..Size : said[i] = list[Size + 1 - i].id
      BY <1>2 DEF Recent
    <2> DEFINE all == Append(said, id)
    <2>2. /\ all \in Seq(Chat!Ids) /\ Len(all) = Size + 1 /\ all[Size + 1] = id
          /\ \A i \in 1..Size : all[i] = said[i]
      BY <1>4, <2>1
    <2> HIDE DEF all
    <2>3. CASE n < Kept
      <3>1. Size = n /\ Size' = n + 1
        BY <1>3, <1>4, <2>3 DEF Size
      <3>2. said' = all
        <4>1. Chat!LastOf(all) = SubSeq(all, 1, Len(all))
          <5>1. ~(Len(all) > Kept)
            BY <1>4, <2>2, <2>3, <3>1
          <5> QED
            BY <5>1 DEF Chat!LastOf
        <4> QED
          BY <1>1, <2>2, <4>1 DEF all
      <3>3. \A i \in 1..n + 1 : all[i] = list'[n + 2 - i].id
        <4> SUFFICES ASSUME NEW i \in 1..n + 1 PROVE all[i] = list'[n + 2 - i].id
          OBVIOUS
        <4>1. CASE i = n + 1
          BY <1>3, <1>4, <2>2, <3>1, <4>1
        <4>2. CASE i # n + 1
          <5>1. i \in 1..n /\ n + 1 - i \in 1..n /\ (n + 1 - i) + 1 = n + 2 - i
            BY <1>4, <4>2
          <5>2. list'[(n + 1 - i) + 1] = list[n + 1 - i]
            BY <1>3, <5>1
          <5> QED
            BY <2>1, <2>2, <3>1, <5>1, <5>2
        <4> QED
          BY <4>1, <4>2
      <3>4. Size' = n + 1 /\ \A i \in 1..n + 1 : (n + 1) + 1 - i = n + 2 - i
        BY <1>4, <3>1
      <3> HIDE DEF n
      <3> QED
        BY <2>2, <3>1, <3>2, <3>3, <3>4 DEF Recent
    <2>4. CASE ~(n < Kept)
      <3>1. Size = Kept /\ Size' = Kept
        BY <1>3, <1>4, <2>4 DEF Size
      <3>2. said' = SubSeq(all, 2, Kept + 1)
        <4>1. Chat!LastOf(all) = SubSeq(all, 2, Kept + 1)
          BY <1>4, <2>2, <3>1 DEF Chat!LastOf
        <4> QED
          BY <1>1, <4>1 DEF all
      <3>3. Len(said') = Kept /\ \A i \in 1..Kept : said'[i] = all[i + 1]
        <4>1. 2 \in 1..Len(all) + 1 /\ Kept + 1 \in 1..Len(all)
          BY <1>4, <2>2, <3>1
        <4> QED
          BY <1>4, <2>2, <3>1, <3>2, <4>1
      <3>4. \A i \in 1..Kept : all[i + 1] = list'[Kept + 1 - i].id
        <4> SUFFICES ASSUME NEW i \in 1..Kept PROVE all[i + 1] = list'[Kept + 1 - i].id
          OBVIOUS
        <4>1. CASE i = Kept
          BY <1>3, <1>4, <2>2, <3>1, <4>1
        <4>2. CASE i # Kept
          <5>1. i + 1 \in 1..Kept /\ Kept - i \in 1..n /\ (Kept - i) + 1 = Kept + 1 - i
                /\ Kept + 1 - (i + 1) = Kept - i
            BY <1>4, <2>4, <4>2
          <5>2. list'[(Kept - i) + 1] = list[Kept - i]
            BY <1>3, <5>1
          <5>3. said[i + 1] = list[Kept + 1 - (i + 1)].id
            BY <2>1, <3>1, <5>1
          <5> QED
            BY <2>2, <3>1, <5>1, <5>2, <5>3
        <4> QED
          BY <4>1, <4>2
      <3> QED
        BY <3>1, <3>3, <3>4 DEF Recent
    <2> QED
      BY <2>3, <2>4
  <1>9. Liked'
    <2>1. \A u \in Speakers : <<id, u>> \notin liked
      BY <1>2 DEF Once
    <2>2. \A i \in 1..n + 1 : list'[i].likes = {u \in Speakers : <<list'[i].id, u>> \in liked}
      <3> SUFFICES ASSUME NEW i \in 1..n + 1
                   PROVE  list'[i].likes = {u \in Speakers : <<list'[i].id, u>> \in liked}
        OBVIOUS
      <3>1. CASE i = 1
        BY <1>3, <1>4, <2>1, <3>1
      <3>2. CASE i # 1
        BY <1>2, <1>3, <1>5, <3>2 DEF Liked
      <3> QED
        BY <3>1, <3>2
    <2> QED
      BY <1>1, <1>3, <2>2 DEF Liked
  <1>10. Clicking'
    BY <1>1 DEF Clicking, Chat!Meddling
  <1> QED
    BY <1>7, <1>8, <1>9, <1>10

LEMMA WholeSet ==
  ASSUME TalkTypes, WholeInv, \A id \in Chat!Ids : Pushed(id) => Pushed(id)',
         NEW u \in Speakers, Chat!SetEntry(u)
  PROVE  WholeInv'
  <1> SUFFICES ASSUME mode' = "whole" PROVE Once' /\ Recent' /\ Liked' /\ Clicking'
    BY DEF WholeInv
  <1> DEFINE at == work[u].index
             click == <<work[u].entry.id, u>>
  <1>1. /\ mode = "whole" /\ Chat!Meddling = {u} /\ said' = said /\ work[u].step = "set"
        /\ liked' = IF click \in liked THEN liked \ {click} ELSE liked \cup {click}
        /\ list' = IF at > Len(list) THEN list ELSE [list EXCEPT ![at] = work[u].entry]
    BY DEF Chat!SetEntry, Chat!Judge, Chat!At
  <1>2. Once /\ Recent /\ Liked /\ Clicking
    BY <1>1 DEF WholeInv
  <1>3. at \in 1..Len(list) /\ work[u].entry = Chat!Toggled(list[at], u)
    BY <1>1, <1>2 DEF Clicking
  <1>4. /\ list \in Seq(Chat!Entries) /\ Len(list) \in Nat
        /\ \A i \in 1..Len(list) : list[i] \in Chat!Entries /\ list[i].id \in Chat!Ids
    BY ListTypes
  <1>5. /\ work[u].entry.id = list[at].id
        /\ work[u].entry.likes = IF u \in list[at].likes THEN list[at].likes \ {u} ELSE list[at].likes \cup {u}
    <2>1. list[at] \in Chat!Entries
      BY <1>3, <1>4
    <2> DEFINE e == list[at]
    <2>2. e \in Chat!Entries
      BY <2>1
    <2> HIDE DEF e
    <2>3. /\ Chat!Toggled(e, u).id = e.id
          /\ Chat!Toggled(e, u).likes = IF u \in e.likes THEN e.likes \ {u} ELSE e.likes \cup {u}
      BY <2>2, ToggledEntry
    <2> QED
      BY <1>3, <2>3 DEF e
  <1>6. list' = [list EXCEPT ![at] = work[u].entry]
    BY <1>1, <1>3, <1>4
  <1>7. /\ Len(list') = Len(list) /\ list'[at] = work[u].entry
        /\ \A i \in 1..Len(list) : i # at => list'[i] = list[i]
    BY <1>3, <1>4, <1>6
  <1>8. \A i \in 1..Len(list) : list'[i].id = list[i].id
    BY <1>5, <1>7
  <1> DEFINE x == list[at].id
  <1>9. x \in Chat!Ids /\ click = <<x, u>> /\ \A i \in 1..Len(list) : i # at => list[i].id # x
    BY <1>2, <1>3, <1>4, <1>5 DEF Once
  <1>10. Once'
    <2>1. Pushed(x)
      BY <1>2, <1>3, <1>9 DEF Once
    <2>2. \A id \in Chat!Ids, v \in Speakers : <<id, v>> \in liked' => <<id, v>> \in liked \/ id = x
      BY <1>1, <1>9
    <2>3. \A id \in Chat!Ids, v \in Speakers : <<id, v>> \in liked' => Pushed(id)'
      BY <1>2, <2>1, <2>2 DEF Once
    <2>4. \A i \in 1..Len(list), id \in Chat!Ids : list'[i].id = id => Pushed(id)'
      BY <1>2, <1>8 DEF Once
    <2> QED
      BY <1>2, <1>7, <1>8, <2>3, <2>4 DEF Once
  <1>11. Recent'
    <2>1. Size' = Size /\ \A i \in 1..Size : Size + 1 - i \in 1..Len(list)
      BY <1>7, ListTypes DEF Size
    <2> QED
      BY <1>1, <1>2, <1>8, <2>1 DEF Recent
  <1>12. Liked'
    <2> SUFFICES ASSUME NEW i \in 1..Len(list)
                 PROVE  list'[i].likes = {v \in Speakers : <<list[i].id, v>> \in liked'}
      BY <1>7, <1>8 DEF Liked
    <2>1. list[i].likes = {v \in Speakers : <<list[i].id, v>> \in liked}
      BY <1>2 DEF Liked
    <2>2. CASE i = at
      <3>1. \A v \in Speakers : v # u => (<<x, v>> \in liked' <=> <<x, v>> \in liked)
        BY <1>1, <1>9
      <3>2. <<x, u>> \in liked' <=> <<x, u>> \notin liked
        BY <1>1, <1>9
      <3>3. list'[i].likes = IF u \in list[i].likes THEN list[i].likes \ {u} ELSE list[i].likes \cup {u}
        BY <1>5, <1>7, <2>2
      <3> QED
        BY <2>1, <2>2, <3>1, <3>2, <3>3
    <2>3. CASE i # at
      <3>1. \A v \in Speakers : <<list[i].id, v>> \in liked' <=> <<list[i].id, v>> \in liked
        BY <1>1, <1>9, <2>3
      <3> QED
        BY <1>7, <2>1, <2>3, <3>1
    <2> QED
      BY <2>2, <2>3
  <1>13. Clicking'
    <2>1. \A v \in Speakers \ {u} : work'[v] = work[v] /\ work[v].step # "set"
      BY <1>1, TypesAre, SetMoves, BecomesSo DEF Chat!Meddling
    <2>2. work'[u].step # "set"
      BY TypesAre, SetMoves, BecomesSo, RestingReader
    <2> QED
      BY <2>1, <2>2 DEF Clicking
  <1> QED
    BY <1>10, <1>11, <1>12, <1>13

LEMMA ReaderPushes ==
  ASSUME TalkTypes, HandsInv, TalkTypes', sent' >= sent, NEW u \in Speakers, NEW q, Becomes(u, q),
         \A m \in Chat!Messages : ask[m] \in {"trim", "release", "over"} => ask'[m] = ask[m],
         q.step \in {"store", "push"} => (work[u].step \in {"store", "push"} /\ q.id = work[u].id) \/ q.id > sent
  PROVE  \A id \in Chat!Ids : Pushed(id) => Pushed(id)'
  <1>1. work'[u] = q /\ \A v \in Speakers \ {u} : work'[v] = work[v]
    BY TypesAre, BecomesSo
  <1>2. \A v \in Speakers : work'[v].step \in {"store", "push"} =>
            (work[v].step \in {"store", "push"} /\ work'[v].id = work[v].id) \/ work'[v].id > sent
    BY <1>1
  <1> QED
    BY <1>2, WhatIsPushedStays

LEMMA ReaderWhole ==
  ASSUME TalkTypes, HandsInv, WholeInv, NEW u \in Speakers,
         Chat!SendMessage(u) \/ Chat!React(u) \/ Chat!MissHistory(u) \/ Chat!Read(u)
  PROVE  WholeInv'
  <1>1. TableTypes /\ work \in [Speakers -> Reader] /\ sent \in Nat /\ TalkTypes'
    BY TypesAre, ReaderTypes, TalkConstants DEF TableTypes
  <1>2. ASSUME NEW q, Becomes(u, q), q.step # "set", UNCHANGED <<ask, sent>>,
               q.step \in {"store", "push"} => work[u].step \in {"store", "push"} /\ q.id = work[u].id
        PROVE  /\ \A id \in Chat!Ids : Pushed(id) => Pushed(id)'
               /\ \A v \in Speakers : work'[v].step = "set" => work[v].step = "set" /\ work'[v] = work[v]
               /\ work'[u] = q /\ \A v \in Speakers \ {u} : work'[v] = work[v]
    <2>1. work'[u] = q /\ \A v \in Speakers \ {u} : work'[v] = work[v]
      BY <1>1, <1>2, BecomesSo
    <2>2. sent' >= sent
      BY <1>1, <1>2
    <2> QED
      BY <1>1, <1>2, <2>1, <2>2, ReaderPushes
  <1>3. CASE Chat!SendMessage(u)
    <2>1. sent' = sent + 1 /\ UNCHANGED <<ask, list, said, liked, mode>>
      BY <1>3, SendMoves
    <2>2. PICK q : Becomes(u, q) /\ q.step = "store" /\ q.id = sent'
      BY <1>3, SendMoves
    <2>3. work'[u] = q /\ \A v \in Speakers \ {u} : work'[v] = work[v]
      BY <1>1, <2>2, BecomesSo
    <2>4. sent' >= sent /\ q.id > sent
      BY <1>1, <2>1, <2>2
    <2>5. \A id \in Chat!Ids : Pushed(id) => Pushed(id)'
      BY <1>1, <2>1, <2>2, <2>4, ReaderPushes
    <2>6. \A v \in Speakers : work'[v].step = "set" => work[v].step = "set" /\ work'[v] = work[v]
      BY <2>2, <2>3
    <2> QED
      BY <2>1, <2>5, <2>6, WholeQuiet
  <1>4. CASE Chat!React(u)
    <2>1. UNCHANGED <<ask, sent, list, said, liked, mode>>
      BY <1>4, ReactMoves
    <2>2. PICK q : /\ Becomes(u, q) /\ q.step = "set"
                   /\ q.index \in 1..Len(list) /\ q.entry = Chat!Toggled(list[q.index], u)
      BY <1>4, ReactMoves
    <2>3. work'[u] = q /\ \A v \in Speakers \ {u} : work'[v] = work[v]
      BY <1>1, <2>2, BecomesSo
    <2>4. sent' >= sent
      BY <1>1, <2>1
    <2>5. \A id \in Chat!Ids : Pushed(id) => Pushed(id)'
      BY <1>1, <2>1, <2>2, <2>4, ReaderPushes
    <2>6. \A v \in Speakers : work'[v].step = "set" =>
             \/ work[v].step = "set" /\ work'[v] = work[v]
             \/ /\ work'[v].index \in 1..Len(list)
                /\ work'[v].entry = Chat!Toggled(list[work'[v].index], v)
      BY <2>2, <2>3
    <2> QED
      BY <2>1, <2>5, <2>6, WholeQuiet
  <1>5. CASE Chat!MissHistory(u)
    <2>1. UNCHANGED <<ask, sent, list, said, liked, mode>> /\ Chat!Goto(u, "query")
      BY <1>5 DEF Chat!MissHistory, Chat!redis, Chat!ghosts
    <2>2. PICK q : Becomes(u, q) /\ q.step = "query"
      BY <1>1, <2>1, Goes DEF Stage
    <2> QED
      BY <1>2, <2>1, <2>2, WholeQuiet
  <1>6. CASE Chat!StoreMessage(u)
    <2>1. UNCHANGED <<ask, sent, list, said, liked, mode>> /\ work[u].step = "store" /\ Chat!Goto(u, "push")
      BY <1>6 DEF Chat!StoreMessage, Chat!At, Chat!redis, Chat!ghosts
    <2>2. PICK q : Becomes(u, q) /\ q.step = "push" /\ q.id = work[u].id
      BY <1>1, <2>1, Goes DEF Stage
    <2> QED
      BY <1>2, <2>1, <2>2, WholeQuiet
  <1>7. CASE Chat!PushMessage(u)
    <2> DEFINE id == work[u].id
    <2>1. UNCHANGED <<ask, sent>> /\ work[u].step = "push" /\ Chat!Goto(u, "trim") /\ Chat!Push(id)
      BY <1>7 DEF Chat!PushMessage, Chat!At
    <2>2. PICK q : Becomes(u, q) /\ q.step = "trim" /\ q.id = id
      BY <1>1, <2>1, Goes DEF Stage
    <2>3. /\ \A other \in Chat!Ids : Pushed(other) => Pushed(other)'
          /\ \A v \in Speakers : work'[v].step = "set" => work[v].step = "set"
          /\ work'[u] = q /\ \A v \in Speakers \ {u} : work'[v] = work[v]
      BY <1>2, <2>1, <2>2
    <2>4. id \in Chat!Messages /\ id \in Chat!Ids /\ id \in Nat /\ id <= MaxMessages
      BY <2>1, MessagesAreIds DEF TalkTypes, Brings
    <2>5. id <= sent /\ \A v \in Speakers : v # u /\ Brings(v) => work[v].id # id
      BY <2>1 DEF HandsInv, Brings
    <2>6. PICK x \in Chat!Ids : x = id
      BY <2>4
    <2> HIDE DEF id
    <2>7. ~Pushed(x)
      BY <2>1, <2>4, <2>6 DEF Pushed, id
    <2>8. \A v \in Speakers : work'[v].step \in {"store", "push"} => work'[v].id # x
      BY <2>2, <2>3, <2>5, <2>6 DEF Brings
    <2>9. Pushed(x)'
      <3>1. x <= MaxMessages /\ MaxMessages \in Nat /\ x \in Nat /\ x <= sent'
        BY <2>1, <2>4, <2>5, <2>6, TalkConstants
      <3>2. ~(x > MaxMessages)
        BY <3>1
      <3> QED
        BY <2>8, <3>1, <3>2 DEF Pushed
    <2> QED
      BY <2>1, <2>3, <2>6, <2>7, <2>9, WholePush
  <1>8. CASE Chat!TrimMessage(u)
    <2>1. /\ UNCHANGED <<sent, said, liked, mode>> /\ Chat!Rest(u) /\ Chat!Trim /\ Brings(u)
          /\ work[u].id \in Chat!Messages /\ ask[work[u].id] = "none"
          /\ ask' = ask \/ ask' = [ask EXCEPT ![work[u].id] = "ask"]
      BY <1>8 DEF Chat!TrimMessage, Chat!At, Chat!ghosts, HandsInv, TalkTypes, Brings
    <2>2. \A m \in Chat!Messages : ask[m] \in {"trim", "release", "over"} => ask'[m] = ask[m]
      BY <1>1, <2>1 DEF TableTypes
    <2>3. Becomes(u, Chat!Resting) /\ Chat!Resting.step = "idle" /\ sent' >= sent
      BY <1>1, <2>1, Rests, RestingReader
    <2>4. \A id \in Chat!Ids : Pushed(id) => Pushed(id)'
      BY <1>1, <2>2, <2>3, ReaderPushes
    <2>5. work'[u] = Chat!Resting /\ \A v \in Speakers \ {u} : work'[v] = work[v]
      BY <1>1, <2>3, BecomesSo
    <2>6. \A v \in Speakers : work'[v].step = "set" => work[v].step = "set" /\ work'[v] = work[v]
      BY <2>3, <2>5
    <2> QED
      BY <2>1, <2>4, <2>6, WholeTrim
  <1>9. CASE Chat!SetEntry(u)
    <2>1. UNCHANGED <<ask, sent>> /\ Becomes(u, Chat!Resting) /\ Chat!Resting.step = "idle"
      BY <1>9, SetMoves, RestingReader
    <2> QED
      BY <1>2, <1>9, <2>1, WholeSet
  <1>10. CASE Chat!QueryHistory(u)
    <2>1. /\ UNCHANGED <<ask, sent, list>> /\ work[u].step = "query" /\ mode' \in {mode, "broken"}
          /\ mode' = "whole" => UNCHANGED <<said, liked>>
      BY <1>10, QueryMoves
    <2>2. PICK q : Becomes(u, q) /\ q.step \in {"idle", "warm"}
      BY <1>10, QueryMoves
    <2>3. mode' = "whole" => mode = "whole" /\ UNCHANGED <<list, said, liked>>
      BY <2>1
    <2> QED
      BY <1>2, <2>1, <2>2, <2>3, WholeQuiet
  <1>11. CASE Chat!WarmHistory(u)
    <2>1. mode' # "whole"
      BY <1>11, WarmMoves
    <2> QED
      BY <2>1 DEF WholeInv
  <1>12. CASE Chat!WarmEnds(u)
    <2>1. /\ UNCHANGED <<ask, sent>> /\ Chat!Rest(u) /\ Chat!Trim
          /\ Chat!Judge(IF mode = "lost" THEN "warmed" ELSE mode, said, liked)
      BY <1>12 DEF Chat!WarmEnds
    <2>2. Becomes(u, Chat!Resting) /\ Chat!Resting.step = "idle"
      BY <2>1, Rests, RestingReader
    <2>3. mode' = "whole" => mode = "whole" /\ UNCHANGED <<said, liked>>
      BY <2>1 DEF Chat!Judge
    <2> QED
      BY <1>2, <2>1, <2>2, <2>3, WholeTrim
  <1> QED
    BY <1>3, <1>4, <1>5, <1>6, <1>7, <1>8, <1>9, <1>10, <1>11, <1>12 DEF Chat!Read

LEMMA AskWhole ==
  ASSUME TalkTypes, HandsInv, WholeInv, NEW m \in Chat!Messages, Chat!Ask(m)
  PROVE  WholeInv'
  <1>1. /\ ask \in [Chat!Messages -> Asking] /\ sent \in Nat /\ TalkTypes'
        /\ UNCHANGED <<work, sent>>
    BY TypesAre, AskTypes, TalkConstants
    DEF TableTypes, Chat!Ask, Chat!TakeLock, Chat!Answer, Chat!PushAnswer, Chat!TrimAnswer, Chat!Release
  <1>2. \E s \in Asking : /\ ask' = [ask EXCEPT ![m] = s]
                          /\ ask[m] \in {"trim", "release", "over"} => s \in {"trim", "release", "over"}
    BY DEF Chat!Ask, Chat!TakeLock, Chat!Answer, Chat!PushAnswer, Chat!TrimAnswer, Chat!Release, Asking
  <1>3. \A n \in Chat!Messages : ask[n] \in {"trim", "release", "over"} => ask'[n] \in {"trim", "release", "over"}
    BY <1>1, <1>2
  <1>4. sent' >= sent
    BY <1>1
  <1>5. \A id \in Chat!Ids : Pushed(id) => Pushed(id)'
    BY <1>1, <1>3, <1>4, WhatIsPushedStays
  <1>6. CASE Chat!PushAnswer(m)
    <2> DEFINE id == Chat!AnswerTo(m)
    <2>1. id \in Chat!Ids /\ id > MaxMessages /\ \A n \in Chat!Messages : Chat!AnswerTo(n) = id => n = m
      BY MessagesAreIds
    <2>2. Chat!Push(id) /\ ask[m] = "push" /\ ask'[m] = "trim"
      BY <1>1, <1>6 DEF Chat!PushAnswer
    <2>3. PICK x \in Chat!Ids : x = id
      BY <2>1
    <2> HIDE DEF id
    <2>4. ~Pushed(x)
      BY <2>1, <2>2, <2>3 DEF Pushed, id
    <2>5. Pushed(x)'
      <3>1. ~(x <= MaxMessages)
        BY <2>1, <2>3, TalkConstants DEF Chat!Ids
      <3>2. \A n \in Chat!Messages : Chat!AnswerTo(n) = x => ask'[n] = "trim"
        BY <2>1, <2>2, <2>3
      <3> QED
        BY <3>1, <3>2 DEF Pushed
    <2> QED
      BY <1>1, <1>5, <2>2, <2>3, <2>4, <2>5, WholePush
  <1>7. CASE Chat!TrimAnswer(m)
    <2>1. Chat!Trim /\ UNCHANGED <<said, liked, mode>>
      BY <1>7 DEF Chat!TrimAnswer, Chat!ghosts
    <2> QED
      BY <1>1, <1>5, <2>1, WholeTrim
  <1>8. CASE Chat!TakeLock(m) \/ Chat!Answer(m) \/ Chat!Release(m)
    <2>1. UNCHANGED <<list, said, liked, mode>>
      BY <1>8 DEF Chat!TakeLock, Chat!Answer, Chat!Release, Chat!redis, Chat!ghosts
    <2> QED
      BY <1>1, <1>5, <2>1, WholeQuiet
  <1> QED
    BY <1>6, <1>7, <1>8 DEF Chat!Ask

LEMMA TalkWhole ==
  ASSUME TalkTypes, HandsInv, WholeInv, [Chat!Next]_(Chat!vars)
  PROVE  WholeInv'
  <1>1. sent \in Nat /\ TalkTypes'
    BY TypesAre, TalkTypesStep, TalkConstants DEF TableTypes
  <1>2. CASE UNCHANGED Chat!vars \/ Chat!LockExpires
    <2>1. UNCHANGED <<work, ask, sent, list, said, liked, mode>>
      BY <1>2 DEF Chat!vars, Chat!redis, Chat!ghosts, Chat!LockExpires
    <2>2. \A id \in Chat!Ids : Pushed(id) => Pushed(id)'
      BY <2>1 DEF Pushed
    <2> QED
      BY <2>1, <2>2, WholeQuiet
  <1>3. CASE Chat!RedisRestarts
    <2>1. mode' # "whole"
      BY <1>3 DEF Chat!RedisRestarts, Chat!Judge
    <2> QED
      BY <2>1 DEF WholeInv
  <1>4. CASE Chat!Crash
    <2>1. /\ work' = [u \in Speakers |-> Chat!Resting] /\ UNCHANGED <<list, sent>>
          /\ ask' = [m \in Chat!Messages |-> IF ask[m] = "none" THEN "none" ELSE "over"]
          /\ mode' = "whole" => mode = "whole" /\ UNCHANGED <<said, liked>>
      BY <1>4 DEF Chat!Crash, Chat!redis, Chat!Judge
    <2>2. \A u \in Speakers : work'[u].step = "idle"
      BY <2>1, RestingReader
    <2>3. sent' >= sent
      BY <1>1, <2>1
    <2>4. \A m \in Chat!Messages : ask[m] \in {"trim", "release", "over"} => ask'[m] \in {"trim", "release", "over"}
      BY <2>1
    <2>5. \A id \in Chat!Ids : Pushed(id) => Pushed(id)'
      BY <1>1, <2>2, <2>3, <2>4, WhatIsPushedStays
    <2> QED
      BY <2>1, <2>2, <2>5, WholeQuiet
  <1> QED
    BY <1>2, <1>3, <1>4, ReaderWhole, AskWhole DEF Chat!Next

-----------------------------------------------------------------------------
(* All of it.                                                              *)

TalkInv == TalkTypes /\ HandsInv /\ LockInv /\ WholeInv

LEMMA TalkStarts == ASSUME Chat!Init PROVE TalkInv
  <1>1. TalkTypes
    BY TalkTypesStart
  <1>2. /\ \A u \in Speakers : work[u].step = "idle"
        /\ \A m \in Chat!Messages : ask[m] = "none"
        /\ list = <<>> /\ said = <<>> /\ liked = {}
    BY RestingReader DEF Chat!Init
  <1>3. HandsInv /\ LockInv
    <2>1. HandsInv
      BY <1>2 DEF HandsInv, Brings
    <2>2. Chat!Answering = {}
      BY <1>2 DEF Chat!Answering
    <2> QED
      BY <2>1, <2>2 DEF LockInv
  <1>4. Len(list) = 0 /\ Len(said) = 0 /\ Size = 0
    BY <1>2, TalkConstants DEF Size
  <1>5. WholeInv
    BY <1>2, <1>4 DEF WholeInv, Once, Recent, Liked, Clicking
  <1> QED
    BY <1>1, <1>3, <1>5 DEF TalkInv

LEMMA TalkGoesOn == ASSUME TalkInv, [Chat!Next]_(Chat!vars) PROVE TalkInv'
  BY TalkTypesStep, TalkHands, TalkLock, TalkWhole DEF TalkInv

LEMMA TalkMeans ==
  ASSUME TalkInv
  PROVE  Chat!TypeOK /\ Chat!HistoryIsRecent /\ Chat!ReactionsAreKept /\ Chat!OneAnswerAtATime
  <1>1. Chat!TypeOK
    BY DEF TalkInv, TalkTypes
  <1>2. Chat!OneAnswerAtATime
    BY DEF TalkInv, LockInv, Chat!OneAnswerAtATime
  <1>3. Chat!ReactionsAreKept
    BY DEF TalkInv, WholeInv, Liked, Chat!ReactionsAreKept
  <1>4. ASSUME mode = "whole" PROVE Chat!Shown = said
    <2>1. /\ Len(said) = Size /\ \A i \in 1..Size : said[i] = list[Size + 1 - i].id
          /\ list \in Seq(Chat!Entries) /\ Len(list) \in Nat /\ said \in Seq(Chat!Ids)
          /\ Kept \in Nat /\ Size \in Nat
      BY <1>4, ListTypes DEF TalkInv, WholeInv, Recent
    <2>2. {j \in 1..Len(list) : j <= Kept} = 1..Size
      BY <2>1 DEF Size
    <2> DEFINE newest == [i \in 1..Size |-> list[i].id]
    <2>3. Chat!Shown = Chat!Reverse(newest)
      BY <2>2 DEF Chat!Shown
    <2>4. Len(newest) = Size /\ \A i \in 1..Size : newest[i] = list[i].id
      BY <2>1
    <2> HIDE DEF newest
    <2>5. Chat!Reverse(newest) = [i \in 1..Size |-> newest[(Size - i) + 1]]
      BY <2>4 DEF Chat!Reverse
    <2>6. \A i \in 1..Size : (Size - i) + 1 \in 1..Size /\ (Size - i) + 1 = Size + 1 - i
      BY <2>1
    <2>7. Chat!Shown = [i \in 1..Size |-> said[i]]
      BY <2>1, <2>3, <2>4, <2>5, <2>6
    <2> QED
      BY <2>1, <2>7
  <1> QED
    BY <1>1, <1>2, <1>3, <1>4 DEF Chat!HistoryIsRecent

-----------------------------------------------------------------------------
(* The types of the room's tables and of its requests.                     *)

RoomRequest ==
    {q \in [step : Steps, user : Users \cup {Nobody}, arg : Users \cup Docs \cup {Nobody}] :
        /\ q.step # "idle" => q.user \in Users
        /\ q.step \in {"promote", "name"} => q.arg \in Users}

RequestTypes == req \in [Handlers -> RoomRequest] /\ spent \in Nat /\ overlapped \in BOOLEAN /\ failed \in BOOLEAN

RowTypes ==
    /\ status \in {"none", "active", "closed"} /\ host_id \in Users \cup {Nobody}
    /\ row \in [Users -> {"none", "in", "left"}] /\ is_host \subseteq Users /\ elder \subseteq Users \X Users
    /\ doc \in [Docs -> {"none", "library", "room"}] /\ linked_by \in [Docs -> Users \cup {Nobody}]

LEMMA TypesMean ==
  ASSUME RequestTypes, RowTypes PROVE TypeOK
  <1>1. \A h \in Handlers : req[h] \in [step : Steps, user : Users \cup {Nobody}, arg : Users \cup Docs \cup {Nobody}]
    BY DEF RequestTypes, RoomRequest
  <1>2. req = [h \in Handlers |-> req[h]]
    BY DEF RequestTypes
  <1>3. req \in [Handlers -> [step : Steps, user : Users \cup {Nobody}, arg : Users \cup Docs \cup {Nobody}]]
    BY <1>1, <1>2
  <1> QED
    BY <1>3 DEF RequestTypes, RowTypes, TypeOK

LEMMA AtRequest ==
  ASSUME RequestTypes, NEW h \in Handlers
  PROVE  /\ req[h].step \in Steps /\ req[h].arg \in Users \cup Docs \cup {Nobody}
         /\ req[h].step # "idle" => req[h].user \in Users
         /\ req[h].step \in {"promote", "name"} => req[h].arg \in Users
  BY DEF RequestTypes, RoomRequest

LEMMA Requested ==
  ASSUME RequestTypes, NEW h \in Handlers, NEW q \in RoomRequest, req' = [req EXCEPT ![h] = q],
         spent' \in Nat, overlapped' \in BOOLEAN, failed' \in BOOLEAN
  PROVE  RequestTypes'
  BY DEF RequestTypes

LEMMA StartIsTyped ==
  ASSUME RequestTypes, NEW h \in Handlers, NEW s \in Steps, NEW u \in Users, NEW a \in Users \cup Docs \cup {Nobody},
         s \notin {"promote", "name"}, Start(h, s, u, a), UNCHANGED failed
  PROVE  RequestTypes'
  <1>1. [step |-> s, user |-> u, arg |-> a] \in RoomRequest
    BY DEF RoomRequest
  <1>2. spent' \in Nat /\ overlapped' \in BOOLEAN /\ failed' \in BOOLEAN
    BY DEF Start, RequestTypes
  <1> QED
    BY <1>1, <1>2, Requested DEF Start

LEMMA GotoIsTyped ==
  ASSUME RequestTypes, NEW h \in Handlers, NEW s \in Steps, NEW a \in Users \cup Docs \cup {Nobody},
         s \in {"promote", "name"} => a \in Users, req[h].step # "idle", Goto(h, s, a),
         UNCHANGED history, failed' \in BOOLEAN
  PROVE  RequestTypes'
  <1>1. [step |-> s, user |-> req[h].user, arg |-> a] \in RoomRequest
    BY AtRequest DEF RoomRequest
  <1>2. spent' \in Nat /\ overlapped' \in BOOLEAN
    BY DEF history, RequestTypes
  <1> QED
    BY <1>1, <1>2, Requested DEF Goto

LEMMA DoneIsTyped ==
  ASSUME RequestTypes, NEW h \in Handlers, Done(h), UNCHANGED history, failed' \in BOOLEAN
  PROVE  RequestTypes'
  <1>1. Idle \in RoomRequest
    BY DEF Idle, RoomRequest, Steps
  <1>2. spent' \in Nat /\ overlapped' \in BOOLEAN
    BY DEF history, RequestTypes
  <1> QED
    BY <1>1, <1>2, Requested DEF Done

LEMMA YoungestIsTyped ==
  ASSUME RowTypes, NEW u \in Users PROVE Youngest(u) \subseteq Users \X Users
  BY DEF RowTypes, Youngest

LEMMA RequestIsTyped ==
  ASSUME RequestTypes, RowTypes, NEW h \in Handlers, Request(h)
  PROVE  RequestTypes' /\ RowTypes'
  <1>1. PICK u \in Users :
           \/ CreateRoom(h, u) \/ JoinRoom(h, u) \/ LeaveRoom(h, u) \/ CloseRoom(h, u)
           \/ \E v \in Users : KickMember(h, u, v)
           \/ \E d \in Docs : LinkDocToRoom(h, u, d) \/ UploadToRoom(h, u, d) \/ UnlinkDocFromRoom(h, u, d)
    BY DEF Request
  <1>2. \E s \in Steps, a \in Users \cup Docs \cup {Nobody} :
           s \notin {"promote", "name"} /\ Start(h, s, u, a) /\ UNCHANGED failed
    BY <1>1 DEF CreateRoom, JoinRoom, LeaveRoom, CloseRoom, KickMember, LinkDocToRoom, UploadToRoom,
                UnlinkDocFromRoom, Steps
  <1>3. RowTypes'
    BY <1>1 DEF CreateRoom, JoinRoom, LeaveRoom, CloseRoom, KickMember, LinkDocToRoom, UploadToRoom,
                UnlinkDocFromRoom, RowTypes, room, members, docs
  <1> QED
    BY <1>2, <1>3, StartIsTyped

LEMMA MembershipIsTyped ==
  ASSUME RequestTypes, RowTypes, NEW h \in Handlers,
         \/ SeatHost(h) \/ JoinCounts(h) \/ JoinLooks(h) \/ JoinWrites(h)
         \/ LeaveWrites(h) \/ TransferPicks(h) \/ EndRoom(h) \/ Promote(h) \/ NameHost(h)
         \/ CloseWrites(h) \/ KickWrites(h)
  PROVE  RequestTypes' /\ RowTypes'
  <1>1. UNCHANGED <<history, failed>> /\ failed' \in BOOLEAN /\ req[h].step # "idle"
    BY DEF SeatHost, JoinCounts, JoinLooks, JoinWrites, LeaveWrites, TransferPicks, EndRoom, Promote, NameHost,
           CloseWrites, KickWrites, At, RequestTypes
  <1>2. req[h].user \in Users
    BY <1>1, AtRequest
  <1>3. \A s \in {"look", "rejoin", "join", "transfer", "end"} : Goto(h, s, Nobody) => RequestTypes'
    <2> SUFFICES ASSUME NEW s \in {"look", "rejoin", "join", "transfer", "end"}, Goto(h, s, Nobody)
                 PROVE  RequestTypes'
      OBVIOUS
    <2>1. s \in Steps /\ s \notin {"promote", "name"}
      BY DEF Steps
    <2> QED
      BY <1>1, <2>1, GotoIsTyped
  <1>4. \A v \in Users, s \in {"promote", "name"} : Goto(h, s, v) => RequestTypes'
    BY <1>1, GotoIsTyped DEF Steps
  <1>5. Done(h) => RequestTypes'
    BY <1>1, DoneIsTyped
  <1>6. CASE SeatHost(h)
    BY <1>2, <1>5, <1>6, YoungestIsTyped DEF SeatHost, RowTypes, room, docs
  <1>7. CASE JoinCounts(h) \/ JoinLooks(h)
    BY <1>3, <1>5, <1>7 DEF JoinCounts, JoinLooks, RowTypes, room, members, docs
  <1>8. CASE JoinWrites(h)
    <2>1. RequestTypes'
      BY <1>5, <1>8 DEF JoinWrites
    <2>2. CASE UNCHANGED members
      BY <1>8, <2>1, <2>2 DEF JoinWrites, RowTypes, room, members, docs
    <2>3. CASE ~UNCHANGED members
      <3>1. row' = [row EXCEPT ![req[h].user] = "in"] /\ elder' = Youngest(req[h].user)
            /\ UNCHANGED is_host /\ UNCHANGED <<room, docs>>
        BY <1>8, <2>3 DEF JoinWrites
      <3> QED
        BY <1>2, <2>1, <3>1, YoungestIsTyped DEF RowTypes, room, docs
    <2> QED
      BY <2>2, <2>3
  <1>9. CASE LeaveWrites(h)
    BY <1>3, <1>5, <1>9 DEF LeaveWrites, Unseat, RowTypes, room, docs
  <1>10. CASE TransferPicks(h)
    <2>1. RowTypes'
      BY <1>10 DEF TransferPicks, RowTypes, room, members, docs
    <2>2. Eldest(Heirs(req[h].user)) \subseteq Users
      BY DEF Eldest, Heirs, In
    <2> QED
      BY <1>3, <1>4, <1>10, <2>1, <2>2 DEF TransferPicks
  <1>11. CASE EndRoom(h) \/ CloseWrites(h)
    BY <1>5, <1>11 DEF EndRoom, CloseWrites, RowTypes, members, docs
  <1>12. CASE Promote(h)
    <2>1. req[h].arg \in Users
      BY <1>12, AtRequest DEF Promote, At
    <2> QED
      BY <1>4, <1>12, <2>1 DEF Promote, RowTypes, room, docs
  <1>13. CASE NameHost(h)
    <2>1. req[h].arg \in Users
      BY <1>13, AtRequest DEF NameHost, At
    <2> QED
      BY <1>5, <1>13, <2>1 DEF NameHost, RowTypes, members, docs
  <1>14. CASE KickWrites(h)
    <2>1. RequestTypes' /\ UNCHANGED <<room, is_host, elder, docs>>
          /\ row' = [row EXCEPT ![req[h].arg] = IF @ = "in" THEN "left" ELSE @]
      BY <1>5, <1>14 DEF KickWrites
    <2>2. row' \in [Users -> {"none", "in", "left"}]
      BY <2>1 DEF RowTypes
    <2> QED
      BY <2>1, <2>2 DEF RowTypes, room, docs
  <1> QED
    BY <1>6, <1>7, <1>8, <1>9, <1>10, <1>11, <1>12, <1>13, <1>14

LEMMA DocumentIsTyped ==
  ASSUME RequestTypes, RowTypes, NEW h \in Handlers,
         CountDocs(h) \/ LinkWrites(h) \/ UploadWrites(h) \/ UnlinkWrites(h)
  PROVE  RequestTypes' /\ RowTypes'
  <1>1. UNCHANGED <<history, failed, room, members>> /\ failed' \in BOOLEAN /\ req[h].step # "idle"
    BY DEF CountDocs, LinkWrites, UploadWrites, UnlinkWrites, At, RequestTypes
  <1>2. req[h].user \in Users /\ req[h].arg \in Users \cup Docs \cup {Nobody}
    BY <1>1, AtRequest
  <1>3. RequestTypes'
    <2>1. CASE Done(h)
      BY <1>1, <2>1, DoneIsTyped
    <2>2. CASE ~Done(h)
      <3>1. \E s \in {"link", "upload", "link quota"} : Goto(h, s, req[h].arg)
        BY <2>2 DEF CountDocs, LinkWrites, UploadWrites, UnlinkWrites
      <3> QED
        BY <1>1, <1>2, <3>1, GotoIsTyped DEF Steps
    <2> QED
      BY <2>1, <2>2
  <1>4. doc' \in [Docs -> {"none", "library", "room"}]
    BY DEF CountDocs, LinkWrites, UploadWrites, UnlinkWrites, RowTypes, docs
  <1>5. linked_by' \in [Docs -> Users \cup {Nobody}]
    BY <1>2 DEF CountDocs, LinkWrites, UploadWrites, UnlinkWrites, RowTypes, docs
  <1> QED
    BY <1>1, <1>3, <1>4, <1>5 DEF RowTypes, room, members

LEMMA FailureIsTyped ==
  ASSUME RequestTypes, RowTypes, NEW h \in Handlers, Stops(h) \/ ErrorIsIgnored(h)
  PROVE  RequestTypes' /\ RowTypes'
  <1>1. UNCHANGED <<room, members, docs, history>> /\ failed' \in BOOLEAN
    BY DEF Stops, ErrorIsIgnored
  <1>2. RowTypes'
    BY <1>1 DEF RowTypes, room, members, docs
  <1>3. CASE Stops(h)
    BY <1>1, <1>2, <1>3, DoneIsTyped DEF Stops
  <1>4. CASE ErrorIsIgnored(h)
    <2>1. req[h].step # "idle" /\ req[h].arg \in Users \cup Docs \cup {Nobody}
      BY <1>4, AtRequest DEF ErrorIsIgnored, At
    <2>2. \E s \in {"look", "join", "transfer", "end", "name", "link"}, a \in {Nobody, req[h].arg} :
             Goto(h, s, a) /\ (s = "name" => a \in Users)
      BY <1>4, AtRequest DEF ErrorIsIgnored, At
    <2>3. PICK s \in {"look", "join", "transfer", "end", "name", "link"}, a \in {Nobody, req[h].arg} :
             Goto(h, s, a) /\ (s = "name" => a \in Users)
      BY <2>2
    <2>4. s \in Steps /\ s # "promote" /\ a \in Users \cup Docs \cup {Nobody}
      BY <2>1 DEF Steps
    <2> QED
      BY <1>1, <1>2, <2>1, <2>3, <2>4, GotoIsTyped
  <1> QED
    BY <1>3, <1>4

LEMMA MembersTyped ==
  ASSUME RequestTypes, RowTypes, [Next]_vars
  PROVE  RequestTypes' /\ RowTypes'
  <1>1. CASE UNCHANGED vars
    BY <1>1 DEF vars, room, members, docs, history, RequestTypes, RowTypes
  <1>2. CASE \E d \in Docs : UploadElsewhere(d) \/ DocumentGoes(d)
    <2>1. PICK d \in Docs : UploadElsewhere(d) \/ DocumentGoes(d)
      BY <1>2
    <2>2. UNCHANGED <<room, members, req, history, failed>>
      BY <2>1 DEF UploadElsewhere, DocumentGoes
    <2>3. doc' \in [Docs -> {"none", "library", "room"}] /\ linked_by' \in [Docs -> Users \cup {Nobody}]
      BY <2>1 DEF UploadElsewhere, DocumentGoes, RowTypes
    <2> QED
      BY <2>2, <2>3 DEF room, members, history, RequestTypes, RowTypes
  <1> QED
    BY <1>1, <1>2, RequestIsTyped, MembershipIsTyped, DocumentIsTyped, FailureIsTyped DEF Next, Continue

LEMMA MembersStart == ASSUME Init PROVE RequestTypes /\ RowTypes
  <1>1. Idle \in RoomRequest
    BY DEF Idle, RoomRequest, Steps
  <1> QED
    BY <1>1 DEF Init, RequestTypes, RowTypes

-----------------------------------------------------------------------------
(* The room with its talk.                                                 *)

RoomsInv == RequestTypes /\ RowTypes /\ (side = "talk" => TalkInv)

LEMMA RoomsStart == ASSUME RoomsInit PROVE RoomsInv
  BY MembersStart, TalkStarts DEF RoomsInit, RoomsInv

LEMMA RoomsStep == ASSUME RoomsInv, [RoomsNext]_roomsVars PROVE RoomsInv'
  <1>1. CASE side = "talk"
    <2>1. side' = side /\ UNCHANGED vars /\ [Chat!Next]_(Chat!vars)
      BY <1>1 DEF RoomsNext, roomsVars, talk, Chat!vars, Chat!redis, Chat!ghosts
    <2> QED
      BY <1>1, <2>1, MembersTyped, TalkGoesOn DEF RoomsInv
  <1>2. CASE side # "talk"
    <2>1. side' = side /\ [Next]_vars
      BY <1>2 DEF RoomsNext, roomsVars
    <2> QED
      BY <1>2, <2>1, MembersTyped DEF RoomsInv
  <1> QED
    BY <1>1, <1>2

LEMMA SpecKeepsRooms == RoomsSpec => []RoomsInv
  BY RoomsStart, RoomsStep, PTL DEF RoomsSpec

(* The state of a room and of its talk has its type, for any users,        *)
(* documents, messages and bounds.                                         *)
THEOREM RoomsTypeCorrect == RoomsSpec => []Typed
  <1>1. RoomsInv => Typed
    BY TypesMean, TalkMeans DEF RoomsInv, Typed
  <1> QED
    BY <1>1, SpecKeepsRooms, PTL

(* What a member sees of the talk after a reload is what was said, newest  *)
(* to the last that is kept and in order, with the reactions as they were  *)
(* given and taken back, and one question is answered at a time, but for   *)
(* the races that are named (handleRoomIncomingMessage, handleRoomAI).     *)
THEOREM TalkIsAlwaysKept == RoomsSpec => []TalkIsKept
  <1>1. RoomsInv => TalkIsKept
    BY TalkMeans DEF RoomsInv, TalkIsKept
  <1> QED
    BY <1>1, SpecKeepsRooms, PTL

-----------------------------------------------------------------------------
(* The hub of the room.  A client waits to be registered at most once and  *)
(* never after it was there: a channel that is closed is that of a client  *)
(* which has been removed, and nothing brings one back.                    *)

Waits(c) == \E i \in 1..Len(regQ) : regQ[i] = c

(* Nobody waits twice, nor waits that is or was a member; who has not come *)
(* yet does none of it.                                                    *)
WaitsOnce == \A i, j \in 1..Len(regQ) : regQ[i] = regQ[j] => i = j
WaitersAreNew == \A c \in Clients : Waits(c) => c \notin present /\ c \notin closed
StrangersAreOut ==
    \A c \in Clients : pc[c] = "none" => ~Waits(c) /\ c \notin present /\ c \notin closed

QueueOK == WaitsOnce /\ WaitersAreNew /\ StrangersAreOut

HubInv == HubTypeOK /\ QueueOK /\ MembersAreOpen /\ CountdownMeansAbsent

-----------------------------------------------------------------------------

LEMMA HubInitOK == HubInit => HubInv
  <1> SUFFICES ASSUME HubInit PROVE HubInv
    OBVIOUS
  <1>1. HubTypeOK
    BY CapAssumption DEF HubInit, HubTypeOK
  <1>2. QueueOK /\ MembersAreOpen /\ CountdownMeansAbsent
    BY DEF HubInit, QueueOK, WaitsOnce, WaitersAreNew, StrangersAreOut, Waits, MembersAreOpen,
       CountdownMeansAbsent
  <1> QED
    BY <1>1, <1>2 DEF HubInv

(* No buffer is filled beyond its capacity.                                *)
LEMMA BroadcastType ==
  ASSUME HubTypeOK, NEW receivers \in SUBSET present, Broadcast(receivers)
  PROVE  buffered' \in [Clients -> 0..SendCap] /\ asking' \subseteq Clients
  <1> DEFINE full == {c \in receivers : buffered[c] = SendCap}
             heard == {c \in receivers \ full : pc[c] # "done"}
  <1>1. /\ buffered' = [c \in Clients |-> buffered[c] + IF c \in heard THEN 1 ELSE 0]
        /\ asking' = asking \cup (full \ once)
    BY DEF Broadcast
  <1>2. full \subseteq Clients
    BY DEF HubTypeOK
  <1>3. ASSUME NEW c \in Clients
        PROVE  buffered[c] + (IF c \in heard THEN 1 ELSE 0) \in 0..SendCap
    <2>1. buffered[c] \in 0..SendCap /\ SendCap \in Nat
      BY CapAssumption DEF HubTypeOK
    <2>2. c \in heard => buffered[c] # SendCap
      OBVIOUS
    <2> QED
      BY <2>1, <2>2
  <1> QED
    BY <1>1, <1>2, <1>3 DEF HubTypeOK

(* Where neither the queue nor the room changes, and nobody comes.         *)
LEMMA QuietKeeps ==
  ASSUME HubInv, UNCHANGED <<regQ, present, closed>>, HubTypeOK',
         \A u \in HubUsers : timers'[u] = NoClient \/ timers'[u] = timers[u],
         \A c \in Clients : pc'[c] = "none" => pc[c] = "none"
  PROVE  HubInv'
  <1>1. QueueOK'
    BY DEF HubInv, QueueOK, WaitsOnce, WaitersAreNew, StrangersAreOut, Waits
  <1>2. MembersAreOpen' /\ CountdownMeansAbsent'
    BY DEF HubInv, MembersAreOpen, CountdownMeansAbsent, Sockets
  <1> QED
    BY <1>1, <1>2 DEF HubInv

LEMMA HandlerKeeps ==
  ASSUME HubInv, NEW c \in Clients,
         \/ SendHistory(c) \/ HistoryPanics(c) \/ AnnounceOnline(c) \/ SocketEnds(c)
         \/ Write(c) \/ WriteEnds(c) \/ WriteBlocks(c) \/ WriteResumes(c)
  PROVE  HubInv'
  <1>0. HubTypeOK /\ UserOf[c] \in HubUsers /\ SendCap \in Nat
    BY UserOfAssumption, CapAssumption DEF HubInv
  <1>1. /\ UNCHANGED <<regQ, unregQ, present, closed, once, timer, timers>>
        /\ pc[c] # "none"
    BY DEF SendHistory, HistoryPanics, AnnounceOnline, SocketEnds, Write, WriteEnds,
       WriteBlocks, WriteResumes, chans, hub
  <1>2. /\ pc' \in [Clients -> {"none", "history", "announce", "read", "stuck", "cut",
                         "done", "panicked"}]
        /\ \A d \in Clients : pc'[d] = "none" => pc[d] = "none"
    BY <1>0, <1>1
    DEF SendHistory, HistoryPanics, AnnounceOnline, SocketEnds, Write, WriteEnds,
        WriteBlocks, WriteResumes, HubTypeOK
  <1>3. buffered' \in [Clients -> 0..SendCap] /\ asking' \subseteq Clients
    <2>1. CASE SendHistory(c)
      <3>1. buffered \in [Clients -> 0..SendCap] /\ asking \subseteq Clients
        BY <1>0 DEF HubTypeOK
      <3>2. \/ UNCHANGED buffered
            \/ buffered' = [buffered EXCEPT ![c] = IF @ < SendCap THEN @ + 1 ELSE @]
        BY <2>1 DEF SendHistory
      <3>3. buffered[c] < SendCap => buffered[c] + 1 \in 0..SendCap
        BY <1>0, <3>1
      <3>4. UNCHANGED asking
        BY <2>1 DEF SendHistory, chans
      <3> QED
        BY <3>1, <3>2, <3>3, <3>4
    <2>2. CASE HistoryPanics(c) \/ SocketEnds(c) \/ WriteEnds(c) \/ WriteResumes(c)
      BY <1>0, <2>2 DEF HistoryPanics, SocketEnds, WriteEnds, WriteResumes, HubTypeOK, chans
    <2>3. CASE AnnounceOnline(c)
      BY <1>0, <2>3, BroadcastType DEF AnnounceOnline
    <2>4. CASE Write(c)
      BY <1>0, <2>4 DEF Write, HubTypeOK, chans
    <2>5. CASE WriteBlocks(c)
      BY <1>0, <2>5 DEF WriteBlocks, HubTypeOK, chans
    <2> QED
      BY <2>1, <2>2, <2>3, <2>4, <2>5
  <1>4. shown' \in [HubUsers -> {"online", "offline"}]
    BY <1>0
    DEF SendHistory, HistoryPanics, AnnounceOnline, SocketEnds, Write, WriteEnds,
        WriteBlocks, WriteResumes, HubTypeOK
  <1>5. HubTypeOK'
    BY <1>0, <1>1, <1>2, <1>3, <1>4 DEF HubTypeOK
  <1> QED
    BY <1>1, <1>2, <1>5, QuietKeeps

(* What is said in the room.                                               *)
LEMMA SpeakingKeeps ==
  ASSUME HubInv, RoomSpeaks \/ \E c \in Clients : ReadMessage(c)
  PROVE  HubInv'
  <1>1. UNCHANGED <<pc, regQ, unregQ, once, present, closed, timer, timers, shown>>
    BY DEF RoomSpeaks, ReadMessage, hub
  <1>2. PICK receivers \in SUBSET present : Broadcast(receivers)
    BY DEF RoomSpeaks, ReadMessage
  <1>3. HubTypeOK'
    BY <1>1, <1>2, BroadcastType DEF HubInv, HubTypeOK
  <1> QED
    BY <1>1, <1>3, QuietKeeps

LEMMA LeavingKeeps ==
  ASSUME HubInv, NEW c \in Clients, Leave(c) \/ DropSlow(c)
  PROVE  HubInv'
  <1>1. UNCHANGED <<regQ, present, closed, timer, timers, shown>>
    BY DEF Leave, DropSlow, hub
  <1>2. /\ unregQ' \in Seq(Clients) /\ Len(unregQ') <= QueueCap
        /\ once' \subseteq Clients /\ asking' \subseteq Clients
    <2>1. RequestUnregister(c) /\ unregQ \in Seq(Clients) /\ Len(unregQ) <= QueueCap
          /\ once \subseteq Clients /\ asking \subseteq Clients /\ QueueCap \in Nat
      BY CapAssumption DEF Leave, DropSlow, HubInv, HubTypeOK
    <2>2. CASE c \in once
      BY <2>1, <2>2 DEF RequestUnregister
    <2>3. CASE c \notin once
      BY <2>1, <2>3 DEF RequestUnregister
    <2> QED
      BY <2>2, <2>3
  <1>3. /\ pc' \in [Clients -> {"none", "history", "announce", "read", "stuck", "cut",
                         "done", "panicked"}]
        /\ \A d \in Clients : pc'[d] = "none" => pc[d] = "none"
        /\ buffered' \in [Clients -> 0..SendCap]
    <2>1. HubTypeOK /\ SendCap \in Nat
      BY CapAssumption DEF HubInv
    <2>2. CASE Leave(c)
      BY <2>1, <2>2 DEF Leave, HubTypeOK
    <2>3. CASE DropSlow(c)
      BY <2>1, <2>3 DEF DropSlow, HubTypeOK
    <2> QED
      BY <2>2, <2>3
  <1>4. HubTypeOK'
    BY <1>1, <1>2, <1>3 DEF HubInv, HubTypeOK
  <1> QED
    BY <1>1, <1>3, <1>4, QuietKeeps

LEMMA TimerKeeps ==
  ASSUME HubInv, NEW t \in Clients, Timer(t)
  PROVE  HubInv'
  <1>0. HubTypeOK /\ UserOf[t] \in HubUsers
    BY UserOfAssumption DEF HubInv
  <1>1. UNCHANGED <<pc, regQ, unregQ, once, present, closed>>
    BY DEF Timer, TimerFires, TimerForgets, TimerTells, chans
  <1>2. /\ timer' \in [Clients -> {"none", "armed", "fired", "telling", "done"}]
        /\ timers' \in [HubUsers -> Clients \cup {NoClient}]
        /\ shown' \in [HubUsers -> {"online", "offline"}]
        /\ \A u \in HubUsers : timers'[u] = NoClient \/ timers'[u] = timers[u]
    BY <1>0 DEF Timer, TimerFires, TimerForgets, TimerTells, HubTypeOK
  <1>3. buffered' \in [Clients -> 0..SendCap] /\ asking' \subseteq Clients
    <2>1. CASE TimerFires(t) \/ TimerForgets(t)
      BY <1>0, <2>1 DEF TimerFires, TimerForgets, HubTypeOK, chans
    <2>2. CASE TimerTells(t)
      BY <1>0, <2>2, BroadcastType DEF TimerTells
    <2> QED
      BY <2>1, <2>2 DEF Timer
  <1>4. HubTypeOK'
    BY <1>0, <1>1, <1>2, <1>3 DEF HubTypeOK
  <1> QED
    BY <1>1, <1>2, <1>4, QuietKeeps

-----------------------------------------------------------------------------
(* A client comes, waits, is registered and is removed.                    *)

LEMMA ConnectKeeps ==
  ASSUME HubInv, NEW c \in Clients, Connect(c)
  PROVE  HubInv'
  <1>1. /\ UNCHANGED <<unregQ, once, asking, present, closed, timer, timers, buffered, shown>>
        /\ pc[c] = "none" /\ Len(regQ) < QueueCap
        /\ regQ' = Append(regQ, c) /\ pc' = [pc EXCEPT ![c] = "history"]
    BY DEF Connect, hub
  <1>2. regQ \in Seq(Clients) /\ QueueCap \in Nat
    BY CapAssumption DEF HubInv, HubTypeOK
  <1>3. /\ regQ' \in Seq(Clients) /\ Len(regQ') = Len(regQ) + 1 /\ Len(regQ) \in Nat
        /\ \A i \in 1..Len(regQ') : regQ'[i] = IF i = Len(regQ) + 1 THEN c ELSE regQ[i]
    BY <1>1, <1>2
  <1>4. HubTypeOK'
    BY <1>1, <1>2, <1>3 DEF HubInv, HubTypeOK
  <1>5. ~Waits(c) /\ c \notin present /\ c \notin closed
    BY <1>1 DEF HubInv, QueueOK, StrangersAreOut
  <1>6. WaitsOnce'
    <2>1. ASSUME NEW i \in 1..Len(regQ'), NEW j \in 1..Len(regQ'), regQ'[i] = regQ'[j]
          PROVE  i = j
      <3>1. CASE i = Len(regQ) + 1 \/ j = Len(regQ) + 1
        BY <1>3, <1>5, <2>1, <3>1 DEF Waits
      <3>2. CASE i # Len(regQ) + 1 /\ j # Len(regQ) + 1
        <4>1. i \in 1..Len(regQ) /\ j \in 1..Len(regQ) /\ regQ[i] = regQ[j]
          BY <1>3, <2>1, <3>2
        <4> QED
          BY <4>1 DEF HubInv, QueueOK, WaitsOnce
      <3> QED
        BY <3>1, <3>2
    <2> QED
      BY <2>1 DEF WaitsOnce
  <1>7. \A d \in Clients : Waits(d)' => d = c \/ Waits(d)
    BY <1>3 DEF Waits
  <1>8. WaitersAreNew' /\ StrangersAreOut'
    BY <1>1, <1>5, <1>7 DEF HubInv, HubTypeOK, QueueOK, WaitersAreNew, StrangersAreOut
  <1>9. MembersAreOpen' /\ CountdownMeansAbsent'
    BY <1>1 DEF HubInv, MembersAreOpen, CountdownMeansAbsent, Sockets
  <1> QED
    BY <1>4, <1>6, <1>8, <1>9 DEF HubInv, QueueOK

LEMMA RegisterKeeps ==
  ASSUME HubInv, HubRegister
  PROVE  HubInv'
  <1>1. /\ UNCHANGED <<pc, unregQ, once, asking, closed, buffered, shown>>
        /\ regQ # <<>> /\ regQ' = Tail(regQ)
    BY DEF HubRegister
  <1>2. regQ \in Seq(Clients) /\ Len(regQ) <= QueueCap /\ QueueCap \in Nat
    BY CapAssumption DEF HubInv, HubTypeOK
  <1>3. PICK c \in Clients : c = Head(regQ) /\ c = regQ[1] /\ 1 \in 1..Len(regQ)
    BY <1>1, <1>2
  <1>4. /\ present' = present \cup {c} /\ UserOf[c] \in HubUsers
        /\ timers' = [timers EXCEPT ![UserOf[c]] = NoClient]
        /\ timer' \in [Clients -> {"none", "armed", "fired", "telling", "done"}]
    BY <1>3, UserOfAssumption DEF HubRegister, CancelTimer, HubInv, HubTypeOK
  <1>5. /\ regQ' \in Seq(Clients) /\ Len(regQ') = Len(regQ) - 1
        /\ \A i \in 1..Len(regQ') : i + 1 \in 1..Len(regQ) /\ regQ'[i] = regQ[i + 1]
    BY <1>1, <1>2
  <1>6. HubTypeOK'
    BY <1>1, <1>2, <1>4, <1>5 DEF HubInv, HubTypeOK
  <1>7. Waits(c)
    BY <1>3 DEF Waits
  <1>8. c \notin present /\ c \notin closed /\ pc[c] # "none"
    BY <1>7 DEF HubInv, QueueOK, WaitersAreNew, StrangersAreOut
  <1>9. \A i \in 1..Len(regQ') : regQ'[i] # c
    <2> SUFFICES ASSUME NEW i \in 1..Len(regQ'), regQ'[i] = c PROVE FALSE
      OBVIOUS
    <2>1. i + 1 \in 1..Len(regQ) /\ regQ[i + 1] = regQ[1] /\ i + 1 # 1
      BY <1>3, <1>5
    <2> QED
      BY <1>3, <2>1 DEF HubInv, QueueOK, WaitsOnce
  <1>10. \A d \in Clients : Waits(d)' => Waits(d) /\ d # c
    BY <1>5, <1>9 DEF Waits
  <1>11. WaitsOnce'
    <2> SUFFICES ASSUME NEW i \in 1..Len(regQ'), NEW j \in 1..Len(regQ'), regQ'[i] = regQ'[j]
                 PROVE  i = j
      BY DEF WaitsOnce
    <2>1. i + 1 \in 1..Len(regQ) /\ j + 1 \in 1..Len(regQ) /\ regQ[i + 1] = regQ[j + 1]
      BY <1>5
    <2>2. i + 1 = j + 1
      BY <2>1 DEF HubInv, QueueOK, WaitsOnce
    <2> QED
      BY <2>2
  <1>12. WaitersAreNew' /\ StrangersAreOut'
    BY <1>1, <1>4, <1>8, <1>10 DEF HubInv, QueueOK, WaitersAreNew, StrangersAreOut
  <1>13. MembersAreOpen'
    BY <1>1, <1>4, <1>8 DEF HubInv, MembersAreOpen
  <1>14. CountdownMeansAbsent'
    BY <1>4 DEF HubInv, HubTypeOK, CountdownMeansAbsent, Sockets
  <1> QED
    BY <1>6, <1>11, <1>12, <1>13, <1>14 DEF HubInv, QueueOK

LEMMA UnregisterKeeps ==
  ASSUME HubInv, HubUnregister
  PROVE  HubInv'
  <1>1. /\ UNCHANGED <<pc, regQ, once, asking, buffered, shown>>
        /\ unregQ # <<>> /\ unregQ' = Tail(unregQ) /\ Remove(Head(unregQ))
    BY DEF HubUnregister
  <1>2. unregQ \in Seq(Clients) /\ Len(unregQ) <= QueueCap /\ QueueCap \in Nat
    BY CapAssumption DEF HubInv, HubTypeOK
  <1>3. PICK c \in Clients : c = Head(unregQ)
    BY <1>1, <1>2
  <1>4. /\ unregQ' \in Seq(Clients) /\ Len(unregQ') <= QueueCap
    BY <1>1, <1>2
  <1>5. UserOf[c] \in HubUsers
    BY UserOfAssumption
  <1>6. CASE c \notin present
    <2>1. UNCHANGED hub
      BY <1>1, <1>3, <1>6 DEF Remove
    <2>2. HubTypeOK'
      BY <1>1, <1>4, <2>1 DEF HubInv, HubTypeOK, hub
    <2> QED
      BY <1>1, <2>1, <2>2, QuietKeeps DEF hub
  <1>7. CASE c \in present
    <2>1. /\ present' = present \ {c} /\ closed' = closed \cup {c}
          /\ \/ /\ Sockets(UserOf[c]) = {c}
                /\ timer' = [timer EXCEPT ![c] = "armed"]
                /\ timers' = [timers EXCEPT ![UserOf[c]] = c]
             \/ UNCHANGED <<timer, timers>>
      BY <1>1, <1>3, <1>7 DEF Remove
    <2>2. HubTypeOK'
      <3>1. /\ timer' \in [Clients -> {"none", "armed", "fired", "telling", "done"}]
            /\ timers' \in [HubUsers -> Clients \cup {NoClient}]
        <4>1. /\ timer \in [Clients -> {"none", "armed", "fired", "telling", "done"}]
              /\ timers \in [HubUsers -> Clients \cup {NoClient}]
          BY DEF HubInv, HubTypeOK
        <4>2. CASE UNCHANGED <<timer, timers>>
          BY <4>1, <4>2
        <4>3. CASE timer' = [timer EXCEPT ![c] = "armed"]
                   /\ timers' = [timers EXCEPT ![UserOf[c]] = c]
          BY <1>5, <4>1, <4>3
        <4> QED
          BY <2>1, <4>2, <4>3
      <3> QED
        BY <1>1, <1>4, <2>1, <3>1 DEF HubInv, HubTypeOK
    <2>3. ~Waits(c) /\ pc[c] # "none"
      BY <1>7 DEF HubInv, QueueOK, WaitersAreNew, StrangersAreOut
    <2>4. QueueOK'
      <3>1. regQ' = regQ /\ pc' = pc /\ \A d \in Clients : Waits(d)' <=> Waits(d)
        BY <1>1 DEF Waits
      <3>2. WaitsOnce'
        BY <3>1 DEF HubInv, QueueOK, WaitsOnce
      <3>3. WaitersAreNew' /\ StrangersAreOut'
        BY <2>1, <2>3, <3>1 DEF HubInv, QueueOK, WaitersAreNew, StrangersAreOut
      <3> QED
        BY <3>2, <3>3 DEF QueueOK
    <2>5. MembersAreOpen'
      BY <2>1 DEF HubInv, MembersAreOpen
    <2>6. ASSUME NEW u \in HubUsers, timers'[u] # NoClient PROVE Sockets(u)' = {}
      <3>1. Sockets(u)' = Sockets(u) \ {c}
        BY <2>1 DEF Sockets
      <3>2. CASE timers'[u] = timers[u]
        BY <2>6, <3>1, <3>2 DEF HubInv, CountdownMeansAbsent
      <3>3. CASE timers'[u] # timers[u]
        <4>1. u = UserOf[c] /\ Sockets(UserOf[c]) = {c}
          BY <2>1, <3>3 DEF HubInv, HubTypeOK
        <4> QED
          BY <3>1, <4>1
      <3> QED
        BY <3>2, <3>3
    <2> QED
      BY <2>2, <2>4, <2>5, <2>6 DEF HubInv, CountdownMeansAbsent
  <1> QED
    BY <1>6, <1>7

-----------------------------------------------------------------------------

LEMMA HubNextOK == HubInv /\ [HubNext]_hubVars => HubInv'
  <1> SUFFICES ASSUME HubInv, [HubNext]_hubVars PROVE HubInv'
    OBVIOUS
  <1>1. ASSUME NEW c \in Clients, Connect(c) PROVE HubInv'
    BY <1>1, ConnectKeeps
  <1>2. ASSUME NEW c \in Clients,
               \/ SocketEnds(c) \/ WriteBlocks(c) \/ WriteResumes(c)
               \/ Handler(c) \/ DropSlow(c) \/ Pump(c)
        PROVE  HubInv'
    BY <1>2, HandlerKeeps, LeavingKeeps DEF Handler, Pump
  <1>3. ASSUME NEW c \in Clients, Timer(c) PROVE HubInv'
    BY <1>3, TimerKeeps
  <1>4. CASE RoomSpeaks \/ \E c \in Clients : ReadMessage(c)
    BY <1>4, SpeakingKeeps
  <1>5. CASE HubRegister \/ HubUnregister
    BY <1>5, RegisterKeeps, UnregisterKeeps
  <1>6. CASE UNCHANGED hubVars
    <2>1. HubTypeOK'
      BY <1>6 DEF HubInv, HubTypeOK, hubVars, chans, hub
    <2> QED
      BY <1>6, <2>1, QuietKeeps DEF hubVars, chans, hub
  <1> QED
    BY <1>1, <1>2, <1>3, <1>4, <1>5, <1>6 DEF HubNext

(* However sockets come and go, timers fire and slow clients are dropped,  *)
(* no broadcast sends on a closed channel, and only a user without a       *)
(* socket is counted down (Run, BroadcastToRoom, ConnectRoomWS).           *)
THEOREM SocketsAreAlwaysTrue == HubSpec => []SocketsAreTrue
  <1>1. HubInv => SocketsAreTrue
    BY DEF HubInv, SocketsAreTrue
  <1> QED
    BY <1>1, HubInitOK, HubNextOK, PTL DEF HubSpec
=============================================================================
