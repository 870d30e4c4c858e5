----------------------------- MODULE GroupRoom -----------------------------
(***************************************************************************)
(* A study room over REST: controllers/group_room.go, and the documents    *)
(* that InitiateUpload (controllers/processing.go) puts in a room.         *)
(*                                                                         *)
(* One room, its members, its host and its documents.  A request is a      *)
(* handler between two of its statements; no request uses a transaction or *)
(* a lock, so that what it checked may be stale when it writes.  A request *)
(* may stop at any of them, by an error or with the process, and goes on   *)
(* after the errors it ignores.  What is told to the sockets is in RoomHub,*)
(* whether a document is ready in UploadQueue; the limit of three rooms of *)
(* a host and the other rooms are left out.                                *)
(***************************************************************************)
EXTENDS Naturals, FiniteSets

CONSTANTS
    Users, Docs,
    Owner,        \* documents.user_id
    Handlers,     \* requests that may run at a time
    MaxMembers,   \* group_rooms.max_members (5)
    MaxDocs,      \* documents of one user in one room (3)
    MaxRequests,  \* bound on the requests of a run
    Nobody

ASSUME OwnerAssumption == Owner \in [Docs -> Users]
ASSUME FiniteAssumption == IsFiniteSet(Users) /\ IsFiniteSet(Docs) /\ IsFiniteSet(Handlers)
ASSUME BoundAssumption == MaxMembers \in Nat \ {0} /\ MaxDocs \in Nat \ {0} /\ MaxRequests \in Nat
ASSUME NobodyAssumption == Nobody \notin Users \cup Docs

VARIABLES
    status, host_id,  \* the row of group_rooms; no row: "none"
    row,              \* group_room_members: "none", "in", "left" (left_at set)
    is_host,          \* users whose row says is_host
    elder,            \* <<v, w>>: both have a row, v by the older joined_at
    doc,              \* documents: "none", "library", "room" (room_id set)
    linked_by,        \* group_room_doc_links
    req,              \* the handlers at work
    spent,            \* requests so far
    overlapped,       \* two requests have run at a time
    failed            \* a request has stopped half-way, or ignored an error

room == <<status, host_id>>
members == <<row, is_host, elder>>
docs == <<doc, linked_by>>
history == <<spent, overlapped>>
vars == <<room, members, docs, req, history, failed>>

Idle == [step |-> "idle", user |-> Nobody, arg |-> Nobody]

Init ==
    /\ status = "none" /\ host_id = Nobody
    /\ row = [u \in Users |-> "none"]
    /\ is_host = {} /\ elder = {}
    /\ doc = [d \in Docs |-> "none"]
    /\ linked_by = [d \in Docs |-> Nobody]
    /\ req = [h \in Handlers |-> Idle]
    /\ spent = 0 /\ overlapped = FALSE /\ failed = FALSE

(* IsRoomMember: a row whose left_at is NULL.                              *)
In == {u \in Users : row[u] = "in"}

(* SELECT is_host ... AND left_at IS NULL.                                 *)
IsHost(u) == u \in In \cap is_host

Working == {h \in Handlers : req[h] # Idle}

(* A new request at h, up to its first write or to its next read.          *)
Start(h, step, u, arg) ==
    /\ req[h] = Idle
    /\ spent < MaxRequests
    /\ spent' = spent + 1
    /\ overlapped' = (overlapped \/ Working # {})
    /\ req' = [req EXCEPT ![h] = [step |-> step, user |-> u, arg |-> arg]]

At(h, step) == req[h].step = step

Goto(h, step, arg) ==
    req' = [req EXCEPT ![h] = [step |-> step, user |-> req[h].user, arg |-> arg]]

Done(h) == req' = [req EXCEPT ![h] = Idle]

(* joined_at = now().                                                      *)
Youngest(u) ==
    {p \in elder : u \notin {p[1], p[2]}}
        \cup ({v \in Users : row[v] # "none"} \ {u}) \X {u}

-----------------------------------------------------------------------------
(* CreateRoom: the room, then the host's row.                              *)

CreateRoom(h, u) ==
    /\ status = "none"
    /\ Start(h, "seat", u, Nobody)
    /\ status' = "active" /\ host_id' = u
    /\ UNCHANGED <<members, docs, failed>>

SeatHost(h) ==
    /\ At(h, "seat") /\ Done(h)
    /\ row' = [row EXCEPT ![req[h].user] = "in"]
    /\ is_host' = is_host \cup {req[h].user}
    /\ elder' = Youngest(req[h].user)
    /\ UNCHANGED <<room, docs, history, failed>>

(* JoinRoom.                                                               *)

JoinRoom(h, u) ==
    /\ status = "active"
    /\ Start(h, "count", u, Nobody)
    /\ UNCHANGED <<room, members, docs, failed>>

(* Mutant of HasSeat: one too many.                                        *)
HasSeatOrIsFull == Cardinality(In) <= MaxMembers

HasSeat == Cardinality(In) < MaxMembers

JoinCounts(h) ==
    /\ At(h, "count")
    /\ IF HasSeat THEN Goto(h, "look", Nobody) ELSE Done(h)
    /\ UNCHANGED <<room, members, docs, history, failed>>

JoinLooks(h) ==
    /\ At(h, "look")
    /\ CASE row[req[h].user] = "in"   -> Done(h)
         [] row[req[h].user] = "left" -> Goto(h, "rejoin", Nobody)
         [] OTHER                     -> Goto(h, "join", Nobody)
    /\ UNCHANGED <<room, members, docs, history, failed>>

(* The INSERT fails, unnoticed, when there is a row by now; the UPDATE of  *)
(* a rejoin leaves is_host as it was.                                      *)
JoinWrites(h) ==
    LET u == req[h].user
    IN /\ At(h, "join") \/ At(h, "rejoin")
       /\ Done(h)
       /\ IF At(h, "join") /\ row[u] # "none"
          THEN UNCHANGED members
          ELSE /\ row' = [row EXCEPT ![u] = "in"]
               /\ elder' = Youngest(u)
               /\ UNCHANGED is_host
       /\ UNCHANGED <<room, docs, history, failed>>

-----------------------------------------------------------------------------
(* LeaveRoom and transferRoomHost.                                         *)

LeaveRoom(h, u) ==
    /\ u \in In
    /\ Start(h, IF IsHost(u) THEN "abdicate" ELSE "leave", u, Nobody)
    /\ UNCHANGED <<room, members, docs, failed>>

(* Mutant of Unseat: is_host stays.                                        *)
UnseatOnly(u) ==
    /\ row' = [row EXCEPT ![u] = "left"]
    /\ UNCHANGED is_host

Unseat(u) ==
    /\ row' = [row EXCEPT ![u] = "left"]
    /\ is_host' = is_host \ {u}

LeaveWrites(h) ==
    /\ \/ At(h, "leave") /\ Done(h)
       \/ At(h, "abdicate") /\ Goto(h, "transfer", Nobody)
    /\ Unseat(req[h].user)
    /\ UNCHANGED <<room, docs, elder, history, failed>>

(* Mutant of Heirs: only those who were host before are asked.             *)
FormerHosts(u) == (In \ {u}) \cap is_host

Heirs(u) == In \ {u}

(* ORDER BY joined_at LIMIT 1.                                             *)
Eldest(S) == {v \in S : \A w \in S : <<w, v>> \notin elder}

(* Mutant of TransferPicks: an empty answer is not looked at.              *)
TransferPicksAnyhow(h) ==
    /\ At(h, "transfer")
    /\ LET heirs == Heirs(req[h].user)
       IN \E v \in IF heirs = {} THEN {Nobody} ELSE Eldest(heirs) : Goto(h, "promote", v)
    /\ UNCHANGED <<room, members, docs, history, failed>>

TransferPicks(h) ==
    /\ At(h, "transfer")
    /\ LET heirs == Heirs(req[h].user)
       IN IF heirs = {} THEN Goto(h, "end", Nobody)
          ELSE \E v \in Eldest(heirs) : Goto(h, "promote", v)
    /\ UNCHANGED <<room, members, docs, history, failed>>

EndRoom(h) ==
    /\ At(h, "end") /\ Done(h)
    /\ status' = "closed"
    /\ UNCHANGED <<host_id, members, docs, history, failed>>

(* Whether the heir is still in is not looked at again.                    *)
Promote(h) ==
    /\ At(h, "promote") /\ Goto(h, "name", req[h].arg)
    /\ is_host' = is_host \cup {req[h].arg}
    /\ UNCHANGED <<room, row, elder, docs, history, failed>>

NameHost(h) ==
    /\ At(h, "name") /\ Done(h)
    /\ host_id' = req[h].arg
    /\ UNCHANGED <<status, members, docs, history, failed>>

-----------------------------------------------------------------------------
(* CloseRoom and KickMember, for the host.                                 *)

CloseRoom(h, u) ==
    /\ IsHost(u)
    /\ Start(h, "close", u, Nobody)
    /\ UNCHANGED <<room, members, docs, failed>>

CloseWrites(h) ==
    /\ At(h, "close") /\ Done(h)
    /\ status' = "closed"
    /\ UNCHANGED <<host_id, members, docs, history, failed>>

KickMember(h, u, v) ==
    /\ u # v /\ IsHost(u)
    /\ Start(h, "kick", u, v)
    /\ UNCHANGED <<room, members, docs, failed>>

KickWrites(h) ==
    /\ At(h, "kick") /\ Done(h)
    /\ row' = [row EXCEPT ![req[h].arg] = IF @ = "in" THEN "left" ELSE @]
    /\ UNCHANGED <<room, is_host, elder, docs, history, failed>>

-----------------------------------------------------------------------------
(* The documents of the room.                                              *)

(* What the quota counts: uploaded by u in the room, or linked by u.       *)
CountedFor(u) ==
    {d \in Docs : (doc[d] = "room" /\ Owner[d] = u) \/ linked_by[d] = u}

InRoom(d) == doc[d] = "room" \/ linked_by[d] # Nobody

(* LinkDocToRoom: a document of one's own, wherever it is.                 *)
LinkDocToRoom(h, u, d) ==
    /\ u \in In
    /\ doc[d] # "none" /\ Owner[d] = u
    /\ Start(h, "link count", u, d)
    /\ UNCHANGED <<room, members, docs, failed>>

(* InitiateUpload with a room_id: a new file, or one that is known, which  *)
(* linkDuplicateDocumentToRoom links unless it is in the room.             *)
UploadToRoom(h, u, d) ==
    /\ u \in In
    /\ \/ doc[d] = "none" /\ Owner[d] = u /\ Start(h, "upload quota", u, d)
       \/ doc[d] # "none" /\ ~InRoom(d) /\ Start(h, "link quota", u, d)
    /\ UNCHANGED <<room, members, docs, failed>>

(* Mutant of WithinQuota: links are not counted.                           *)
WithinUploads(u) == Cardinality({d \in CountedFor(u) : linked_by[d] # u}) < MaxDocs

WithinQuota(u) == Cardinality(CountedFor(u)) < MaxDocs

CountDocs(h) ==
    /\ \/ (At(h, "link count") \/ At(h, "link quota"))
          /\ (IF WithinQuota(req[h].user) THEN Goto(h, "link", req[h].arg) ELSE Done(h))
       \/ At(h, "upload quota")
          /\ (IF WithinQuota(req[h].user) THEN Goto(h, "upload", req[h].arg) ELSE Done(h))
    /\ UNCHANGED <<room, members, docs, history, failed>>

(* UNIQUE (room_id, document_id): a second link fails; so does the link to *)
(* a document that has gone.                                               *)
LinkWrites(h) ==
    /\ At(h, "link") /\ Done(h)
    /\ LET d == req[h].arg
       IN linked_by' = [linked_by EXCEPT ![d] =
              IF @ = Nobody /\ doc[d] # "none" THEN req[h].user ELSE @]
    /\ UNCHANGED <<room, members, doc, history, failed>>

(* ON CONFLICT (file_hash): the file is known by now, and is linked, which *)
(* counts again.                                                           *)
UploadWrites(h) ==
    LET d == req[h].arg
    IN /\ At(h, "upload")
       /\ IF doc[d] = "none"
          THEN doc' = [doc EXCEPT ![d] = "room"] /\ Done(h)
          ELSE /\ IF InRoom(d) THEN Done(h) ELSE Goto(h, "link quota", d)
               /\ UNCHANGED doc
       /\ UNCHANGED <<room, members, linked_by, history, failed>>

(* UnlinkDocFromRoom, for the host and who put the document there.         *)
UnlinkDocFromRoom(h, u, d) ==
    /\ u \in In
    /\ IsHost(u) \/ d \in CountedFor(u)
    /\ Start(h, "unlink", u, d)
    /\ UNCHANGED <<room, members, docs, failed>>

UnlinkWrites(h) ==
    LET d == req[h].arg
    IN /\ At(h, "unlink") /\ Done(h)
       /\ IF linked_by[d] # Nobody
          THEN linked_by' = [linked_by EXCEPT ![d] = Nobody] /\ UNCHANGED doc
          ELSE /\ doc' = [doc EXCEPT ![d] = IF @ = "room" THEN "library" ELSE @]
               /\ UNCHANGED linked_by
       /\ UNCHANGED <<room, members, history, failed>>

(* Elsewhere: an upload without a room, and a document erased or swept,    *)
(* whose links go with it.                                                 *)
UploadElsewhere(d) ==
    /\ doc[d] = "none"
    /\ doc' = [doc EXCEPT ![d] = "library"]
    /\ UNCHANGED <<room, members, linked_by, req, history, failed>>

DocumentGoes(d) ==
    /\ doc[d] # "none"
    /\ doc' = [doc EXCEPT ![d] = "none"]
    /\ linked_by' = [linked_by EXCEPT ![d] = Nobody]
    /\ UNCHANGED <<room, members, req, history, failed>>

-----------------------------------------------------------------------------

(* A request that stops half-way.                                          *)
Stops(h) ==
    /\ ~failed /\ req[h] # Idle
    /\ failed' = TRUE
    /\ Done(h)
    /\ UNCHANGED <<room, members, docs, history>>

(* A statement fails, and the handler does not look: a count is then zero, *)
(* a row is not there, an update is not done; a room whose next host could *)
(* not be read is closed.                                                  *)
ErrorIsIgnored(h) ==
    /\ ~failed
    /\ failed' = TRUE
    /\ \/ At(h, "count") /\ Goto(h, "look", Nobody)
       \/ At(h, "look") /\ Goto(h, "join", Nobody)
       \/ At(h, "abdicate") /\ Goto(h, "transfer", Nobody)
       \/ At(h, "transfer") /\ Goto(h, "end", Nobody)
       \/ At(h, "promote") /\ Goto(h, "name", req[h].arg)
       \/ At(h, "link count") /\ Goto(h, "link", req[h].arg)
    /\ UNCHANGED <<room, members, docs, history>>

Continue(h) ==
    \/ SeatHost(h) \/ JoinCounts(h) \/ JoinLooks(h) \/ JoinWrites(h)
    \/ LeaveWrites(h) \/ TransferPicks(h) \/ EndRoom(h) \/ Promote(h) \/ NameHost(h)
    \/ CloseWrites(h) \/ KickWrites(h)
    \/ CountDocs(h) \/ LinkWrites(h) \/ UploadWrites(h) \/ UnlinkWrites(h)

Request(h) ==
    \E u \in Users :
        \/ CreateRoom(h, u) \/ JoinRoom(h, u) \/ LeaveRoom(h, u) \/ CloseRoom(h, u)
        \/ \E v \in Users : KickMember(h, u, v)
        \/ \E d \in Docs : LinkDocToRoom(h, u, d) \/ UploadToRoom(h, u, d) \/ UnlinkDocFromRoom(h, u, d)

Next ==
    \/ \E h \in Handlers : Request(h) \/ Continue(h) \/ Stops(h) \/ ErrorIsIgnored(h)
    \/ \E d \in Docs : UploadElsewhere(d) \/ DocumentGoes(d)

Spec == Init /\ [][Next]_vars

-----------------------------------------------------------------------------
(* Properties.                                                             *)

Steps == {"idle", "seat", "count", "look", "join", "rejoin", "leave", "abdicate",
          "transfer", "end", "promote", "name", "close", "kick", "link count",
          "link quota", "upload quota", "link", "upload", "unlink"}

(* Every variable keeps its type.                                          *)
TypeOK ==
    /\ status \in {"none", "active", "closed"} /\ host_id \in Users \cup {Nobody}
    /\ row \in [Users -> {"none", "in", "left"}]
    /\ is_host \subseteq Users
    /\ elder \subseteq Users \X Users
    /\ doc \in [Docs -> {"none", "library", "room"}]
    /\ linked_by \in [Docs -> Users \cup {Nobody}]
    /\ req \in [Handlers -> [step : Steps, user : Users \cup {Nobody},
                             arg : Users \cup Docs \cup {Nobody}]]
    /\ spent \in Nat /\ overlapped \in BOOLEAN /\ failed \in BOOLEAN

(* How far requests may pass a limit that each counts before it writes.    *)
Excess == Cardinality(Handlers) - 1 + (IF failed THEN 1 ELSE 0)

(* The limit of five is counted before the row is written: requests that   *)
(* overlap may pass it, but never by more than one each, whoever leaves,   *)
(* is kicked or comes back meanwhile (JoinRoom).                           *)
RoomIsBounded == Cardinality(In) <= MaxMembers + Excess

(* So with three documents for each member, through all three ways in:     *)
(* uploads, links, and uploads of a file that is known.                    *)
QuotaIsBounded == \A u \in Users : Cardinality(CountedFor(u)) <= MaxDocs + Excess

Undisturbed == ~overlapped /\ ~failed

(* When requests do not overlap, a room that is open has one host among    *)
(* its members, the one group_rooms names, through every departure, kick   *)
(* and return.                                                             *)
OneHost ==
    Undisturbed /\ Working = {} /\ status = "active" => In \cap is_host = {host_id}

(* When requests do not overlap, the room is not closed over its members'  *)
(* heads: either the host closes it or nobody is left (transferRoomHost).  *)
ClosedOnPurpose ==
    [][status = "active" /\ status' = "closed" /\ Undisturbed =>
          In = {} \/ \E h \in Handlers : IsHost(req[h].user)]_vars
=============================================================================
