----------------------- MODULE DocumentLibraryProofs -----------------------
(***************************************************************************)
(* Proofs about DocumentLibrary, for any users, documents, files and       *)
(* limits.  What holds however requests overlap comes first; what needs    *)
(* requests that come one after the other, as many users as there may be,  *)
(* is proved from Serial.                                                  *)
(***************************************************************************)
EXTENDS DocumentLibrary, FiniteSetTheorems, TLAPS

(* What a request carries from its first statement on.                     *)
Carried ==
    \A h \in Handlers :
        /\ req[h].at # "idle" => req[h].user \in Users
        /\ req[h].at \notin {"idle", "create"} => req[h].doc \in Docs

(* A reference, a creator and a publication belong to a row.               *)
RowsAgree ==
    /\ \A r \in refs : Present(r[2])
    /\ \A d \in Docs : Present(d) => row[d].creator \in Users
    /\ \A d \in Docs : row[d].public => d \in sharedOnce

(* The document an expirer is about to mark has been announced.            *)
MarkedIsWarned ==
    \A e \in Expirers : exp[e].mark # NoDoc => \E u \in Users : <<exp[e].mark, u>> \in warned

(* IInv, table by table: what the library holds, what a request carries,   *)
(* what runs behind them.                                                  *)
Tables ==
    /\ row \in [Docs -> Rows]
    /\ refs \subseteq Users \X Docs /\ pinned \subseteq refs
    /\ sharedOnce \subseteq Docs /\ warned \subseteq Docs \X Users
    /\ RowsAgree /\ OneRowPerFile /\ FlaggedAfterMessage

Requests == [at : Labels, user : Users \cup {NoOne}, doc : Docs \cup {NoDoc},
             file : Files \cup {NoFile}, room : BOOLEAN]

Served == req \in [Handlers -> Requests] /\ Carried

Behind ==
    /\ job \in [Docs -> {"none", "work", "link", "done"}]
    /\ sweep \in [Sweepers ->
                    [at : {"idle", "delete", "selectOld", "eraseOld", "roomDocs",
                           "rooms", "notify"},
                     found : SUBSET Docs, old : SUBSET Docs]]
    /\ exp \in [Expirers -> [todo : SUBSET (Docs \X Users), mark : Docs \cup {NoDoc}]]
    /\ MarkedIsWarned

Counts == served \in Nat /\ crashes \in 0..MaxCrashes /\ faults \in 0..MaxFaults

IInv == Tables /\ Served /\ Behind /\ Counts

(* Requests come one after the other.                                      *)
Serial == \A g, h \in Handlers : g = h

(* What a request has seen is so while it is at work: only it, the worker, *)
(* the sweeps and the clock are.                                           *)
Seen(r) ==
    /\ r.at \in {"countOld", "erase"} =>
            /\ ~Present(r.doc) \/ Expired(r.doc)
            /\ \A d \in Docs \ {r.doc} : FileOf[d] = r.file => ~Present(d)
    /\ r.at = "restore" => ~Live(r.doc)
    /\ r.at \in {"link", "use", "refresh", "pinExpire"} => row[r.doc].life # "trash"
    /\ r.at = "create" => \A d \in Docs : FileOf[d] = r.file => ~Present(d)
    /\ r.at \in {"shareQuota", "share", "unshare", "unpinCount", "setDay"} =>
            ~Present(r.doc) \/ <<r.user, r.doc>> \in refs
    /\ r.at = "trash" =>
            Readers(r.doc) \subseteq {row[r.doc].creator} /\ Pinners(r.doc) = {}

TrashUnpinned == \A d \in Docs : row[d].life = "trash" => Pinners(d) = {}

SerialInv ==
    /\ \A h \in Handlers : Seen(req[h])
    /\ TrashUnreadButByUploader
    /\ TrashUnpinned

(* No statement has failed, and the process has not stopped.               *)
Calm == faults = 0 /\ crashes = 0

At(d, labels) == \E h \in Handlers : req[h].doc = d /\ req[h].at \in labels

DayUnpinned == \A h \in Handlers : req[h].at = "setDay" => Pinners(req[h].doc) = {}

PinKept(d) ==
    d \notin sharedOnce /\ Live(d) /\ Pinners(d) # {} =>
        row[d].expiry = "never" \/ At(d, {"pinExpire"})

TrashHidden(d) ==
    row[d].life = "trash" /\ Readers(d) = {} =>
        row[d].expiry = "past" \/ At(d, {"countRefs", "trash"})

Dated == DayUnpinned /\ \A d \in Docs : PinKept(d) /\ TrashHidden(d)

CalmInv == Calm => Dated

-----------------------------------------------------------------------------
(* The steps a statement can take in the tables.                           *)

LEMMA TablesUntouched ==
  ASSUME Tables, UNCHANGED <<library, sharedOnce>>, warned \subseteq warned',
         warned' \subseteq Docs \X Users
  PROVE  Tables'
  BY DEF Tables, library, RowsAgree, OneRowPerFile, FlaggedAfterMessage, Present, Live

LEMMA Updated ==
  ASSUME Tables, NEW d \in Docs, NEW r \in Rows, Update(d, r)
  PROVE  /\ row' \in [Docs -> Rows]
         /\ \A e \in Docs : row'[e] = IF e = d /\ Present(d) THEN r ELSE row[e]
  BY DEF Tables, Update

(* UPDATE: the row stays a row of the same creator.                        *)
LEMMA TablesUpdated ==
  ASSUME Tables, NEW d \in Docs, NEW r \in Rows, Update(d, r),
         r.life \in {"live", "trash"} \/ ~Present(d),
         r.creator = row[d].creator,
         UNCHANGED <<refs, pinned, warned>>,
         sharedOnce \subseteq sharedOnce', sharedOnce' \subseteq Docs,
         Present(d) /\ r.public => d \in sharedOnce',
         Present(d) /\ r.life = "live" /\ r.notified => \E u \in Users : <<d, u>> \in warned
  PROVE  Tables'
  <1>1. /\ row' \in [Docs -> Rows]
        /\ \A e \in Docs : row'[e] = IF e = d /\ Present(d) THEN r ELSE row[e]
    BY Updated
  <1>2. ASSUME NEW e \in Docs
        PROVE  /\ Present(e)' <=> Present(e)
               /\ Present(e) => row'[e].creator = row[e].creator
               /\ row'[e].public => e \in sharedOnce'
               /\ Live(e)' /\ row'[e].notified => \E u \in Users : <<e, u>> \in warned
    <2>1. CASE e = d /\ Present(d)
      <3>1. row'[e] = r
        BY <1>1, <2>1
      <3> QED
        BY <2>1, <3>1 DEF Present, Live
    <2>2. CASE ~(e = d /\ Present(d))
      <3>1. row'[e] = row[e]
        BY <1>1, <2>2
      <3> QED
        BY <3>1 DEF Tables, RowsAgree, FlaggedAfterMessage, Present, Live
    <2> QED
      BY <2>1, <2>2
  <1>3. RowsAgree'
    BY <1>2 DEF Tables, RowsAgree
  <1>4. OneRowPerFile'
    BY <1>2 DEF Tables, OneRowPerFile
  <1>5. FlaggedAfterMessage'
    BY <1>2 DEF FlaggedAfterMessage
  <1> QED
    BY <1>1, <1>3, <1>4, <1>5 DEF Tables

LEMMA TablesErased ==
  ASSUME Tables, NEW S \in SUBSET Docs, Erase(S), UNCHANGED <<warned, sharedOnce>>
  PROVE  Tables'
  <1>1. \A e \in Docs : Present(e)' <=> Present(e) /\ e \notin S
    BY DEF Erase, Present, NoRow
  <1>2. NoRow("gone") \in Rows
    BY DEF NoRow, Rows
  <1>3. row' \in [Docs -> Rows]
    BY <1>2 DEF Tables, Erase
  <1>4. refs' \subseteq Users \X Docs /\ pinned' \subseteq refs'
    BY DEF Tables, Erase
  <1>5. RowsAgree'
    BY <1>1 DEF Tables, RowsAgree, Erase, NoRow
  <1>6. OneRowPerFile'
    BY <1>1 DEF Tables, OneRowPerFile
  <1>7. FlaggedAfterMessage'
    BY DEF Tables, FlaggedAfterMessage, Live, Erase, NoRow
  <1> QED
    BY <1>3, <1>4, <1>5, <1>6, <1>7 DEF Tables

(* INSERT, DELETE or UPDATE of a reference.                                *)
LEMMA TablesLinked ==
  ASSUME Tables, UNCHANGED <<row, warned, sharedOnce>>, NEW u \in Users, NEW d \in Docs,
         refs' = refs \/ (Present(d) /\ refs' = refs \cup {<<u, d>>}) \/ refs' = refs \ {<<u, d>>},
         pinned' \subseteq refs'
  PROVE  Tables'
  BY DEF Tables, RowsAgree, OneRowPerFile, FlaggedAfterMessage, Present, Live

(* INSERT INTO documents.                                                  *)
LEMMA TablesInserted ==
  ASSUME Tables, Served, NEW h \in Handlers, NEW d \in Docs, CreateDocument(h, d)
  PROVE  Tables'
  <1>1. req[h].user \in Users /\ req[h].room \in BOOLEAN
    BY DEF Served, Requests, Carried, CreateDocument
  <1>2. PICK r : /\ r \in Rows /\ r.life = "live" /\ r.creator = req[h].user
                 /\ ~r.notified /\ ~r.public
                 /\ row' = [row EXCEPT ![d] = r]
    <2> DEFINE r == [NoRow("live") EXCEPT
                       !.expiry = IF req[h].room THEN "never" ELSE "future",
                       !.creator = req[h].user,
                       !.room = IF req[h].room THEN "kept" ELSE "none"]
    <2>1. /\ r \in Rows /\ r.life = "live" /\ r.creator = req[h].user
          /\ ~r.notified /\ ~r.public
      BY <1>1 DEF NoRow, Rows
    <2>2. row' = [row EXCEPT ![d] = r]
      BY DEF CreateDocument
    <2> QED
      BY <2>1, <2>2
  <1>3. /\ refs' = refs \cup {<<req[h].user, d>>} /\ ~Present(d)
        /\ \A e \in Docs : FileOf[e] = FileOf[d] => ~Present(e)
        /\ UNCHANGED <<pinned, warned, sharedOnce>>
    BY DEF CreateDocument, Present
  <1>4. row' \in [Docs -> Rows] /\ \A e \in Docs : row'[e] = IF e = d THEN r ELSE row[e]
    BY <1>2 DEF Tables
  <1>5. \A e \in Docs : Present(e)' <=> e = d \/ Present(e)
    BY <1>2, <1>4 DEF Present
  <1>6. RowsAgree'
    BY <1>1, <1>2, <1>3, <1>4, <1>5 DEF Tables, RowsAgree
  <1>7. OneRowPerFile'
    BY <1>3, <1>5 DEF Tables, OneRowPerFile
  <1>8. FlaggedAfterMessage'
    BY <1>2, <1>3, <1>4 DEF Tables, FlaggedAfterMessage, Live
  <1> QED
    BY <1>1, <1>3, <1>4, <1>6, <1>7, <1>8 DEF Tables

(* A statement about rooms: no row changes but for its room.               *)
RoomsOnly ==
    /\ row' \in [Docs -> Rows]
    /\ \A d \in Docs :
          /\ row'[d].life = row[d].life /\ row'[d].expiry = row[d].expiry
          /\ row'[d].notified = row[d].notified /\ row'[d].public = row[d].public
          /\ row'[d].creator = row[d].creator
    /\ UNCHANGED <<refs, pinned>>

LEMMA RoomWritten ==
  ASSUME Tables, NEW d \in Docs, NEW m \in {"none", "kept", "over"},
         Update(d, [row[d] EXCEPT !.room = m]), UNCHANGED <<refs, pinned>>
  PROVE  RoomsOnly
  <1> DEFINE r == [row[d] EXCEPT !.room = m]
  <1>a. row[d] \in Rows
    BY DEF Tables
  <1>1. /\ r \in Rows /\ r.life = row[d].life /\ r.expiry = row[d].expiry
        /\ r.notified = row[d].notified /\ r.public = row[d].public
        /\ r.creator = row[d].creator
    BY <1>a DEF Rows
  <1>2. Update(d, r)
    OBVIOUS
  <1> HIDE DEF r
  <1> QED
    BY <1>1, <1>2, Updated DEF RoomsOnly

LEMMA TablesRoomed ==
  ASSUME Tables, RoomsOnly, UNCHANGED <<warned, sharedOnce>>
  PROVE  Tables'
  <1>1. RowsAgree'
    BY DEF Tables, RoomsOnly, RowsAgree, Present
  <1>2. OneRowPerFile'
    BY DEF Tables, RoomsOnly, OneRowPerFile, Present
  <1>3. FlaggedAfterMessage'
    BY DEF Tables, RoomsOnly, FlaggedAfterMessage, Live
  <1> QED
    BY <1>1, <1>2, <1>3 DEF Tables, RoomsOnly

LEMMA RoomRequests ==
  ASSUME Tables, NEW h \in Handlers, NEW d \in Docs,
         UnlinkDocFromRoom(h, d) \/ CloseRoomAgain(h, d)
  PROVE  /\ RoomsOnly /\ UNCHANGED <<req, warned, sharedOnce, faults>> /\ Background
         /\ req[h] = Idle
  BY RoomWritten DEF UnlinkDocFromRoom, CloseRoomAgain

-----------------------------------------------------------------------------
(* The steps of a request.                                                 *)

LEMMA Started ==
  ASSUME Served, NEW h \in Handlers, NEW r \in Requests, Start(h, r), r.user \in Users,
         r.doc \in Docs \/ r.at = "create"
  PROVE  Served' /\ req'[h] = r
  BY DEF Served, Carried, Start

LEMMA Moved ==
  ASSUME Served, NEW h \in Handlers, NEW l \in Labels, Goto(h, l),
         req[h].at \notin {"idle", "create"}
  PROVE  /\ Served'
         /\ req'[h].at = l
         /\ req'[h].doc = req[h].doc /\ req'[h].user = req[h].user
         /\ req'[h].file = req[h].file /\ req'[h].room = req[h].room
  <1> DEFINE r == [req[h] EXCEPT !.at = l]
  <1>1. /\ r \in Requests /\ r.at = l
        /\ r.doc = req[h].doc /\ r.user = req[h].user
        /\ r.file = req[h].file /\ r.room = req[h].room
    BY DEF Served, Requests
  <1>2. req' = [req EXCEPT ![h] = r]
    BY DEF Goto
  <1>3. req' \in [Handlers -> Requests] /\ \A g \in Handlers : req'[g] = IF g = h THEN r ELSE req[g]
    BY <1>1, <1>2 DEF Served
  <1> HIDE DEF r
  <1>4. Carried'
    BY <1>1, <1>3 DEF Served, Carried
  <1> QED
    BY <1>1, <1>3, <1>4 DEF Served

LEMMA IdleRequest == Idle \in Requests /\ Idle.at = "idle"
  BY DEF Idle, Requests, Labels

LEMMA Finished ==
  ASSUME Served, NEW h \in Handlers, Finish(h)
  PROVE  Served' /\ req'[h] = Idle
  BY IdleRequest DEF Served, Carried, Finish

-----------------------------------------------------------------------------
(* IInv is inductive.  First, the statement a request begins with.         *)

LEMMA ServeRequest ==
  ASSUME NEW l \in Labels, NEW u \in Users, NEW d \in Docs
  PROVE  /\ Serve(l, u, d) \in Requests
         /\ Serve(l, u, d).at = l /\ Serve(l, u, d).user = u /\ Serve(l, u, d).doc = d
  BY DEF Serve, Requests, Idle

LEMMA UploadRequest ==
  ASSUME NEW l \in Labels, NEW u \in Users, NEW f \in Files, NEW r \in BOOLEAN,
         NEW d \in Docs \cup {NoDoc}
  PROVE  /\ Upload(l, u, f, r, d) \in Requests
         /\ Upload(l, u, f, r, d).at = l /\ Upload(l, u, f, r, d).user = u
         /\ Upload(l, u, f, r, d).doc = d
  BY DEF Upload, Requests

LEMMA StartedServing ==
  ASSUME Served, NEW h \in Handlers, NEW l \in Labels, NEW u \in Users, NEW d \in Docs,
         Start(h, Serve(l, u, d))
  PROVE  Served'
  BY ServeRequest, Started

LEMMA StartedUpload ==
  ASSUME Served, NEW h \in Handlers, NEW l \in Labels, NEW u \in Users, NEW f \in Files,
         NEW r \in BOOLEAN, NEW d \in Docs \cup {NoDoc}, d \in Docs \/ l = "create",
         Start(h, Upload(l, u, f, r, d))
  PROVE  Served'
  BY UploadRequest, Started

LEMMA Asked ==
  ASSUME IInv, NEW h \in Handlers, Request(h)
  PROVE  Tables' /\ Served'
  <1>0. Tables /\ Served /\ warned \subseteq Docs \X Users
    BY DEF IInv, Tables
  <1>1. ASSUME NEW u \in Users, NEW d \in Docs, PinQuota(h, u, d)
        PROVE  Tables' /\ Served'
    BY <1>0, <1>1, TablesUntouched, StartedServing DEF PinQuota, Labels, library
  <1>2. ASSUME NEW u \in Users, NEW d \in Docs, UnpinUpsert(h, u, d)
        PROVE  Tables' /\ Served'
    <2>1. Present(d) /\ pinned' \subseteq refs'
      BY <1>0, <1>2 DEF UnpinUpsert, Live, Present, Tables
    <2> QED
      BY <1>0, <1>2, <2>1, TablesLinked, StartedServing DEF UnpinUpsert, Labels
  <1>3. ASSUME NEW u \in Users, NEW d \in Docs, Unlink(h, u, d)
        PROVE  Tables' /\ Served'
    <2>1. pinned' \subseteq refs'
      BY <1>0, <1>3 DEF Unlink, Tables
    <2> QED
      BY <1>0, <1>3, <2>1, TablesLinked, StartedServing DEF Unlink, Labels
  <1>4. ASSUME NEW u \in Users, NEW d \in Docs, Fork(h, u, d)
        PROVE  Tables' /\ Served'
    <2>1. Present(d) /\ pinned' \subseteq refs'
      BY <1>0, <1>4 DEF Fork, Live, Present, Tables
    <2>2. Tables'
      BY <1>0, <1>4, <2>1, TablesLinked DEF Fork
    <2>3. Served'
      BY <1>0, <1>4 DEF Fork, Served, Carried
    <2> QED
      BY <2>2, <2>3
  <1>5. ASSUME NEW u \in Users, NEW d \in Docs, ShareCheck(h, u, d)
        PROVE  Tables' /\ Served'
    BY <1>0, <1>5, TablesUntouched, StartedServing DEF ShareCheck, Labels, library
  <1>6. ASSUME NEW u \in Users, NEW d \in Docs, UnshareCheck(h, u, d)
        PROVE  Tables' /\ Served'
    BY <1>0, <1>6, TablesUntouched, StartedServing DEF UnshareCheck, Labels, library
  <1>7. ASSUME NEW u \in Users, NEW d \in Docs, UseCheck(h, u, d)
        PROVE  Tables' /\ Served'
    BY <1>0, <1>7, TablesUntouched, StartedServing DEF UseCheck, Labels, library
  <1>8. ASSUME NEW u \in Users, NEW f \in Files, NEW r \in BOOLEAN, FindByHash(h, u, f, r)
        PROVE  Tables' /\ Served'
    <2>1. Tables'
      BY <1>0, <1>8, TablesUntouched DEF FindByHash
    <2>2. ASSUME NEW d \in Docs, NEW l \in {"restore", "countOld", "link"},
                 Start(h, Upload(l, u, f, r, d))
          PROVE  Served'
      BY <1>0, <2>2, StartedUpload DEF Labels
    <2>3. ASSUME Start(h, Upload("create", u, f, r, NoDoc)) PROVE Served'
      BY <1>0, <2>3, StartedUpload DEF Labels
    <2> QED
      BY <1>8, <2>1, <2>2, <2>3 DEF FindByHash
  <1>9. ASSUME NEW d \in Docs, UnlinkDocFromRoom(h, d) \/ CloseRoomAgain(h, d)
        PROVE  Tables' /\ Served'
    BY <1>0, <1>9, RoomRequests, TablesRoomed DEF Served, Carried
  <1> QED
    BY <1>1, <1>2, <1>3, <1>4, <1>5, <1>6, <1>7, <1>8, <1>9 DEF Request

LEMMA TablesDated ==
  ASSUME Tables, NEW d \in Docs, NEW e \in {"never", "future", "past"}, SetExpiry(d, e),
         UNCHANGED <<refs, pinned, warned, sharedOnce>>
  PROVE  Tables'
  <1> DEFINE r == [row[d] EXCEPT !.expiry = e]
  <1>a. row[d] \in Rows
    BY DEF Tables
  <1>1. /\ r \in Rows /\ r.life = row[d].life /\ r.creator = row[d].creator
        /\ r.public = row[d].public /\ r.notified = row[d].notified
    BY <1>a DEF Rows
  <1>2. Update(d, r)
    BY DEF SetExpiry
  <1> HIDE DEF r
  <1>3. /\ r.life \in {"live", "trash"} \/ ~Present(d)
        /\ r.public => d \in sharedOnce
        /\ r.life = "live" /\ r.notified => \E u \in Users : <<d, u>> \in warned
    BY <1>1 DEF Tables, Present, RowsAgree, FlaggedAfterMessage, Live
  <1> QED
    BY <1>1, <1>2, <1>3, TablesUpdated DEF Tables

LEMMA Continued ==
  ASSUME IInv, NEW h \in Handlers, Continue(h)
  PROVE  Tables' /\ Served'
  <1>0. Tables /\ Served /\ warned \subseteq Docs \X Users /\ sharedOnce \subseteq Docs
    BY DEF IInv, Tables
  <1>d. req[h].at \notin {"idle", "create"} => req[h].doc \in Docs /\ req[h].user \in Users
    BY <1>0 DEF Served, Carried
  <1> DEFINE d == req[h].doc
             u == req[h].user
  <1>1. CASE PinUpsert(h)
    <2>1. d \in Docs /\ u \in Users
      BY <1>1, <1>d DEF PinUpsert
    <2>2. Served'
      BY <1>0, <1>1, Moved, Finished DEF PinUpsert, Labels
    <2>3. /\ refs' = refs \/ (Present(d) /\ refs' = refs \cup {<<u, d>>})
          /\ pinned' \subseteq refs' /\ UNCHANGED <<row, warned, sharedOnce>>
      BY <1>0, <1>1 DEF PinUpsert, Live, Present, Tables
    <2> QED
      BY <1>0, <2>1, <2>2, <2>3, TablesLinked
  <1>2. CASE PinExpire(h)
    <2>1. d \in Docs
      BY <1>2, <1>d DEF PinExpire
    <2> QED
      BY <1>0, <1>2, <2>1, TablesDated, Finished DEF PinExpire
  <1>3. CASE UnpinCount(h)
    BY <1>0, <1>3, TablesUntouched, Moved, Finished DEF UnpinCount, Labels
  <1>4. CASE UnpinCountFails(h)
    BY <1>0, <1>4, TablesUntouched, Moved DEF UnpinCountFails, Labels
  <1>5. CASE SetDay(h)
    <2>1. d \in Docs
      BY <1>5, <1>d DEF SetDay
    <2> QED
      BY <1>0, <1>5, <2>1, TablesDated, Finished DEF SetDay
  <1>6. CASE CountRefs(h)
    BY <1>0, <1>6, TablesUntouched, Moved, Finished DEF CountRefs, Labels
  <1>7. CASE SoftDelete(h)
    <2>1. d \in Docs
      BY <1>7, <1>d DEF SoftDelete
    <2> DEFINE r == [row[d] EXCEPT !.life = "trash", !.aged = FALSE,
                                   !.expiry = "past", !.notified = TRUE]
    <2>a. row[d] \in Rows
      BY <1>0, <2>1 DEF Tables
    <2>2. /\ r \in Rows /\ r.life = "trash" /\ r.creator = row[d].creator
          /\ r.public = row[d].public
      BY <2>a DEF Rows
    <2>4. row[d].public => d \in sharedOnce
      BY <1>0, <2>1 DEF Tables, RowsAgree
    <2>3. Update(d, r) /\ UNCHANGED <<refs, pinned, warned, sharedOnce>> /\ Finish(h)
      BY <1>7 DEF SoftDelete
    <2> HIDE DEF r, d
    <2> QED
      BY <1>0, <2>1, <2>2, <2>3, <2>4, TablesUpdated, Finished
  <1>8. CASE RestoreTrash(h)
    <2>1. d \in Docs
      BY <1>8, <1>d DEF RestoreTrash
    <2> DEFINE r == [row[d] EXCEPT !.life = "live", !.aged = FALSE,
                                   !.expiry = IF req[h].room THEN "never" ELSE "future",
                                   !.notified = FALSE]
    <2>a. row[d] \in Rows
      BY <1>0, <2>1 DEF Tables
    <2>2. /\ r \in Rows /\ r.life = "live" /\ r.creator = row[d].creator /\ ~r.notified
          /\ r.public = row[d].public
      BY <2>a DEF Rows
    <2>3. Update(d, r) /\ UNCHANGED <<refs, pinned, warned, sharedOnce>> /\ Goto(h, "link")
      BY <1>8 DEF RestoreTrash
    <2>4. Served'
      BY <1>0, <1>8, Moved DEF RestoreTrash, Labels
    <2>5. row[d].public => d \in sharedOnce
      BY <1>0, <2>1 DEF Tables, RowsAgree
    <2> HIDE DEF r, d
    <2> QED
      BY <1>0, <2>1, <2>2, <2>3, <2>4, <2>5, TablesUpdated
  <1>9. CASE CountOld(h)
    <2>1. Goto(h, "erase") \/ Goto(h, "link")
      BY <1>9 DEF CountOld
    <2> QED
      BY <1>0, <1>9, <2>1, TablesUntouched, Moved DEF CountOld, Labels
  <1>10. CASE CountOldFails(h)
    BY <1>0, <1>10, TablesUntouched, Moved DEF CountOldFails, Labels
  <1>11. CASE EraseOld(h)
    <2>1. d \in Docs /\ u \in Users
      BY <1>11, <1>d DEF EraseOld
    <2>2. Tables'
      BY <1>0, <1>11, <2>1, TablesErased DEF EraseOld
    <2> DEFINE r == [req[h] EXCEPT !.at = "create", !.doc = NoDoc]
    <2>3. r \in Requests /\ r.at = "create" /\ r.user \in Users
      BY <1>0, <2>1 DEF Served, Requests, Labels
    <2>4. req' = [req EXCEPT ![h] = r]
      BY <1>11 DEF EraseOld
    <2> HIDE DEF r
    <2>5. Served'
      BY <1>0, <2>3, <2>4 DEF Served, Carried
    <2> QED
      BY <2>2, <2>5
  <1>12. ASSUME NEW e \in Docs, CreateDocument(h, e) PROVE Tables' /\ Served'
    BY <1>0, <1>12, TablesInserted, Finished DEF CreateDocument
  <1>13. ASSUME NEW e \in Docs, CreateConflict(h, e) PROVE Tables' /\ Served'
    <2>1. Tables'
      BY <1>0, <1>13, TablesUntouched DEF CreateConflict
    <2> DEFINE r == [req[h] EXCEPT !.at = "link", !.doc = e]
    <2>2. r \in Requests /\ r.at = "link" /\ r.user \in Users /\ r.doc = e
      BY <1>0, <1>13 DEF Served, Requests, Labels, Carried, CreateConflict
    <2>3. req' = [req EXCEPT ![h] = r]
      BY <1>13 DEF CreateConflict
    <2> HIDE DEF r
    <2>4. Served'
      BY <1>0, <2>2, <2>3 DEF Served, Carried
    <2> QED
      BY <2>1, <2>4
  <1>14. CASE LinkDuplicate(h)
    <2>1. d \in Docs /\ u \in Users
      BY <1>14, <1>d DEF LinkDuplicate
    <2>2. /\ refs' = refs \/ (Present(d) /\ refs' = refs \cup {<<u, d>>})
          /\ pinned' \subseteq refs' /\ UNCHANGED <<row, warned, sharedOnce>>
      BY <1>0, <1>14 DEF LinkDuplicate, Tables
    <2> QED
      BY <1>0, <1>14, <2>1, <2>2, TablesLinked, Finished DEF LinkDuplicate
  <1>15. CASE ShareQuota(h)
    BY <1>0, <1>15, TablesUntouched, Moved, Finished DEF ShareQuota, Labels
  <1>16. CASE Share(h)
    <2>1. d \in Docs /\ u \in Users
      BY <1>16, <1>d DEF Share
    <2> DEFINE r == [row[d] EXCEPT !.public = TRUE, !.expiry = "future", !.by = u]
    <2>a. row[d] \in Rows
      BY <1>0, <2>1 DEF Tables
    <2>2. /\ r \in Rows /\ r.life = row[d].life /\ r.creator = row[d].creator
          /\ r.notified = row[d].notified
      BY <1>0, <2>1, <2>a DEF Rows
    <2>3. Update(d, r) /\ UNCHANGED <<refs, pinned, warned>> /\ Finish(h)
      BY <1>16 DEF Share
    <2>4. /\ sharedOnce \subseteq sharedOnce' /\ sharedOnce' \subseteq Docs
          /\ Present(d) => d \in sharedOnce'
      BY <1>0, <1>16, <2>1 DEF Share
    <2>5. r.life = "live" /\ r.notified => \E v \in Users : <<d, v>> \in warned
      BY <1>0, <2>1, <2>2 DEF Tables, FlaggedAfterMessage, Live
    <2>6. r.life \in {"live", "trash"} \/ ~Present(d)
      BY <2>2 DEF Present
    <2> HIDE DEF r, d, u
    <2> QED
      BY <1>0, <2>1, <2>2, <2>3, <2>4, <2>5, <2>6, TablesUpdated, Finished
  <1>17. CASE Unshare(h)
    <2>1. d \in Docs /\ u \in Users
      BY <1>17, <1>d DEF Unshare
    <2> DEFINE r == [row[d] EXCEPT !.public = FALSE, !.by = NoOne]
    <2>a. row[d] \in Rows
      BY <1>0, <2>1 DEF Tables
    <2>2. /\ r \in Rows /\ r.life = row[d].life /\ r.creator = row[d].creator
          /\ r.notified = row[d].notified /\ ~r.public
      BY <1>0, <2>1, <2>a DEF Rows
    <2>3. Update(d, r) /\ UNCHANGED <<refs, pinned, warned, sharedOnce>>
      BY <1>17 DEF Unshare
    <2>4. Served'
      BY <1>0, <1>17, Moved, Finished DEF Unshare, Labels
    <2>5. r.life = "live" /\ r.notified => \E v \in Users : <<d, v>> \in warned
      BY <1>0, <2>1, <2>2 DEF Tables, FlaggedAfterMessage, Live
    <2>6. r.life \in {"live", "trash"} \/ ~Present(d)
      BY <2>2 DEF Present
    <2> HIDE DEF r, d, u
    <2> QED
      BY <1>0, <2>1, <2>2, <2>3, <2>4, <2>5, <2>6, TablesUpdated
  <1>18. CASE Use(h)
    <2>1. d \in Docs /\ u \in Users
      BY <1>18, <1>d DEF Use
    <2>2. Served'
      BY <1>0, <1>18, Moved, Finished DEF Use, Labels
    <2>3. /\ refs' = refs \/ (Present(d) /\ refs' = refs \cup {<<u, d>>})
          /\ pinned' \subseteq refs' /\ UNCHANGED <<row, warned, sharedOnce>>
      BY <1>0, <1>18 DEF Use, Tables
    <2> QED
      BY <1>0, <2>1, <2>2, <2>3, TablesLinked
  <1>19. CASE RefreshPublicDocExpiry(h)
    <2>1. d \in Docs
      BY <1>19, <1>d DEF RefreshPublicDocExpiry
    <2>2. SetExpiry(d, "future") \/ UNCHANGED row
      BY <1>19 DEF RefreshPublicDocExpiry
    <2>3. Tables'
      BY <1>0, <1>19, <2>1, <2>2, TablesDated, TablesUntouched
         DEF RefreshPublicDocExpiry, library
    <2> QED
      BY <1>0, <1>19, <2>3, Finished DEF RefreshPublicDocExpiry
  <1>20. CASE LinkRefused(h)
    BY <1>0, <1>20, TablesUntouched, Finished DEF LinkRefused, library
  <1> QED
    BY <1>1, <1>2, <1>3, <1>4, <1>5, <1>6, <1>7, <1>8, <1>9, <1>10, <1>11, <1>12, <1>13,
       <1>14, <1>15, <1>16, <1>17, <1>18, <1>19, <1>20 DEF Continue

-----------------------------------------------------------------------------
(* What runs behind the requests.                                          *)

LEMMA BehindUntouched ==
  ASSUME Behind, UNCHANGED <<sweep, exp>>, warned \subseteq warned',
         job' \in [Docs -> {"none", "work", "link", "done"}]
  PROVE  Behind'
  BY DEF Behind, MarkedIsWarned

(* No request but the one that inserts a document changes it.              *)
LEMMA RequestsBehind ==
  ASSUME IInv, NEW h \in Handlers, Request(h) \/ Continue(h)
  PROVE  Behind' /\ crashes' = crashes /\ faults' \in 0..MaxFaults
  <1> USE DEF IInv, Counts
  <1>1. CASE Request(h)
    <2>1. UNCHANGED <<job, sweep, exp, crashes, warned, faults>>
      BY <1>1 DEF Request, PinQuota, UnpinUpsert, Unlink, Fork, ShareCheck, UnshareCheck,
         UseCheck, UnlinkDocFromRoom, CloseRoomAgain, FindByHash, Background
    <2> QED
      BY <2>1, BehindUntouched DEF Behind
  <1>2. CASE \E d \in Docs : CreateDocument(h, d)
    <2>1. /\ UNCHANGED <<sweep, exp, crashes, warned, faults>>
          /\ \E d \in Docs : job' = [job EXCEPT ![d] = "work"]
      BY <1>2 DEF CreateDocument
    <2>2. job' \in [Docs -> {"none", "work", "link", "done"}]
      BY <2>1 DEF Behind
    <2> QED
      BY <2>1, <2>2, BehindUntouched
  <1>3. CASE Continue(h) /\ ~(\E d \in Docs : CreateDocument(h, d))
    <2>1. /\ UNCHANGED <<job, sweep, exp, crashes, warned>>
          /\ UNCHANGED faults \/ Fault
      BY <1>3 DEF Continue, PinUpsert, PinExpire, UnpinCount, UnpinCountFails, SetDay,
         CountRefs, SoftDelete, RestoreTrash, CountOld, CountOldFails, EraseOld,
         CreateConflict, LinkDuplicate, LinkRefused, ShareQuota, Share, Unshare, Use,
         RefreshPublicDocExpiry, Background
    <2>2. faults' \in 0..MaxFaults
      BY <2>1, BoundsAssumption DEF Fault
    <2> QED
      BY <2>1, <2>2, BehindUntouched DEF Behind
  <1> QED
    BY <1>1, <1>2, <1>3

LEMMA Worked ==
  ASSUME IInv, NEW d \in Docs, MarkReady(d) \/ LinkUploader(d)
  PROVE  Tables' /\ Served' /\ Behind' /\ UNCHANGED <<crashes, faults>>
  <1>0. Tables /\ Served /\ Behind /\ warned \subseteq Docs \X Users
    BY DEF IInv, Tables
  <1>1. UNCHANGED <<req, sweep, exp, warned, sharedOnce, crashes, faults, row, pinned>>
    BY DEF MarkReady, LinkUploader, library
  <1>2. job' \in [Docs -> {"none", "work", "link", "done"}]
    BY <1>0 DEF MarkReady, LinkUploader, Behind
  <1>3. Served' /\ Behind'
    BY <1>0, <1>1, <1>2, BehindUntouched DEF Served, Carried
  <1>4. CASE refs' = refs
    BY <1>0, <1>1, <1>3, <1>4, TablesUntouched DEF library
  <1>5. CASE refs' # refs
    <2>1. Present(d) /\ refs' = refs \cup {<<row[d].creator, d>>}
      BY <1>5 DEF MarkReady, LinkUploader, library
    <2>2. row[d].creator \in Users /\ pinned' \subseteq refs'
      BY <1>0, <1>1, <2>1 DEF Tables, RowsAgree
    <2> QED
      BY <1>0, <1>1, <1>3, <2>1, <2>2, TablesLinked
  <1> QED
    BY <1>4, <1>5

(* What a statement of the sweep does to the tables.                       *)
LEMMA SweepStatement ==
  ASSUME IInv, NEW s \in Sweepers, Sweep(s)
  PROVE  /\ UNCHANGED <<job, req, exp, warned, sharedOnce, crashes>>
         /\ UNCHANGED faults \/ Fault
         /\ UNCHANGED library \/ (\E S \in SUBSET Docs : Erase(S)) \/ RoomsOnly
  <1>0. Tables /\ Behind
    BY DEF IInv
  <1>1. sweep[s].old \in SUBSET Docs
    BY <1>0 DEF Behind
  <1>2. {d \in Docs : Expired(d)} \in SUBSET Docs /\ {d \in Docs : row[d].room = "over"} \in SUBSET Docs
    OBVIOUS
  <1>3. ASSUME SweepRooms(s) PROVE RoomsOnly
    <2> DEFINE n(d) == [row[d] EXCEPT !.room = "none"]
    <2>1. ASSUME NEW d \in Docs
          PROVE  /\ n(d) \in Rows /\ n(d).life = row[d].life /\ n(d).expiry = row[d].expiry
                 /\ n(d).notified = row[d].notified /\ n(d).public = row[d].public
                 /\ n(d).creator = row[d].creator /\ row[d] \in Rows
      <3>1. row[d] \in Rows
        BY <1>0 DEF Tables
      <3> QED
        BY <3>1 DEF Rows
    <2>2. /\ row' = [d \in Docs |-> IF row[d].room = "over" THEN n(d) ELSE row[d]]
          /\ UNCHANGED <<refs, pinned>>
      BY <1>3 DEF SweepRooms
    <2> HIDE DEF n
    <2> QED
      BY <2>1, <2>2 DEF RoomsOnly
  <1> QED
    BY <1>1, <1>2, <1>3 DEF Sweep, SweepSelect, SweepDelete, SweepSelectOld, SweepEraseOld,
       SweepRoomDocs, SweepRoomDocsFails, SweepRooms, SweepNotify, SweepOnly, library

LEMMA Swept ==
  ASSUME IInv, NEW s \in Sweepers, Sweep(s)
  PROVE  Tables' /\ Served' /\ Behind' /\ crashes' = crashes /\ faults' \in 0..MaxFaults
  <1>0. Tables /\ Served /\ Behind /\ warned \subseteq Docs \X Users
    BY DEF IInv, Tables
  <1>1. UNCHANGED <<job, req, exp, warned, sharedOnce, crashes>>
    BY SweepStatement
  <1>2. Served'
    BY <1>0, <1>1 DEF Served, Carried
  <1>3. faults' \in 0..MaxFaults
    BY SweepStatement, BoundsAssumption DEF Fault, IInv, Counts
  <1>4. Tables'
    BY <1>0, <1>1, SweepStatement, TablesUntouched, TablesErased, TablesRoomed
  <1> DEFINE T == [at : {"idle", "delete", "selectOld", "eraseOld", "roomDocs", "rooms",
                         "notify"},
                   found : SUBSET Docs, old : SUBSET Docs]
  <1>t. NoSweep \in T
    BY DEF NoSweep
  <1>5. \E t \in T : sweep' = [sweep EXCEPT ![s] = t]
    <2>1. sweep[s] \in T
      BY <1>0 DEF Behind
    <2>a. ASSUME NEW l \in {"selectOld", "rooms", "idle", "notify"},
                 sweep' = [sweep EXCEPT ![s].at = l]
          PROVE  \E t \in T : sweep' = [sweep EXCEPT ![s] = t]
      <3>1. [sweep[s] EXCEPT !.at = l] \in T
        BY <2>1
      <3> QED
        BY <2>a, <3>1
    <2>2. CASE SweepSelect(s)
      <3> DEFINE F == {d \in Docs : Expired(d) /\ Readers(d) # {}}
      <3>1. F \in SUBSET Docs
        OBVIOUS
      <3>2. sweep' = [sweep EXCEPT ![s].at = "delete", ![s].found = F]
        BY <2>2 DEF SweepSelect
      <3> HIDE DEF F
      <3>3. [sweep[s] EXCEPT !.at = "delete", !.found = F] \in T
        BY <2>1, <3>1
      <3> QED
        BY <3>2, <3>3
    <2>3. CASE SweepDelete(s) \/ SweepRoomDocs(s) \/ SweepRoomDocsFails(s) \/ SweepRooms(s)
      BY <2>3, <2>a DEF SweepDelete, SweepRoomDocs, SweepRoomDocsFails, SweepRooms
    <2>4. CASE SweepSelectOld(s)
      <3> DEFINE F == {d \in Docs : row[d].life = "trash" /\ row[d].aged}
      <3>1. F \in SUBSET Docs
        OBVIOUS
      <3>2. sweep' = [sweep EXCEPT ![s] = [@ EXCEPT !.at = "eraseOld", !.old = F]]
        BY <2>4 DEF SweepSelectOld
      <3> HIDE DEF F
      <3>3. [sweep[s] EXCEPT !.at = "eraseOld", !.old = F] \in T
        BY <2>1, <3>1
      <3> QED
        BY <1>0, <3>2, <3>3 DEF Behind
    <2>5. CASE SweepEraseOld(s)
      <3>1. [sweep[s] EXCEPT !.at = "roomDocs", !.old = {}] \in T
        BY <2>1
      <3>2. sweep' = [sweep EXCEPT ![s].at = "roomDocs", ![s].old = {}]
        BY <2>5 DEF SweepEraseOld
      <3> QED
        BY <3>1, <3>2
    <2>6. ASSUME NEW x \in Docs, SweepNotify(s, x)
          PROVE  \E t \in T : sweep' = [sweep EXCEPT ![s] = t]
      <3> DEFINE F == sweep[s].found \ {x}
                 q == IF sweep[s].found = {x} THEN NoSweep
                      ELSE [sweep[s] EXCEPT !.found = F]
      <3>1. q \in T
        <4>1. F \in SUBSET Docs
          BY <2>1
        <4> HIDE DEF F
        <4>2. [sweep[s] EXCEPT !.found = F] \in T
          BY <2>1, <4>1
        <4> QED
          BY <1>t, <4>2
      <3>2. sweep' = [sweep EXCEPT ![s] = q]
        BY <2>6 DEF SweepNotify
      <3> HIDE DEF q
      <3> QED
        BY <3>1, <3>2
    <2> QED
      BY <2>2, <2>3, <2>4, <2>5, <2>6 DEF Sweep
  <1>6. Behind'
    <2>1. sweep' \in [Sweepers -> T]
      <3>1. sweep \in [Sweepers -> T]
        BY <1>0 DEF Behind
      <3> HIDE DEF T
      <3> QED
        BY <1>5, <3>1
    <2> QED
      BY <1>0, <1>1, <2>1 DEF Behind, MarkedIsWarned
  <1> QED
    BY <1>1, <1>2, <1>3, <1>4, <1>6

LEMMA Announced ==
  ASSUME IInv, NEW e \in Expirers, Expire(e)
  PROVE  Tables' /\ Served' /\ Behind' /\ crashes' = crashes /\ faults' \in 0..MaxFaults
  <1>0. Tables /\ Served /\ Behind /\ faults \in 0..MaxFaults
    BY DEF IInv, Counts
  <1> DEFINE T == [todo : SUBSET (Docs \X Users), mark : Docs \cup {NoDoc}]
  <1>t. exp[e] \in T /\ exp \in [Expirers -> T]
    BY <1>0 DEF Behind
  <1>1. CASE ExpireSelect(e)
    <2>1. UNCHANGED <<library, job, req, sweep, sharedOnce, crashes, warned, faults>>
      BY <1>1 DEF ExpireSelect, ExpOnly
    <2>2. PICK S \in SUBSET (Docs \X Users) :
             exp' = [exp EXCEPT ![e] = [todo |-> S, mark |-> NoDoc]]
      BY <1>1 DEF ExpireSelect, ToWarn
    <2>3. Tables' /\ Served'
      BY <1>0, <2>1, TablesUntouched DEF Tables, Served, Carried
    <2>4. Behind'
      BY <1>0, <2>1, <2>2 DEF Behind, MarkedIsWarned
    <2> QED
      BY <1>0, <2>1, <2>3, <2>4
  <1>2. ASSUME NEW x \in Docs \X Users, Warn(e, x)
        PROVE  Tables' /\ Served' /\ Behind' /\ crashes' = crashes /\ faults' \in 0..MaxFaults
    <2>1. UNCHANGED <<library, job, req, sweep, sharedOnce, crashes, faults>>
      BY <1>2 DEF Warn, ExpOnly
    <2>2. warned' = warned \cup {x}
      BY <1>2 DEF Warn
    <2> DEFINE q == [exp[e] EXCEPT !.todo = @ \ {x}, !.mark = x[1]]
    <2>3. q \in T /\ q.mark = x[1]
      BY <1>t, <1>2
    <2>4. exp' = [exp EXCEPT ![e] = q]
      BY <1>2 DEF Warn
    <2> HIDE DEF q
    <2>5. Tables' /\ Served'
      BY <1>0, <2>1, <2>2, TablesUntouched DEF Tables, Served, Carried
    <2>6. exp' \in [Expirers -> T]
      BY <1>t, <2>3, <2>4
    <2>7. PICK d \in Docs, u \in Users : x = <<d, u>>
      OBVIOUS
    <2>8. MarkedIsWarned'
      BY <1>0, <1>t, <2>2, <2>3, <2>4, <2>7 DEF Behind, MarkedIsWarned
    <2> QED
      BY <1>0, <2>1, <2>5, <2>6, <2>8 DEF Behind
  <1>3. ASSUME NEW x \in Docs \X Users, WarnFails(e, x)
        PROVE  Tables' /\ Served' /\ Behind' /\ crashes' = crashes /\ faults' \in 0..MaxFaults
    <2>1. UNCHANGED <<library, job, req, sweep, sharedOnce, crashes, warned>> /\ Fault
      BY <1>3 DEF WarnFails, ExpOnly
    <2>2. faults' \in 0..MaxFaults
      BY <1>0, <2>1, BoundsAssumption DEF Fault
    <2> DEFINE q == [exp[e] EXCEPT !.todo = @ \ {x}]
    <2>3. q \in T /\ q.mark = exp[e].mark
      BY <1>t
    <2>4. exp' = [exp EXCEPT ![e] = q]
      BY <1>3 DEF WarnFails
    <2> HIDE DEF q
    <2>5. Tables' /\ Served'
      BY <1>0, <2>1, TablesUntouched DEF Tables, Served, Carried
    <2>6. exp' \in [Expirers -> T] /\ MarkedIsWarned'
      BY <1>0, <1>t, <2>1, <2>3, <2>4 DEF Behind, MarkedIsWarned
    <2> QED
      BY <1>0, <2>1, <2>2, <2>5, <2>6 DEF Behind
  <1>4. CASE MarkWarned(e)
    <2> DEFINE d == exp[e].mark
               r == [row[d] EXCEPT !.notified = TRUE]
    <2>1. d \in Docs
      BY <1>t, <1>4 DEF MarkWarned
    <2>2. /\ Update(d, r) /\ exp' = [exp EXCEPT ![e].mark = NoDoc]
          /\ UNCHANGED <<refs, pinned, job, req, sweep, warned, sharedOnce, crashes, faults>>
      BY <1>4 DEF MarkWarned
    <2>3. \E u \in Users : <<d, u>> \in warned
      BY <1>0, <1>4 DEF Behind, MarkedIsWarned, MarkWarned
    <2>4. row[d] \in Rows /\ (row[d].public => d \in sharedOnce)
      BY <1>0, <2>1 DEF Tables, RowsAgree
    <2>5. /\ r \in Rows /\ r.life = row[d].life /\ r.creator = row[d].creator
          /\ r.public = row[d].public
      BY <2>4 DEF Rows
    <2>6. r.life \in {"live", "trash"} \/ ~Present(d)
      BY <2>5 DEF Present
    <2>7. exp' \in [Expirers -> T] /\ MarkedIsWarned'
      BY <1>0, <1>t, <2>2 DEF Behind, MarkedIsWarned
    <2>8. Behind' /\ Served'
      BY <1>0, <2>2, <2>7 DEF Behind, Served, Carried
    <2> HIDE DEF r, d
    <2>9. Tables'
      BY <1>0, <2>1, <2>2, <2>3, <2>4, <2>5, <2>6, TablesUpdated DEF Tables
    <2> QED
      BY <1>0, <2>2, <2>8, <2>9
  <1> QED
    BY <1>1, <1>2, <1>3, <1>4 DEF Expire

LEMMA TimePasses ==
  ASSUME IInv, NEW d \in Docs, ExpiryPasses(d) \/ TrashAges(d) \/ RoomAges(d)
  PROVE  Tables' /\ Served' /\ Behind' /\ UNCHANGED <<crashes, faults>>
  <1>0. Tables /\ Served /\ Behind
    BY DEF IInv
  <1>1. UNCHANGED <<refs, pinned, job, req, sweep, exp, warned, sharedOnce, crashes, faults>>
    BY DEF ExpiryPasses, TrashAges, RoomAges
  <1>2. Served' /\ Behind'
    BY <1>0, <1>1 DEF Served, Carried, Behind, MarkedIsWarned
  <1>3. CASE ExpiryPasses(d)
    BY <1>0, <1>1, <1>2, <1>3, TablesDated DEF ExpiryPasses
  <1>4. CASE TrashAges(d)
    <2> DEFINE r == [row[d] EXCEPT !.aged = TRUE]
    <2>1. row[d] \in Rows /\ (row[d].public => d \in sharedOnce)
      BY <1>0 DEF Tables, RowsAgree
    <2>2. /\ r \in Rows /\ r.life = "trash" /\ r.creator = row[d].creator
          /\ r.public = row[d].public
      BY <1>4, <2>1 DEF Rows, TrashAges
    <2>3. Update(d, r)
      BY <1>4 DEF TrashAges
    <2> HIDE DEF r
    <2>4. Tables'
      BY <1>0, <1>1, <2>1, <2>2, <2>3, TablesUpdated DEF Tables
    <2> QED
      BY <1>1, <1>2, <2>4
  <1>5. CASE RoomAges(d)
    BY <1>0, <1>1, <1>2, <1>5, RoomWritten, TablesRoomed DEF RoomAges
  <1> QED
    BY <1>3, <1>4, <1>5

LEMMA Restarted ==
  ASSUME IInv, Restart, UNCHANGED served
  PROVE  IInv'
  <1>0. Tables /\ Served /\ Behind /\ Counts
    BY DEF IInv
  <1>1. Tables'
    BY <1>0, TablesUntouched DEF Restart, Tables
  <1>2. Served'
    BY IdleRequest DEF Restart, Served, Carried
  <1>3. Behind'
    BY <1>0 DEF Restart, Behind, MarkedIsWarned, NoSweep, NoExpiry
  <1>4. (crashes \in 0..MaxCrashes /\ faults \in 0..MaxFaults)'
    BY <1>0, BoundsAssumption DEF Restart, Counts
  <1> QED
    BY <1>1, <1>2, <1>3, <1>4 DEF IInv, Restart, Counts

LEMMA InitIInv == Init => IInv
  <1> SUFFICES ASSUME Init PROVE IInv
    OBVIOUS
  <1>1. NoRow("none") \in Rows /\ \A d \in Docs : ~Present(d) /\ ~row[d].public /\ ~Live(d)
    BY DEF Init, NoRow, Rows, Present, Live
  <1>2. Tables
    BY <1>1 DEF Init, Tables, RowsAgree, OneRowPerFile, FlaggedAfterMessage
  <1>3. Served
    BY IdleRequest DEF Init, Served, Carried
  <1>4. Behind
    BY DEF Init, Behind, MarkedIsWarned, NoSweep, NoExpiry
  <1>5. Counts
    BY BoundsAssumption DEF Init, Counts
  <1> QED
    BY <1>2, <1>3, <1>4, <1>5 DEF IInv

LEMMA NextIInv == IInv /\ [Next]_vars => IInv'
  <1> SUFFICES ASSUME IInv, [Next]_vars PROVE IInv'
    OBVIOUS
  <1>0. Tables /\ Served /\ Behind /\ Counts
    BY DEF IInv
  <1>1. CASE UNCHANGED vars
    <2>1. Tables'
      BY <1>0, <1>1, TablesUntouched DEF vars, Tables
    <2>2. Served' /\ Behind' /\ Counts'
      BY <1>0, <1>1 DEF vars, Served, Carried, Behind, MarkedIsWarned, Counts
    <2> QED
      BY <2>1, <2>2 DEF IInv
  <1>2. ASSUME NEW h \in Handlers, Request(h), Admit PROVE IInv'
    <2>1. Tables' /\ Served' /\ Behind' /\ crashes' = crashes /\ faults' \in 0..MaxFaults
      BY <1>2, Asked, RequestsBehind
    <2>2. served' \in Nat
      BY <1>0, <1>2, RequestsAssumption DEF Admit, Counts
    <2> QED
      BY <1>0, <2>1, <2>2 DEF IInv, Counts
  <1>3. ASSUME UNCHANGED served,
               Tables' /\ Served' /\ Behind' /\ crashes' = crashes /\ faults' \in 0..MaxFaults
        PROVE  IInv'
    BY <1>0, <1>3 DEF IInv, Counts
  <1>4. ASSUME UNCHANGED served, Tables' /\ Served' /\ Behind' /\ UNCHANGED <<crashes, faults>>
        PROVE  IInv'
    BY <1>0, <1>4 DEF IInv, Counts
  <1> QED
    BY <1>1, <1>2, <1>3, <1>4, Continued, RequestsBehind, Worked, Swept, Announced,
       TimePasses, Restarted DEF Next

(* What holds however the requests overlap, fail or are cut short.         *)
THEOREM Invariant == Spec => []IInv
  BY InitIInv, NextIInv, PTL DEF Spec

(* Every variable of the library keeps its type.                           *)
THEOREM TypeCorrect == Spec => []TypeOK
  <1>1. IInv => TypeOK
    BY DEF IInv, Tables, Served, Requests, Behind, Counts, TypeOK
  <1> QED
    BY <1>1, Invariant, PTL

(* However many uploads of one file race, the table has one row for it.    *)
THEOREM OneRow == Spec => []OneRowPerFile
  <1>1. IInv => OneRowPerFile
    BY DEF IInv, Tables
  <1> QED
    BY <1>1, Invariant, PTL

(* The expirer's flag is never set on a live document nobody was told of,  *)
(* whatever message fails and wherever a restart stops the loop.           *)
THEOREM FlagIsTrue == Spec => []FlaggedAfterMessage
  <1>1. IInv => FlaggedAfterMessage
    BY DEF IInv, Tables
  <1> QED
    BY <1>1, Invariant, PTL

-----------------------------------------------------------------------------
(* Requests one after the other: the trash.                                *)

TrashOK == TrashUnreadButByUploader /\ TrashUnpinned

LEMMA TrashUntouched ==
  ASSUME TrashOK, UNCHANGED library
  PROVE  TrashOK'
  BY DEF TrashOK, TrashUnreadButByUploader, TrashUnpinned, Readers, Pinners, library

LEMMA TrashUpdated ==
  ASSUME Tables, TrashOK, NEW d \in Docs, NEW r \in Rows, Update(d, r),
         r.creator = row[d].creator, UNCHANGED <<refs, pinned>>,
         Present(d) /\ r.life = "trash" =>
             Readers(d) \subseteq {row[d].creator} /\ Pinners(d) = {}
  PROVE  TrashOK'
  <1>1. \A e \in Docs : row'[e] = IF e = d /\ Present(d) THEN r ELSE row[e]
    BY Updated
  <1>2. ASSUME NEW e \in Docs, row'[e].life = "trash"
        PROVE  Readers(e)' \subseteq {row'[e].creator} /\ Pinners(e)' = {}
    <2>1. Readers(e)' = Readers(e) /\ Pinners(e)' = Pinners(e)
      BY DEF Readers, Pinners
    <2>2. CASE e = d /\ Present(d)
      <3>1. row'[e] = r
        BY <1>1, <2>2
      <3> QED
        BY <1>2, <2>1, <2>2, <3>1
    <2>3. CASE ~(e = d /\ Present(d))
      <3>1. row'[e] = row[e]
        BY <1>1, <2>3
      <3> QED
        BY <1>2, <2>1, <3>1 DEF TrashOK, TrashUnreadButByUploader, TrashUnpinned
    <2> QED
      BY <2>2, <2>3
  <1> QED
    BY <1>2 DEF TrashOK, TrashUnreadButByUploader, TrashUnpinned

LEMMA TrashErased ==
  ASSUME TrashOK, NEW S \in SUBSET Docs, Erase(S)
  PROVE  TrashOK'
  <1>1. ASSUME NEW d \in Docs, row'[d].life = "trash"
        PROVE  Readers(d)' \subseteq {row'[d].creator} /\ Pinners(d)' = {}
    <2>1. row'[d] = row[d]
      BY <1>1 DEF Erase, NoRow
    <2>2. Readers(d)' \subseteq Readers(d) /\ Pinners(d)' \subseteq Pinners(d)
      BY DEF Erase, Readers, Pinners
    <2> QED
      BY <1>1, <2>1, <2>2 DEF TrashOK, TrashUnreadButByUploader, TrashUnpinned
  <1> QED
    BY <1>1 DEF TrashOK, TrashUnreadButByUploader, TrashUnpinned

LEMMA TrashRoomed ==
  ASSUME TrashOK, RoomsOnly
  PROVE  TrashOK'
  <1>1. \A d \in Docs : Readers(d)' = Readers(d) /\ Pinners(d)' = Pinners(d)
    BY DEF RoomsOnly, Readers, Pinners
  <1> QED
    BY <1>1 DEF RoomsOnly, TrashOK, TrashUnreadButByUploader, TrashUnpinned

LEMMA TrashLinked ==
  ASSUME TrashOK, UNCHANGED row, NEW u \in Users, NEW d \in Docs,
         refs' \subseteq refs \cup {<<u, d>>}, pinned' \subseteq pinned \cup {<<u, d>>},
         row[d].life = "trash" =>
             (u = row[d].creator \/ refs' \subseteq refs) /\ pinned' \subseteq pinned
  PROVE  TrashOK'
  <1>1. ASSUME NEW e \in Docs, row[e].life = "trash"
        PROVE  Readers(e)' \subseteq {row[e].creator} /\ Pinners(e)' = {}
    <2>1. Readers(e) \subseteq {row[e].creator} /\ Pinners(e) = {}
      BY <1>1 DEF TrashOK, TrashUnreadButByUploader, TrashUnpinned
    <2>2. CASE e # d
      BY <2>1, <2>2 DEF Readers, Pinners
    <2>3. CASE e = d
      BY <1>1, <2>1, <2>3 DEF Readers, Pinners
    <2> QED
      BY <2>2, <2>3
  <1> QED
    BY <1>1 DEF TrashOK, TrashUnreadButByUploader, TrashUnpinned

(* What the worker, the sweeps and the clock may do to the library.        *)
Aged ==
    /\ \A d \in Docs :
          /\ row'[d].life = "gone" \/ row'[d].life = row[d].life
          /\ row'[d].life = "gone" \/ row'[d].creator = row[d].creator
          /\ \/ row'[d].life = "gone"
             \/ row'[d].expiry = row[d].expiry
             \/ row[d].expiry = "future" /\ row'[d].expiry = "past"
          /\ row'[d].life = "gone" \/ Readers(d) \subseteq Readers(d)'
          /\ row'[d].life = "gone" => Readers(d)' = {}
          /\ Readers(d)' \subseteq Readers(d) \cup {row[d].creator}
          /\ Pinners(d)' \subseteq Pinners(d)
    /\ \A x \in refs : x \in refs' \/ row'[x[2]].life = "gone"

LEMMA SeenAged ==
  ASSUME Tables, Aged, NEW r, r.at \notin {"idle", "create"} => r.doc \in Docs, Seen(r)
  PROVE  Seen(r)'
  <1> USE DEF Seen, Aged, Present, Live, Expired
  <1>1. CASE r.at \in {"countOld", "erase"}
    BY <1>1
  <1>2. CASE r.at = "restore"
    BY <1>2
  <1>3. CASE r.at \in {"link", "use", "refresh", "pinExpire"}
    BY <1>3
  <1>4. CASE r.at = "create"
    BY <1>4
  <1>5. CASE r.at \in {"shareQuota", "share", "unshare", "unpinCount", "setDay"}
    BY <1>5
  <1>6. CASE r.at = "trash"
    BY <1>6
  <1> QED
    BY <1>1, <1>2, <1>3, <1>4, <1>5, <1>6

-----------------------------------------------------------------------------
(* SerialInv is inductive.                                                 *)

LEMMA OneSeen ==
  ASSUME Serial, NEW h \in Handlers, Seen(req[h])'
  PROVE  \A g \in Handlers : Seen(req[g])'
  BY DEF Serial

LEMMA SeenIdle ==
  ASSUME NEW h \in Handlers, req'[h] = Idle
  PROVE  Seen(req[h])'
  BY DEF Seen, Idle

LEMMA ReadersAre ==
  ASSUME NEW d \in Docs, NEW u \in Users
  PROVE  u \in Readers(d) <=> <<u, d>> \in refs
  BY DEF Readers

LEMMA SerialAsked ==
  ASSUME IInv, Serial, SerialInv, NEW h \in Handlers, Request(h)
  PROVE  SerialInv'
  <1>0. Tables /\ Served /\ TrashOK /\ Seen(req[h])
    BY DEF IInv, SerialInv, TrashOK
  <1>s. ASSUME TrashOK', Seen(req[h])' PROVE SerialInv'
    BY <1>s, OneSeen DEF SerialInv, TrashOK
  <1>1. ASSUME NEW u \in Users, NEW d \in Docs, PinQuota(h, u, d) PROVE SerialInv'
    <2>1. req'[h].at = "pinUpsert"
      BY <1>0, <1>1, ServeRequest, Started DEF PinQuota, Labels
    <2>2. Seen(req[h])'
      BY <2>1 DEF Seen
    <2> QED
      BY <1>0, <1>1, <1>s, <2>2, TrashUntouched DEF PinQuota
  <1>2. ASSUME NEW u \in Users, NEW d \in Docs, UnpinUpsert(h, u, d) PROVE SerialInv'
    <2>1. req'[h].at = "unpinCount" /\ req'[h].user = u /\ req'[h].doc = d
      BY <1>0, <1>2, ServeRequest, Started DEF UnpinUpsert, Labels
    <2>2. /\ row[d].life = "live" /\ UNCHANGED row
          /\ refs' = refs \cup {<<u, d>>} /\ pinned' = pinned \ {<<u, d>>}
      BY <1>2 DEF UnpinUpsert, Live
    <2>3. Seen(req[h])'
      BY <2>1, <2>2 DEF Seen
    <2>4. TrashOK'
      BY <1>0, <2>2, TrashLinked
    <2> QED
      BY <1>s, <2>3, <2>4
  <1>3. ASSUME NEW u \in Users, NEW d \in Docs, Unlink(h, u, d) PROVE SerialInv'
    <2>1. req'[h].at = "countRefs"
      BY <1>0, <1>3, ServeRequest, Started DEF Unlink, Labels
    <2>2. UNCHANGED row /\ refs' \subseteq refs /\ pinned' \subseteq pinned
      BY <1>3 DEF Unlink
    <2>3. Seen(req[h])'
      BY <2>1 DEF Seen
    <2>4. TrashOK'
      BY <1>0, <2>2, TrashLinked
    <2> QED
      BY <1>s, <2>3, <2>4
  <1>4. ASSUME NEW u \in Users, NEW d \in Docs, Fork(h, u, d) PROVE SerialInv'
    <2>1. /\ req'[h] = Idle /\ row[d].life = "live"
          /\ refs' = refs \cup {<<u, d>>} /\ UNCHANGED <<row, pinned>>
      BY <1>4 DEF Fork, Live
    <2>2. TrashOK'
      BY <1>0, <2>1, TrashLinked
    <2> QED
      BY <1>s, <2>1, <2>2, SeenIdle
  <1>5. ASSUME NEW u \in Users, NEW d \in Docs, ShareCheck(h, u, d) PROVE SerialInv'
    <2>1. /\ req'[h].at = "shareQuota" /\ req'[h].user = u /\ req'[h].doc = d
      BY <1>0, <1>5, ServeRequest, Started DEF ShareCheck, Labels
    <2>2. <<u, d>> \in refs' /\ UNCHANGED library
      BY <1>5, ReadersAre DEF ShareCheck, library
    <2>3. Seen(req[h])'
      BY <2>1, <2>2 DEF Seen
    <2> QED
      BY <1>0, <1>s, <2>2, <2>3, TrashUntouched
  <1>6. ASSUME NEW u \in Users, NEW d \in Docs, UnshareCheck(h, u, d) PROVE SerialInv'
    <2>1. /\ req'[h].at = "unshare" /\ req'[h].user = u /\ req'[h].doc = d
      BY <1>0, <1>6, ServeRequest, Started DEF UnshareCheck, Labels
    <2>2. <<u, d>> \in refs' /\ UNCHANGED library
      BY <1>6, ReadersAre DEF UnshareCheck, library
    <2>3. Seen(req[h])'
      BY <2>1, <2>2 DEF Seen
    <2> QED
      BY <1>0, <1>s, <2>2, <2>3, TrashUntouched
  <1>7. ASSUME NEW u \in Users, NEW d \in Docs, UseCheck(h, u, d) PROVE SerialInv'
    <2>1. /\ req'[h].at = "use" /\ req'[h].user = u /\ req'[h].doc = d
      BY <1>0, <1>7, ServeRequest, Started DEF UseCheck, Labels
    <2>2. row'[d].life = "live" /\ UNCHANGED library
      BY <1>7 DEF UseCheck, Live, library
    <2>3. Seen(req[h])'
      BY <2>1, <2>2 DEF Seen
    <2> QED
      BY <1>0, <1>s, <2>2, <2>3, TrashUntouched
  <1>8. ASSUME NEW u \in Users, NEW f \in Files, NEW r \in BOOLEAN, FindByHash(h, u, f, r)
        PROVE  SerialInv'
    <2>1. UNCHANGED library /\ TrashOK'
      BY <1>0, <1>8, TrashUntouched DEF FindByHash
    <2>2. ASSUME NEW l \in Labels, NEW d \in Docs \cup {NoDoc}, d \in Docs \/ l = "create",
                 Start(h, Upload(l, u, f, r, d))
          PROVE  /\ req'[h].at = l /\ req'[h].doc = d
                 /\ req'[h].user = u /\ req'[h].file = f
      <3>1. /\ Upload(l, u, f, r, d) \in Requests /\ Upload(l, u, f, r, d).file = f
            /\ req'[h] = Upload(l, u, f, r, d)
        BY <1>0, <2>2, UploadRequest, Started DEF Upload
      <3> QED
        BY <2>2, <3>1, UploadRequest
    <2>3. ASSUME NEW d \in Docs, FileOf[d] = f, row[d].life = "trash",
                 Start(h, Upload("restore", u, f, r, d))
          PROVE  Seen(req[h])'
      <3>1. req'[h].at = "restore" /\ req'[h].doc = d
        BY <2>2, <2>3 DEF Labels
      <3> QED
        BY <2>1, <2>3, <3>1 DEF Seen, Live, library
    <2>4. ASSUME NEW d \in Docs, FileOf[d] = f, Expired(d),
                 Start(h, Upload("countOld", u, f, r, d))
          PROVE  Seen(req[h])'
      <3>1. req'[h].at = "countOld" /\ req'[h].doc = d /\ req'[h].file = f
        BY <2>2, <2>4 DEF Labels
      <3>2. \A e \in Docs \ {d} : FileOf[e] = f => ~Present(e)
        BY <1>0, <2>4 DEF Tables, OneRowPerFile, Expired, Live, Present
      <3> QED
        BY <2>1, <2>4, <3>1, <3>2 DEF Seen, Expired, Live, Present, library
    <2>5. ASSUME NEW d \in Docs, Live(d), Start(h, Upload("link", u, f, r, d))
          PROVE  Seen(req[h])'
      <3>1. req'[h].at = "link" /\ req'[h].doc = d
        BY <2>2, <2>5 DEF Labels
      <3> QED
        BY <2>1, <2>5, <3>1 DEF Seen, Live, library
    <2>6. ASSUME \A d \in Docs : FileOf[d] = f => ~Present(d),
                 Start(h, Upload("create", u, f, r, NoDoc))
          PROVE  Seen(req[h])'
      <3>1. req'[h].at = "create" /\ req'[h].file = f
        BY <2>2, <2>6 DEF Labels
      <3> QED
        BY <2>1, <2>6, <3>1 DEF Seen, Present, library
    <2> QED
      BY <1>8, <1>s, <2>1, <2>3, <2>4, <2>5, <2>6 DEF FindByHash
  <1>9. ASSUME NEW d \in Docs, UnlinkDocFromRoom(h, d) \/ CloseRoomAgain(h, d) PROVE SerialInv'
    <2>1. RoomsOnly /\ req'[h] = Idle
      BY <1>0, <1>9, RoomRequests
    <2> QED
      BY <1>0, <1>s, <2>1, SeenIdle, TrashRoomed
  <1> QED
    BY <1>1, <1>2, <1>3, <1>4, <1>5, <1>6, <1>7, <1>8, <1>9 DEF Request

LEMMA SerialContinued ==
  ASSUME IInv, Serial, SerialInv, NEW h \in Handlers, Continue(h)
  PROVE  SerialInv'
  <1>0. Tables /\ Served /\ TrashOK /\ Seen(req[h])
    BY DEF IInv, SerialInv, TrashOK
  <1>s. ASSUME TrashOK', Seen(req[h])' PROVE SerialInv'
    BY <1>s, OneSeen DEF SerialInv, TrashOK
  <1>f. Finish(h) => Seen(req[h])'
    BY <1>0, Finished, SeenIdle
  <1>d. req[h].at \notin {"idle", "create"} => req[h].doc \in Docs /\ req[h].user \in Users
    BY <1>0 DEF Served, Carried
  <1> DEFINE d == req[h].doc
             u == req[h].user
  <1>1. CASE PinUpsert(h)
    <2>1. d \in Docs /\ u \in Users
      BY <1>1, <1>d DEF PinUpsert
    <2>2. CASE Live(d)
      <3>1. Goto(h, "pinExpire") /\ UNCHANGED row /\ row[d].life = "live"
        BY <1>1, <2>2 DEF PinUpsert, Live
      <3>2. req'[h].at = "pinExpire" /\ req'[h].doc = d
        BY <1>0, <1>1, <3>1, Moved DEF PinUpsert, Labels
      <3>3. Seen(req[h])'
        BY <3>1, <3>2 DEF Seen
      <3>4. refs' = refs \cup {<<u, d>>} /\ pinned' = pinned \cup {<<u, d>>}
        BY <1>1, <2>2 DEF PinUpsert
      <3>5. TrashOK'
        BY <1>0, <2>1, <3>1, <3>4, TrashLinked
      <3> QED
        BY <1>s, <3>3, <3>5
    <2>3. CASE ~Live(d)
      <3>1. Finish(h) /\ UNCHANGED library
        BY <1>1, <2>3 DEF PinUpsert, library
      <3> QED
        BY <1>0, <1>s, <1>f, <3>1, TrashUntouched
    <2> QED
      BY <2>2, <2>3
  <1>e. ASSUME d \in Docs, NEW e \in {"never", "future", "past"}, SetExpiry(d, e),
               UNCHANGED <<refs, pinned>>
        PROVE  TrashOK'
    <2> DEFINE r == [row[d] EXCEPT !.expiry = e]
    <2>a. row[d] \in Rows
      BY <1>0, <1>e DEF Tables
    <2>1. r \in Rows /\ r.life = row[d].life /\ r.creator = row[d].creator
      BY <1>0, <1>e, <2>a DEF Rows
    <2>2. Update(d, r) /\ UNCHANGED <<refs, pinned>>
      BY <1>e DEF SetExpiry
    <2>3. row[d].life = "trash" => Readers(d) \subseteq {row[d].creator} /\ Pinners(d) = {}
      BY <1>0, <1>e DEF TrashOK, TrashUnreadButByUploader, TrashUnpinned
    <2> HIDE DEF r, d
    <2> QED
      BY <1>0, <1>e, <2>1, <2>2, <2>3, TrashUpdated
  <1>2. CASE PinExpire(h)
    BY <1>2, <1>d, <1>e, <1>f, <1>s DEF PinExpire
  <1>3. CASE UnpinCount(h) \/ UnpinCountFails(h)
    <2>1. Goto(h, "setDay") \/ Finish(h)
      BY <1>3 DEF UnpinCount, UnpinCountFails
    <2>2. req[h].at = "unpinCount" /\ UNCHANGED library
      BY <1>3 DEF UnpinCount, UnpinCountFails
    <2>3. ASSUME Goto(h, "setDay") PROVE Seen(req[h])'
      <3>1. req'[h].at = "setDay" /\ req'[h].doc = d /\ req'[h].user = u
        BY <1>0, <2>2, <2>3, Moved DEF Labels
      <3>2. ~Present(d) \/ <<u, d>> \in refs
        BY <1>0, <2>2 DEF Seen
      <3> QED
        BY <2>2, <3>1, <3>2 DEF Seen, Present, library
    <2> QED
      BY <1>0, <1>f, <1>s, <2>1, <2>2, <2>3, TrashUntouched
  <1>5. CASE SetDay(h)
    BY <1>5, <1>d, <1>e, <1>f, <1>s DEF SetDay
  <1>6. CASE CountRefs(h)
    <2>1. req[h].at = "countRefs" /\ UNCHANGED library /\ d \in Docs
      BY <1>6, <1>d DEF CountRefs
    <2>2. CASE Readers(d) = {}
      <3>1. req'[h].at = "trash" /\ req'[h].doc = d
        BY <1>0, <1>6, <2>1, <2>2, Moved DEF CountRefs, Labels
      <3>2. Pinners(d) = {}
        BY <1>0, <2>1, <2>2 DEF Readers, Pinners, Tables
      <3>3. PICK e \in Docs : e = d
        BY <2>1
      <3>4. Readers(e)' = {} /\ Pinners(e)' = {}
        BY <2>1, <2>2, <3>2, <3>3 DEF Readers, Pinners, library
      <3>5. Seen(req[h])'
        BY <3>1, <3>3, <3>4 DEF Seen, Readers, Pinners
      <3> QED
        BY <1>0, <1>s, <2>1, <3>5, TrashUntouched
    <2>3. CASE Readers(d) # {}
      BY <1>0, <1>6, <1>f, <1>s, <2>1, <2>3, TrashUntouched DEF CountRefs
    <2> QED
      BY <2>2, <2>3
  <1>7. CASE SoftDelete(h)
    <2>1. d \in Docs /\ req[h].at = "trash"
      BY <1>7, <1>d DEF SoftDelete
    <2> DEFINE r == [row[d] EXCEPT !.life = "trash", !.aged = FALSE,
                                   !.expiry = "past", !.notified = TRUE]
    <2>2. row[d] \in Rows
      BY <1>0, <2>1 DEF Tables
    <2>3. r \in Rows /\ r.creator = row[d].creator
      BY <2>2 DEF Rows
    <2>4. Update(d, r) /\ UNCHANGED <<refs, pinned>> /\ Finish(h)
      BY <1>7 DEF SoftDelete
    <2>5. Readers(d) \subseteq {row[d].creator} /\ Pinners(d) = {}
      BY <1>0, <2>1 DEF Seen
    <2> HIDE DEF r, d
    <2> QED
      BY <1>0, <1>f, <1>s, <2>1, <2>3, <2>4, <2>5, TrashUpdated
  <1>8. CASE RestoreTrash(h)
    <2>1. d \in Docs
      BY <1>8, <1>d DEF RestoreTrash
    <2> DEFINE r == [row[d] EXCEPT !.life = "live", !.aged = FALSE,
                                   !.expiry = IF req[h].room THEN "never" ELSE "future",
                                   !.notified = FALSE]
    <2>2. row[d] \in Rows
      BY <1>0, <2>1 DEF Tables
    <2>3. r \in Rows /\ r.life = "live" /\ r.creator = row[d].creator
      BY <2>2 DEF Rows
    <2>4. Update(d, r) /\ UNCHANGED <<refs, pinned>>
      BY <1>8 DEF RestoreTrash
    <2>5. req'[h].at = "link" /\ req'[h].doc = d
      BY <1>0, <1>8, Moved DEF RestoreTrash, Labels
    <2> HIDE DEF r, d
    <2>6. TrashOK'
      BY <1>0, <2>1, <2>3, <2>4, TrashUpdated
    <2>7. row'[d].life # "trash"
      <3>1. row'[d] = IF Present(d) THEN r ELSE row[d]
        BY <1>0, <2>1, <2>3, <2>4, Updated
      <3> QED
        BY <2>3, <3>1 DEF Present
    <2>8. Seen(req[h])'
      BY <2>5, <2>7 DEF Seen
    <2> QED
      BY <1>s, <2>6, <2>8
  <1>9. CASE CountOld(h) \/ CountOldFails(h)
    <2>1. req[h].at = "countOld" /\ UNCHANGED library
      BY <1>9 DEF CountOld, CountOldFails
    <2>2. Goto(h, "erase") \/ Goto(h, "link")
      BY <1>9 DEF CountOld, CountOldFails
    <2>3. /\ ~Present(d) \/ Expired(d)
          /\ \A e \in Docs \ {d} : FileOf[e] = req[h].file => ~Present(e)
      BY <1>0, <2>1 DEF Seen
    <2>4. /\ req'[h].at \in {"erase", "link"}
          /\ req'[h].doc = d /\ req'[h].file = req[h].file
      BY <1>0, <2>1, <2>2, Moved DEF Labels
    <2>5. Seen(req[h])'
      BY <2>1, <2>3, <2>4 DEF Seen, Present, Expired, Live, library
    <2> QED
      BY <1>0, <1>s, <2>1, <2>5, TrashUntouched
  <1>11. CASE EraseOld(h)
    <2>1. d \in Docs /\ req[h].at = "erase" /\ Erase({d})
      BY <1>11, <1>d DEF EraseOld
    <2>2. \A e \in Docs \ {d} : FileOf[e] = req[h].file => ~Present(e)
      BY <1>0, <2>1 DEF Seen
    <2> DEFINE r == [req[h] EXCEPT !.at = "create", !.doc = NoDoc]
    <2>3. r.at = "create" /\ r.file = req[h].file
      BY <1>0 DEF Served, Requests
    <2>4. req' = [req EXCEPT ![h] = r]
      BY <1>11 DEF EraseOld
    <2>5. req'[h] = r
      BY <1>0, <2>4 DEF Served
    <2> HIDE DEF r, d
    <2>6. \A e \in Docs : FileOf[e] = req[h].file => ~Present(e)'
      BY <2>1, <2>2 DEF Erase, Present, NoRow
    <2>7. Seen(req[h])'
      BY <2>3, <2>5, <2>6 DEF Seen
    <2>8. {d} \in SUBSET Docs
      BY <2>1
    <2> QED
      BY <1>0, <1>s, <2>1, <2>7, <2>8, TrashErased
  <1>12. ASSUME NEW e \in Docs, CreateDocument(h, e) PROVE SerialInv'
    <2>1. req[h].user \in Users
      BY <1>0, <1>12 DEF Served, Carried, CreateDocument
    <2>2. PICK r : r.life = "live" /\ row' = [row EXCEPT ![e] = r]
      <3> DEFINE r == [NoRow("live") EXCEPT
                         !.expiry = IF req[h].room THEN "never" ELSE "future",
                         !.creator = req[h].user,
                         !.room = IF req[h].room THEN "kept" ELSE "none"]
      <3>1. r.life = "live"
        BY DEF NoRow
      <3> QED
        BY <1>12, <3>1 DEF CreateDocument
    <2>3. refs' = refs \cup {<<req[h].user, e>>} /\ UNCHANGED pinned
      BY <1>12 DEF CreateDocument
    <2>4. \A f \in Docs : row'[f] = IF f = e THEN r ELSE row[f]
      BY <1>0, <2>2 DEF Tables
    <2>5. ASSUME NEW f \in Docs, row'[f].life = "trash"
          PROVE  Readers(f)' \subseteq {row'[f].creator} /\ Pinners(f)' = {}
      <3>1. f # e /\ row'[f] = row[f]
        BY <2>2, <2>4, <2>5
      <3>2. Readers(f)' = Readers(f) /\ Pinners(f)' = Pinners(f)
        BY <2>3, <3>1 DEF Readers, Pinners
      <3> QED
        BY <1>0, <2>5, <3>1, <3>2 DEF TrashOK, TrashUnreadButByUploader, TrashUnpinned
    <2>6. TrashOK'
      BY <2>5 DEF TrashOK, TrashUnreadButByUploader, TrashUnpinned
    <2> QED
      BY <1>12, <1>f, <1>s, <2>6 DEF CreateDocument
  <1>13. ASSUME NEW e \in Docs, CreateConflict(h, e) PROVE SerialInv'
    BY <1>0, <1>13 DEF CreateConflict, Seen
  <1>14. CASE LinkDuplicate(h)
    <2>1. d \in Docs /\ u \in Users /\ row[d].life # "trash"
      BY <1>0, <1>14, <1>d DEF LinkDuplicate, Seen
    <2>2. refs' \subseteq refs \cup {<<u, d>>} /\ UNCHANGED <<row, pinned>> /\ Finish(h)
      BY <1>14 DEF LinkDuplicate
    <2> HIDE DEF d, u
    <2> QED
      BY <1>0, <1>f, <1>s, <2>1, <2>2, TrashLinked
  <1>15. CASE ShareQuota(h)
    <2>1. req[h].at = "shareQuota" /\ UNCHANGED library /\ (Goto(h, "share") \/ Finish(h))
      BY <1>15 DEF ShareQuota
    <2>2. ASSUME Goto(h, "share") PROVE Seen(req[h])'
      <3>1. req'[h].at = "share" /\ req'[h].doc = d /\ req'[h].user = u
        BY <1>0, <2>1, <2>2, Moved DEF Labels
      <3>2. ~Present(d) \/ <<u, d>> \in refs
        BY <1>0, <2>1 DEF Seen
      <3> QED
        BY <2>1, <3>1, <3>2 DEF Seen, Present, library
    <2> QED
      BY <1>0, <1>f, <1>s, <2>1, <2>2, TrashUntouched
  <1>16. CASE Share(h)
    <2>1. d \in Docs /\ u \in Users
      BY <1>16, <1>d DEF Share
    <2> DEFINE r == [row[d] EXCEPT !.public = TRUE, !.expiry = "future", !.by = u]
    <2>a. row[d] \in Rows
      BY <1>0, <2>1 DEF Tables
    <2>2. r \in Rows /\ r.life = row[d].life /\ r.creator = row[d].creator
      BY <2>1, <2>a DEF Rows
    <2>3. Update(d, r) /\ UNCHANGED <<refs, pinned>> /\ Finish(h)
      BY <1>16 DEF Share
    <2>4. row[d].life = "trash" => Readers(d) \subseteq {row[d].creator} /\ Pinners(d) = {}
      BY <1>0, <2>1 DEF TrashOK, TrashUnreadButByUploader, TrashUnpinned
    <2> HIDE DEF r, d, u
    <2> QED
      BY <1>0, <1>f, <1>s, <2>1, <2>2, <2>3, <2>4, TrashUpdated
  <1>17. CASE Unshare(h)
    <2>1. d \in Docs /\ req[h].at = "unshare"
      BY <1>17, <1>d DEF Unshare
    <2> DEFINE r == [row[d] EXCEPT !.public = FALSE, !.by = NoOne]
    <2>a. row[d] \in Rows
      BY <1>0, <2>1 DEF Tables
    <2>2. r \in Rows /\ r.life = row[d].life /\ r.creator = row[d].creator
      BY <2>a DEF Rows
    <2>3. Update(d, r) /\ UNCHANGED <<refs, pinned>>
      BY <1>17 DEF Unshare
    <2>4. row[d].life = "trash" => Readers(d) \subseteq {row[d].creator} /\ Pinners(d) = {}
      BY <1>0, <2>1 DEF TrashOK, TrashUnreadButByUploader, TrashUnpinned
    <2>5. Finish(h) \/ (Present(d) /\ Goto(h, "unpinCount"))
      BY <1>17 DEF Unshare
    <2>6. ASSUME Present(d), Goto(h, "unpinCount") PROVE Seen(req[h])'
      <3>1. req'[h].at = "unpinCount" /\ req'[h].doc = d /\ req'[h].user = u
        BY <1>0, <2>1, <2>6, Moved DEF Labels
      <3>2. <<u, d>> \in refs'
        BY <1>0, <2>1, <2>3, <2>6 DEF Seen
      <3> QED
        BY <3>1, <3>2 DEF Seen
    <2> HIDE DEF r, d, u
    <2> QED
      BY <1>0, <1>f, <1>s, <2>1, <2>2, <2>3, <2>4, <2>5, <2>6, TrashUpdated
  <1>18. CASE Use(h)
    <2>1. d \in Docs /\ u \in Users /\ row[d].life # "trash" /\ req[h].at = "use"
      BY <1>0, <1>18, <1>d DEF Use, Seen
    <2>2. /\ refs' \subseteq refs \cup {<<u, d>>} /\ UNCHANGED <<row, pinned>>
          /\ Finish(h) \/ Goto(h, "refresh")
      BY <1>18 DEF Use
    <2>3. ASSUME Goto(h, "refresh") PROVE Seen(req[h])'
      <3>1. req'[h].at = "refresh" /\ req'[h].doc = d
        BY <1>0, <2>1, <2>3, Moved DEF Labels
      <3> QED
        BY <2>1, <2>2, <3>1 DEF Seen
    <2> HIDE DEF d, u
    <2> QED
      BY <1>0, <1>f, <1>s, <2>1, <2>2, <2>3, TrashLinked
  <1>19. CASE RefreshPublicDocExpiry(h)
    <2>1. d \in Docs /\ UNCHANGED <<refs, pinned>> /\ Finish(h)
      BY <1>19, <1>d DEF RefreshPublicDocExpiry
    <2>2. SetExpiry(d, "future") \/ UNCHANGED row
      BY <1>19 DEF RefreshPublicDocExpiry
    <2> QED
      BY <1>0, <1>e, <1>f, <1>s, <2>1, <2>2, TrashUntouched DEF library
  <1>20. CASE LinkRefused(h)
    <2>1. UNCHANGED library /\ Finish(h)
      BY <1>20 DEF LinkRefused
    <2> QED
      BY <1>0, <1>f, <1>s, <2>1, TrashUntouched
  <1> QED
    BY <1>1, <1>2, <1>3, <1>5, <1>6, <1>7, <1>8, <1>9, <1>11, <1>12, <1>13,
       <1>14, <1>15, <1>16, <1>17, <1>18, <1>19, <1>20 DEF Continue

LEMMA AgedErased ==
  ASSUME Tables, NEW S \in SUBSET Docs, Erase(S)
  PROVE  Aged
  <1>1. ASSUME NEW d \in Docs, d \in S, Present(d)
        PROVE  row'[d].life = "gone" /\ Readers(d)' = {} /\ Pinners(d)' = {}
    BY <1>1 DEF Erase, NoRow, Readers, Pinners
  <1>2. ASSUME NEW d \in Docs, ~(d \in S /\ Present(d))
        PROVE  /\ row'[d] = row[d] /\ Readers(d)' \subseteq Readers(d)
               /\ Pinners(d)' \subseteq Pinners(d)
               /\ Present(d) => Readers(d)' = Readers(d)
               /\ ~Present(d) => Readers(d) = {} /\ Readers(d)' = {}
    BY <1>2 DEF Tables, RowsAgree, Erase, Readers, Pinners, Present
  <1>3. ASSUME NEW x \in refs PROVE x \in refs' \/ row'[x[2]].life = "gone"
    <2>1. x[2] \in Docs /\ Present(x[2])
      BY DEF Tables, RowsAgree
    <2> QED
      BY <1>1, <2>1 DEF Erase
  <1> QED
    BY <1>1, <1>2, <1>3 DEF Aged, Present

LEMMA AgedUntouched ==
  ASSUME Tables, UNCHANGED <<row, pinned>>,
         refs' = refs \/ \E d \in Docs : Present(d) /\ refs' = refs \cup {<<row[d].creator, d>>}
  PROVE  Aged
  <1>1. ASSUME NEW d \in Docs
        PROVE  /\ row'[d].life = "gone" => Readers(d)' = {}
               /\ Readers(d)' \subseteq Readers(d) \cup {row[d].creator}
               /\ Readers(d) \subseteq Readers(d)'
    <2>1. /\ Readers(d)' \subseteq Readers(d) \cup {row[d].creator}
          /\ Readers(d) \subseteq Readers(d)'
      BY DEF Readers
    <2>2. row[d].life = "gone" => Readers(d)' = {}
      BY DEF Tables, RowsAgree, Readers, Present
    <2> QED
      BY <2>1, <2>2
  <1> QED
    BY <1>1 DEF Aged, Pinners

LEMMA AgedUpdated ==
  ASSUME Tables, NEW d \in Docs, NEW r \in Rows, Update(d, r), UNCHANGED <<refs, pinned>>,
         r.life = row[d].life, r.creator = row[d].creator,
         r.expiry = row[d].expiry \/ (row[d].expiry = "future" /\ r.expiry = "past")
  PROVE  Aged
  <1>1. \A e \in Docs : row'[e] = IF e = d /\ Present(d) THEN r ELSE row[e]
    BY Updated
  <1>2. \A e \in Docs : row[e].life = "gone" => Readers(e) = {}
    BY DEF Tables, RowsAgree, Readers, Present
  <1>3. ASSUME NEW e \in Docs
        PROVE  /\ row'[e].life = row[e].life /\ row'[e].creator = row[e].creator
               /\ \/ row'[e].expiry = row[e].expiry
                  \/ row[e].expiry = "future" /\ row'[e].expiry = "past"
               /\ Readers(e)' = Readers(e) /\ Pinners(e)' = Pinners(e)
    <2>1. (row'[e] = r /\ e = d) \/ row'[e] = row[e]
      BY <1>1
    <2> QED
      BY <2>1 DEF Readers, Pinners
  <1> QED
    BY <1>2, <1>3 DEF Aged

LEMMA AgedRoomed ==
  ASSUME Tables, RoomsOnly
  PROVE  Aged
  <1>1. \A d \in Docs : Readers(d)' = Readers(d) /\ Pinners(d)' = Pinners(d)
    BY DEF RoomsOnly, Readers, Pinners
  <1>2. \A d \in Docs : row[d].life = "gone" => Readers(d) = {}
    BY DEF Tables, RowsAgree, Readers, Present
  <1> QED
    BY <1>1, <1>2 DEF Aged, RoomsOnly

(* Every step but a request's.                                             *)
Meanwhile ==
    \/ \E d \in Docs :
          \/ MarkReady(d) \/ LinkUploader(d)
          \/ ExpiryPasses(d) \/ TrashAges(d) \/ RoomAges(d)
    \/ \E s \in Sweepers : Sweep(s)
    \/ \E e \in Expirers : Expire(e)

LEMMA BackgroundAges ==
  ASSUME IInv, TrashOK, Meanwhile
  PROVE  Aged /\ TrashOK' /\ UNCHANGED req
  <1>0. Tables /\ Behind
    BY DEF IInv
  <1>1. ASSUME NEW d \in Docs, MarkReady(d) \/ LinkUploader(d)
        PROVE  Aged /\ TrashOK' /\ UNCHANGED req
    <2>1. UNCHANGED <<row, pinned, req>>
      BY <1>1 DEF MarkReady, LinkUploader, library
    <2>2. CASE refs' = refs
      BY <1>0, <2>1, <2>2, AgedUntouched, TrashUntouched DEF library
    <2>3. CASE refs' # refs
      <3>1. Present(d) /\ refs' = refs \cup {<<row[d].creator, d>>}
        BY <1>1, <2>3 DEF MarkReady, LinkUploader, library
      <3>2. row[d].creator \in Users
        BY <1>0, <3>1 DEF Tables, RowsAgree
      <3> QED
        BY <1>0, <2>1, <3>1, <3>2, AgedUntouched, TrashLinked
    <2> QED
      BY <2>2, <2>3
  <1>u. ASSUME NEW d \in Docs, NEW r \in Rows, Update(d, r), UNCHANGED <<refs, pinned>>,
               r.life = row[d].life, r.creator = row[d].creator,
               r.expiry = row[d].expiry \/ (row[d].expiry = "future" /\ r.expiry = "past")
        PROVE  Aged /\ TrashOK'
    <2>1. Aged
      BY <1>0, <1>u, AgedUpdated
    <2>2. row[d].life = "trash" => Readers(d) \subseteq {row[d].creator} /\ Pinners(d) = {}
      BY DEF TrashOK, TrashUnreadButByUploader, TrashUnpinned
    <2> QED
      BY <1>0, <1>u, <2>1, <2>2, TrashUpdated
  <1>2. ASSUME NEW d \in Docs, ExpiryPasses(d) PROVE Aged /\ TrashOK' /\ UNCHANGED req
    <2> DEFINE r == [row[d] EXCEPT !.expiry = "past"]
    <2>a. row[d] \in Rows
      BY <1>0 DEF Tables
    <2>1. /\ r \in Rows /\ r.life = row[d].life /\ r.creator = row[d].creator
          /\ r.expiry = "past"
      BY <1>0, <2>a DEF Rows
    <2>2. Update(d, r) /\ UNCHANGED <<refs, pinned, req>> /\ row[d].expiry = "future"
      BY <1>2 DEF ExpiryPasses, SetExpiry
    <2> HIDE DEF r
    <2> QED
      BY <1>u, <2>1, <2>2
  <1>3. ASSUME NEW d \in Docs, TrashAges(d) PROVE Aged /\ TrashOK' /\ UNCHANGED req
    <2> DEFINE r == [row[d] EXCEPT !.aged = TRUE]
    <2>a. row[d] \in Rows
      BY <1>0 DEF Tables
    <2>1. /\ r \in Rows /\ r.life = row[d].life /\ r.creator = row[d].creator
          /\ r.expiry = row[d].expiry
      BY <1>0, <2>a DEF Rows
    <2>2. Update(d, r) /\ UNCHANGED <<refs, pinned, req>>
      BY <1>3 DEF TrashAges
    <2> HIDE DEF r
    <2> QED
      BY <1>u, <2>1, <2>2
  <1>4. ASSUME NEW s \in Sweepers, Sweep(s) PROVE Aged /\ TrashOK' /\ UNCHANGED req
    <2>1. /\ UNCHANGED req
          /\ UNCHANGED library \/ (\E S \in SUBSET Docs : Erase(S)) \/ RoomsOnly
      BY <1>4, SweepStatement
    <2> QED
      BY <1>0, <2>1, AgedErased, AgedUntouched, AgedRoomed, TrashErased, TrashUntouched,
         TrashRoomed DEF library
  <1>5. ASSUME NEW e \in Expirers, Expire(e) PROVE Aged /\ TrashOK' /\ UNCHANGED req
    <2>1. CASE UNCHANGED <<library, req>>
      BY <1>0, <2>1, AgedUntouched, TrashUntouched DEF library
    <2>2. CASE MarkWarned(e)
      <3> DEFINE d == exp[e].mark
                 r == [row[d] EXCEPT !.notified = TRUE]
      <3>1. d \in Docs
        BY <1>0, <2>2 DEF MarkWarned, Behind
      <3>a. row[d] \in Rows
        BY <1>0, <3>1 DEF Tables
      <3>2. /\ r \in Rows /\ r.life = row[d].life /\ r.creator = row[d].creator
            /\ r.expiry = row[d].expiry
        BY <1>0, <3>1, <3>a DEF Rows
      <3>3. Update(d, r) /\ UNCHANGED <<refs, pinned, req>>
        BY <2>2 DEF MarkWarned
      <3> HIDE DEF d, r
      <3> QED
        BY <1>u, <3>1, <3>2, <3>3
    <2> QED
      BY <1>5, <2>1, <2>2 DEF Expire, ExpireSelect, Warn, WarnFails, ExpOnly
  <1>6. ASSUME NEW d \in Docs, RoomAges(d) PROVE Aged /\ TrashOK' /\ UNCHANGED req
    <2>1. RoomsOnly /\ UNCHANGED req
      BY <1>0, <1>6, RoomWritten DEF RoomAges
    <2> QED
      BY <1>0, <2>1, AgedRoomed, TrashRoomed
  <1> QED
    BY <1>1, <1>2, <1>3, <1>4, <1>5, <1>6 DEF Meanwhile

LEMMA InitSerial == Init => SerialInv
  <1> SUFFICES ASSUME Init PROVE SerialInv
    OBVIOUS
  <1>1. \A h \in Handlers : Seen(req[h])
    BY DEF Init, Seen, Idle
  <1>2. \A d \in Docs : row[d].life # "trash"
    BY DEF Init, NoRow
  <1> QED
    BY <1>1, <1>2 DEF SerialInv, TrashUnreadButByUploader, TrashUnpinned

LEMMA NextSerial ==
  ASSUME Serial
  PROVE  IInv /\ SerialInv /\ [Next]_vars => SerialInv'
  <1> SUFFICES ASSUME IInv, SerialInv, [Next]_vars PROVE SerialInv'
    OBVIOUS
  <1>0. Tables /\ Served /\ TrashOK
    BY DEF IInv, SerialInv, TrashOK
  <1>b. ASSUME Aged, TrashOK', UNCHANGED req PROVE SerialInv'
    <2>1. ASSUME NEW h \in Handlers PROVE Seen(req[h])'
      <3>1. PICK r : r = req[h] /\ r = req'[h]
        BY <1>b
      <3>2. Seen(r) /\ (r.at \notin {"idle", "create"} => r.doc \in Docs)
        BY <1>0, <3>1 DEF SerialInv, Served, Carried
      <3>3. Seen(r)'
        BY <1>0, <1>b, <3>2, SeenAged
      <3> QED
        BY <3>1, <3>3 DEF Seen
    <2> QED
      BY <1>b, <2>1 DEF SerialInv, TrashOK
  <1>1. CASE UNCHANGED vars
    <2>1. UNCHANGED library /\ UNCHANGED req
      BY <1>1 DEF vars
    <2> QED
      BY <1>0, <1>b, <2>1, AgedUntouched, TrashUntouched DEF library
  <1>2. CASE Restart
    <2>1. UNCHANGED library /\ \A h \in Handlers : req'[h] = Idle
      BY <1>2 DEF Restart
    <2> QED
      BY <1>0, <2>1, SeenIdle, TrashUntouched DEF SerialInv, TrashOK
  <1>3. CASE Meanwhile
    BY <1>0, <1>3, <1>b, BackgroundAges
  <1> QED
    BY <1>1, <1>2, <1>3, SerialAsked, SerialContinued DEF Next, Meanwhile

(* What a request has seen stays so until it ends, and the trash is unread *)
(* and unpinned, when requests come one after the other.                   *)
THEOREM SerialInvariant ==
  ASSUME Serial
  PROVE  Spec => []SerialInv
  <1>1. IInv /\ SerialInv /\ [Next]_vars => SerialInv'
    BY NextSerial
  <1> QED
    BY <1>1, InitSerial, Invariant, PTL DEF Spec

-----------------------------------------------------------------------------
(* Who may vanish.                                                         *)

LEMMA UpdateKeeps ==
  ASSUME Tables, NEW d \in Docs, NEW r \in Rows, Update(d, r),
         r.life # "gone" \/ ~Present(d), NEW e \in Docs, Live(e)
  PROVE  row'[e].life # "gone"
  <1>1. row'[e] = IF e = d /\ Present(d) THEN r ELSE row[e]
    BY Updated
  <1> QED
    BY <1>1 DEF Live

LEMMA ExpiryKeeps ==
  ASSUME Tables, NEW d \in Docs, NEW x \in {"never", "future", "past"}, SetExpiry(d, x),
         NEW e \in Docs, Live(e)
  PROVE  row'[e].life # "gone"
  <1> DEFINE r == [row[d] EXCEPT !.expiry = x]
  <1>a. row[d] \in Rows
    BY DEF Tables
  <1>1. r \in Rows /\ r.life = row[d].life
    BY <1>a DEF Rows
  <1>2. Update(d, r)
    BY DEF SetExpiry
  <1> HIDE DEF r
  <1>3. r.life # "gone" \/ ~Present(d)
    BY <1>1 DEF Present
  <1> QED
    BY <1>1, <1>2, <1>3, UpdateKeeps

LEMMA RowsKeep ==
  ASSUME UNCHANGED row, NEW e \in Docs, Live(e)
  PROVE  row'[e].life # "gone"
  BY DEF Live

LEMMA RoomsKeep ==
  ASSUME RoomsOnly, NEW e \in Docs, Live(e)
  PROVE  row'[e].life # "gone"
  BY DEF RoomsOnly, Live

LEMMA RequestKeeps ==
  ASSUME IInv, NEW h \in Handlers, Request(h) \/ Continue(h), ~EraseOld(h), NEW e \in Docs, Live(e)
  PROVE  row'[e].life # "gone"
  <1>0. Tables /\ Served
    BY DEF IInv
  <1>d. req[h].at \notin {"idle", "create"} => req[h].doc \in Docs /\ req[h].user \in Users
    BY <1>0 DEF Served, Carried
  <1> DEFINE d == req[h].doc
  <1>1. CASE UNCHANGED row
    BY <1>1, RowsKeep
  <1>2. CASE PinExpire(h) \/ SetDay(h) \/ RefreshPublicDocExpiry(h)
    <2>1. d \in Docs
      BY <1>2, <1>d DEF PinExpire, SetDay, RefreshPublicDocExpiry
    <2>2. SetExpiry(d, "never") \/ SetExpiry(d, "future") \/ UNCHANGED row
      BY <1>2 DEF PinExpire, SetDay, RefreshPublicDocExpiry
    <2> QED
      BY <1>0, <2>1, <2>2, ExpiryKeeps, RowsKeep
  <1>3. CASE SoftDelete(h) \/ RestoreTrash(h) \/ Share(h) \/ Unshare(h)
    <2>1. d \in Docs /\ req[h].user \in Users /\ req[h].room \in BOOLEAN
      BY <1>0, <1>3, <1>d DEF SoftDelete, RestoreTrash, Share, Unshare, Served, Requests
    <2>2. row[d] \in Rows
      BY <1>0, <2>1 DEF Tables
    <2>3. CASE SoftDelete(h)
      <3> DEFINE r == [row[d] EXCEPT !.life = "trash", !.aged = FALSE,
                                     !.expiry = "past", !.notified = TRUE]
      <3>1. r \in Rows /\ r.life = "trash"
        BY <2>2 DEF Rows
      <3>2. Update(d, r)
        BY <2>3 DEF SoftDelete
      <3> HIDE DEF r, d
      <3> QED
        BY <1>0, <2>1, <3>1, <3>2, UpdateKeeps
    <2>4. CASE RestoreTrash(h)
      <3> DEFINE r == [row[d] EXCEPT !.life = "live", !.aged = FALSE,
                                     !.expiry = IF req[h].room THEN "never" ELSE "future",
                                     !.notified = FALSE]
      <3>1. r \in Rows /\ r.life = "live"
        BY <2>2 DEF Rows
      <3>2. Update(d, r)
        BY <2>4 DEF RestoreTrash
      <3> HIDE DEF r, d
      <3> QED
        BY <1>0, <2>1, <3>1, <3>2, UpdateKeeps
    <2>5. CASE Share(h)
      <3> DEFINE r == [row[d] EXCEPT !.public = TRUE, !.expiry = "future", !.by = req[h].user]
      <3>1. r \in Rows /\ r.life = row[d].life
        BY <2>1, <2>2 DEF Rows
      <3>2. Update(d, r)
        BY <2>5 DEF Share
      <3> HIDE DEF r, d
      <3> QED
        BY <1>0, <2>1, <3>1, <3>2, UpdateKeeps DEF Present
    <2>6. CASE Unshare(h)
      <3> DEFINE r == [row[d] EXCEPT !.public = FALSE, !.by = NoOne]
      <3>1. r \in Rows /\ r.life = row[d].life
        BY <2>2 DEF Rows
      <3>2. Update(d, r)
        BY <2>6 DEF Unshare
      <3> HIDE DEF r, d
      <3> QED
        BY <1>0, <2>1, <3>1, <3>2, UpdateKeeps DEF Present
    <2> QED
      BY <1>3, <2>3, <2>4, <2>5, <2>6
  <1>4. ASSUME NEW f \in Docs, CreateDocument(h, f) PROVE row'[e].life # "gone"
    <2>1. f # e
      BY <1>4 DEF CreateDocument, Live
    <2>2. row'[e] = row[e]
      BY <1>0, <1>4, <2>1 DEF CreateDocument, Tables
    <2> QED
      BY <2>2 DEF Live
  <1>5. ASSUME NEW f \in Docs, UnlinkDocFromRoom(h, f) \/ CloseRoomAgain(h, f)
        PROVE  row'[e].life # "gone"
    BY <1>0, <1>5, RoomRequests, RoomsKeep
  <1> QED
    BY <1>1, <1>2, <1>3, <1>4, <1>5 DEF Request, PinQuota, UnpinUpsert, Unlink, Fork,
       ShareCheck, UnshareCheck, UseCheck, FindByHash, library, Continue, PinUpsert,
       UnpinCount, UnpinCountFails, CountRefs, CountOld, CountOldFails, CreateConflict,
       LinkDuplicate, LinkRefused, ShareQuota, Use

LEMMA EraseKeeps ==
  ASSUME NEW S \in SUBSET Docs, Erase(S), NEW e \in Docs, Live(e), row'[e].life = "gone"
  PROVE  e \in S
  BY DEF Erase, Live

(* The two exceptions of OnlyExpiredVanish.                                *)
SweptAway(d, s) ==
    \/ d \in sweep[s].old
    \/ row[d].room = "over" /\ sweep[s].at = "roomDocs" /\ sweep'[s].at = "rooms"

LEMMA MeanwhileKeeps ==
  ASSUME IInv, Meanwhile, NEW e \in Docs, Live(e), row'[e].life = "gone"
  PROVE  Expired(e) \/ \E s \in Sweepers : SweptAway(e, s)
  <1>0. Tables /\ Behind
    BY DEF IInv
  <1>1. ASSUME UNCHANGED row PROVE FALSE
    BY <1>1, RowsKeep
  <1>2. ASSUME NEW d \in Docs, MarkReady(d) \/ LinkUploader(d) PROVE FALSE
    BY <1>1, <1>2 DEF MarkReady, LinkUploader, library
  <1>3. ASSUME NEW d \in Docs, ExpiryPasses(d) PROVE FALSE
    BY <1>0, <1>3, ExpiryKeeps DEF ExpiryPasses
  <1>4. ASSUME NEW d \in Docs, TrashAges(d) PROVE FALSE
    <2> DEFINE r == [row[d] EXCEPT !.aged = TRUE]
    <2>a. row[d] \in Rows
      BY <1>0, <1>4 DEF Tables
    <2>1. r \in Rows /\ r.life = "trash"
      BY <1>0, <1>4, <2>a DEF Rows, TrashAges
    <2>2. Update(d, r)
      BY <1>4 DEF TrashAges
    <2> HIDE DEF r
    <2> QED
      BY <1>0, <2>1, <2>2, UpdateKeeps
  <1>5. ASSUME NEW x \in Expirers, Expire(x) PROVE FALSE
    <2>1. MarkWarned(x)
      BY <1>1, <1>5 DEF Expire, ExpireSelect, Warn, WarnFails, ExpOnly, library
    <2> DEFINE d == exp[x].mark
               r == [row[d] EXCEPT !.notified = TRUE]
    <2>2. d \in Docs
      BY <1>0, <2>1 DEF MarkWarned, Behind
    <2>a. row[d] \in Rows
      BY <1>0, <2>2 DEF Tables
    <2>3. r \in Rows /\ r.life = row[d].life
      BY <2>a DEF Rows
    <2>4. Update(d, r)
      BY <2>1 DEF MarkWarned
    <2> HIDE DEF d, r
    <2> QED
      BY <1>0, <2>2, <2>3, <2>4, UpdateKeeps DEF Present
  <1>6. ASSUME NEW s \in Sweepers, Sweep(s)
        PROVE  Expired(e) \/ SweptAway(e, s)
    <2>1. CASE SweepDelete(s)
      <3>1. e \in {d \in Docs : Expired(d)}
        BY <2>1, EraseKeeps DEF SweepDelete
      <3> QED
        BY <3>1
    <2>2. CASE SweepEraseOld(s)
      <3>1. sweep[s].old \in SUBSET Docs
        BY <1>0 DEF Behind
      <3> QED
        BY <2>2, <3>1, EraseKeeps DEF SweepEraseOld, SweptAway
    <2>3. CASE SweepRoomDocs(s)
      <3>1. e \in {d \in Docs : row[d].room = "over"}
        BY <2>3, EraseKeeps DEF SweepRoomDocs
      <3>2. sweep[s].at = "roomDocs" /\ sweep' = [sweep EXCEPT ![s].at = "rooms"]
        BY <2>3 DEF SweepRoomDocs
      <3>3. sweep'[s].at = "rooms"
        BY <1>0, <3>2 DEF Behind
      <3> QED
        BY <3>1, <3>2, <3>3 DEF SweptAway
    <2>4. CASE SweepRooms(s)
      <3>1. row'[e].life = row[e].life
        <4>1. row[e] \in Rows
          BY <1>0 DEF Tables
        <4> QED
          BY <2>4, <4>1 DEF SweepRooms, Rows
      <3> QED
        BY <3>1 DEF Live
    <2> QED
      BY <1>1, <1>6, <2>1, <2>2, <2>3, <2>4 DEF Sweep, SweepSelect, SweepSelectOld,
         SweepRoomDocsFails, SweepNotify, library
  <1>7. ASSUME NEW d \in Docs, RoomAges(d) PROVE FALSE
    BY <1>0, <1>7, RoomWritten, RoomsKeep DEF RoomAges
  <1> QED
    BY <1>2, <1>3, <1>4, <1>5, <1>6, <1>7 DEF Meanwhile

(* When requests come one after the other, an upload of a file whose old   *)
(* copy has expired is the only one of them that deletes a document, and   *)
(* what it deletes has still expired; the sweep takes, besides expired     *)
(* documents, what it found in the old trash and the documents of rooms    *)
(* closed over 180 days ago.                                               *)
THEOREM VanishOnlyExpired ==
  ASSUME Serial
  PROVE  Spec => OnlyExpiredVanish
  <1>1. IInv /\ SerialInv /\ [Next]_vars =>
           [\A d \in Docs : Live(d) /\ row'[d].life = "gone" =>
               \/ Expired(d)
               \/ \E s \in Sweepers :
                     \/ d \in sweep[s].old
                     \/ row[d].room = "over"
                           /\ sweep[s].at = "roomDocs" /\ sweep'[s].at = "rooms"]_vars
    <2> SUFFICES ASSUME IInv, SerialInv, Next, NEW d \in Docs, Live(d), row'[d].life = "gone"
                 PROVE  Expired(d) \/ \E s \in Sweepers : SweptAway(d, s)
      BY DEF SweptAway
    <2>1. ASSUME NEW h \in Handlers, EraseOld(h) PROVE Expired(d)
      <3> DEFINE c == req[h].doc
      <3>1. c \in Docs /\ (~Present(c) \/ Expired(c))
        BY <2>1 DEF IInv, SerialInv, Served, Carried, Seen, EraseOld
      <3>2. d \in {c}
        BY <2>1, <3>1, EraseKeeps DEF EraseOld
      <3> QED
        BY <3>1, <3>2 DEF Live, Present
    <2>2. CASE Restart
      BY <2>2, RowsKeep DEF Restart, library
    <2> QED
      BY <2>1, <2>2, RequestKeeps, MeanwhileKeeps DEF Next, Meanwhile
  <1> QED
    BY <1>1, Invariant, SerialInvariant, PTL DEF OnlyExpiredVanish, Spec

-----------------------------------------------------------------------------
(* As long as no statement fails and the process does not stop, every      *)
(* request finishes what it began: the dates.                              *)

(* The one request that is at work.                                        *)
DayOf(h) == req[h].at = "setDay" => Pinners(req[h].doc) = {}

PinOf(h, d) ==
    d \notin sharedOnce /\ Live(d) /\ Pinners(d) # {} =>
        row[d].expiry = "never" \/ (req[h].doc = d /\ req[h].at = "pinExpire")

TrashOf(h, d) ==
    row[d].life = "trash" /\ Readers(d) = {} =>
        row[d].expiry = "past" \/ (req[h].doc = d /\ req[h].at \in {"countRefs", "trash"})

DatedOf(h) == DayOf(h) /\ \A d \in Docs : PinOf(h, d) /\ TrashOf(h, d)

LEMMA OneAtWork ==
  ASSUME Serial, NEW h \in Handlers
  PROVE  (Dated <=> DatedOf(h)) /\ (Dated' <=> DatedOf(h)')
  <1>1. \A g \in Handlers : g = h
    BY DEF Serial
  <1>2. ASSUME NEW d \in Docs
        PROVE  /\ At(d, {"pinExpire"}) <=> req[h].doc = d /\ req[h].at = "pinExpire"
               /\ At(d, {"pinExpire"})' <=> req'[h].doc = d /\ req'[h].at = "pinExpire"
               /\ At(d, {"countRefs", "trash"})
                     <=> req[h].doc = d /\ req[h].at \in {"countRefs", "trash"}
               /\ At(d, {"countRefs", "trash"})'
                     <=> req'[h].doc = d /\ req'[h].at \in {"countRefs", "trash"}
    BY <1>1 DEF At
  <1>3. Dated <=> DatedOf(h)
    BY <1>1, <1>2 DEF Dated, DatedOf, DayUnpinned, DayOf, PinKept, PinOf, TrashHidden, TrashOf
  <1>4. Dated' <=> DatedOf(h)'
    BY <1>1, <1>2 DEF Dated, DatedOf, DayUnpinned, DayOf, PinKept, PinOf, TrashHidden, TrashOf
  <1> QED
    BY <1>3, <1>4

(* A document the step does not touch.                                     *)
LEMMA Elsewhere ==
  ASSUME NEW h \in Handlers, NEW d \in Docs, PinOf(h, d), TrashOf(h, d),
         row'[d] = row[d], Readers(d)' = Readers(d), Pinners(d)' = Pinners(d),
         sharedOnce \subseteq sharedOnce',
         req[h].doc # d \/ req[h].at \notin {"pinExpire", "countRefs", "trash"}
  PROVE  PinOf(h, d)' /\ TrashOf(h, d)'
  BY DEF PinOf, TrashOf, Live

LEMMA NothingDated ==
  ASSUME NEW h \in Handlers, DatedOf(h), UNCHANGED <<library, sharedOnce>>,
         req[h].at \notin {"pinExpire", "countRefs", "trash"}, req'[h].at # "setDay"
  PROVE  DatedOf(h)'
  <1>1. ASSUME NEW d \in Docs PROVE PinOf(h, d)' /\ TrashOf(h, d)'
    <2>1. Readers(d)' = Readers(d) /\ Pinners(d)' = Pinners(d) /\ UNCHANGED row
      BY DEF Readers, Pinners, library
    <2> QED
      BY <2>1, Elsewhere DEF DatedOf
  <1> QED
    BY <1>1 DEF DatedOf, DayOf

LEMMA OthersUntouched ==
  ASSUME NEW u, NEW c, NEW d \in Docs, d # c,
         refs' = refs \/ refs' = refs \cup {<<u, c>>} \/ refs' = refs \ {<<u, c>>},
         pinned' = pinned \/ pinned' = pinned \cup {<<u, c>>} \/ pinned' = pinned \ {<<u, c>>}
  PROVE  Readers(d)' = Readers(d) /\ Pinners(d)' = Pinners(d)
  BY DEF Readers, Pinners

LEMMA DatedAsked ==
  ASSUME IInv, NEW h \in Handlers, DatedOf(h), Request(h)
  PROVE  DatedOf(h)'
  <1>0. Tables /\ Served
    BY DEF IInv
  <1>1. req[h].at = "idle" /\ sharedOnce' = sharedOnce
    BY IdleRequest DEF Request, PinQuota, UnpinUpsert, Unlink, Fork, ShareCheck, UnshareCheck,
       UseCheck, UnlinkDocFromRoom, CloseRoomAgain, FindByHash, Start
  <1>2. ASSUME NEW u \in Users, NEW d \in Docs,
               PinQuota(h, u, d) \/ ShareCheck(h, u, d) \/ UnshareCheck(h, u, d) \/ UseCheck(h, u, d)
        PROVE  DatedOf(h)'
    <2>1. PICK l \in Labels \ {"setDay"} : Start(h, Serve(l, u, d))
      BY <1>2 DEF PinQuota, ShareCheck, UnshareCheck, UseCheck, Labels
    <2>2. req'[h].at = l
      BY <1>0, <2>1, ServeRequest, Started
    <2>3. UNCHANGED library
      BY <1>2 DEF PinQuota, ShareCheck, UnshareCheck, UseCheck
    <2> QED
      BY <1>1, <2>1, <2>2, <2>3, NothingDated
  <1>3. ASSUME NEW u \in Users, NEW f \in Files, NEW r \in BOOLEAN, FindByHash(h, u, f, r)
        PROVE  DatedOf(h)'
    <2>1. PICK l \in Labels \ {"setDay"}, d \in Docs \cup {NoDoc} :
             Start(h, Upload(l, u, f, r, d)) /\ (d \in Docs \/ l = "create")
      BY <1>3 DEF FindByHash, Labels
    <2>2. req'[h].at = l
      BY <1>0, <2>1, UploadRequest, Started
    <2>3. UNCHANGED library
      BY <1>3 DEF FindByHash
    <2> QED
      BY <1>1, <2>1, <2>2, <2>3, NothingDated
  <1>4. ASSUME NEW u \in Users, NEW d \in Docs,
               UnpinUpsert(h, u, d) \/ Unlink(h, u, d) \/ Fork(h, u, d)
        PROVE  DatedOf(h)'
    <2>1. /\ refs' = refs \/ refs' = refs \cup {<<u, d>>} \/ refs' = refs \ {<<u, d>>}
          /\ pinned' = pinned \/ pinned' = pinned \ {<<u, d>>}
          /\ UNCHANGED row
      BY <1>4 DEF UnpinUpsert, Unlink, Fork
    <2>2. req'[h].at # "setDay"
      BY <1>0, <1>1, <1>4, ServeRequest, Started DEF UnpinUpsert, Unlink, Fork, Labels
    <2>3. ASSUME NEW e \in Docs, e # d PROVE PinOf(h, e)' /\ TrashOf(h, e)'
      BY <1>1, <2>1, <2>3, OthersUntouched, Elsewhere DEF DatedOf
    <2>4. PinOf(h, d)'
      <3>1. Pinners(d)' \subseteq Pinners(d)
        BY <2>1 DEF Pinners
      <3> QED
        BY <1>1, <2>1, <3>1 DEF DatedOf, PinOf, Live
    <2>5. TrashOf(h, d)'
      <3>1. CASE Unlink(h, u, d)
        <4>1. req'[h].doc = d /\ req'[h].at = "countRefs"
          BY <1>0, <3>1, ServeRequest, Started DEF Unlink, Labels
        <4> QED
          BY <4>1 DEF TrashOf
      <3>2. CASE ~Unlink(h, u, d)
        <4>1. row'[d].life # "trash"
          BY <1>4, <2>1, <3>2 DEF UnpinUpsert, Fork, Live
        <4> QED
          BY <4>1 DEF TrashOf
      <3> QED
        BY <3>1, <3>2
    <2> QED
      BY <2>2, <2>3, <2>4, <2>5 DEF DatedOf, DayOf
  <1>5. ASSUME NEW d \in Docs, UnlinkDocFromRoom(h, d) \/ CloseRoomAgain(h, d)
        PROVE  DatedOf(h)'
    <2>1. RoomsOnly /\ UNCHANGED req
      BY <1>0, <1>5, RoomRequests
    <2>2. \A e \in Docs : Readers(e)' = Readers(e) /\ Pinners(e)' = Pinners(e)
      BY <2>1 DEF RoomsOnly, Readers, Pinners
    <2>3. DayOf(h)'
      BY <1>1, <2>1 DEF DayOf
    <2>4. ASSUME NEW e \in Docs PROVE PinOf(h, e)' /\ TrashOf(h, e)'
      BY <1>1, <2>1, <2>2 DEF RoomsOnly, DatedOf, PinOf, TrashOf, Live
    <2> QED
      BY <2>3, <2>4 DEF DatedOf
  <1> QED
    BY <1>2, <1>3, <1>4, <1>5 DEF Request

(* Continue touches the document of the request, or the one it inserts.    *)
LEMMA DatedContinued ==
  ASSUME IInv, SerialInv, NEW h \in Handlers, DatedOf(h), Continue(h), UNCHANGED faults
  PROVE  DatedOf(h)'
  <1>0. Tables /\ Served /\ TrashOK /\ Seen(req[h])
    BY DEF IInv, SerialInv, TrashOK
  <1>d. req[h].at \notin {"idle", "create"} => req[h].doc \in Docs /\ req[h].user \in Users
    BY <1>0 DEF Served, Carried
  <1>f. Finish(h) => req'[h].at = "idle"
    BY <1>0, Finished, IdleRequest
  (* A step that moves the request only, and not to "setDay".              *)
  <1>n. ASSUME UNCHANGED <<library, sharedOnce>>, NEW l \in Labels \ {"setDay"},
               req[h].at \notin {"idle", "create", "pinExpire", "countRefs", "trash"},
               Finish(h) \/ Goto(h, l)
        PROVE  DatedOf(h)'
    <2>1. req'[h].at # "setDay"
      BY <1>0, <1>f, <1>n, Moved
    <2> QED
      BY <1>n, <2>1, NothingDated
  (* A step of document c, the request's.                                  *)
  <1>c. ASSUME NEW c \in Docs, req[h].doc = c, req'[h].at # "setDay",
               \A d \in Docs \ {c} : /\ row'[d] = row[d] /\ Readers(d)' = Readers(d)
                                     /\ Pinners(d)' = Pinners(d),
               sharedOnce \subseteq sharedOnce', PinOf(h, c)', TrashOf(h, c)'
        PROVE  DatedOf(h)'
    <2>1. ASSUME NEW d \in Docs, d # c PROVE PinOf(h, d)' /\ TrashOf(h, d)'
      BY <1>c, <2>1, Elsewhere DEF DatedOf
    <2> QED
      BY <1>c, <2>1 DEF DatedOf, DayOf
  <1>u. ASSUME NEW c \in Docs, NEW r \in Rows, Update(c, r), UNCHANGED <<refs, pinned>>
        PROVE  /\ \A d \in Docs \ {c} : row'[d] = row[d]
               /\ \A d \in Docs : Readers(d)' = Readers(d) /\ Pinners(d)' = Pinners(d)
               /\ row'[c] = IF Present(c) THEN r ELSE row[c]
    <2>1. \A e \in Docs : row'[e] = IF e = c /\ Present(c) THEN r ELSE row[e]
      BY <1>0, <1>u, Updated
    <2> QED
      BY <1>u, <2>1 DEF Readers, Pinners
  <1>e. ASSUME NEW c \in Docs, NEW x \in {"never", "future", "past"}, SetExpiry(c, x),
               UNCHANGED <<refs, pinned>>
        PROVE  /\ \A d \in Docs \ {c} : row'[d] = row[d]
               /\ \A d \in Docs : Readers(d)' = Readers(d) /\ Pinners(d)' = Pinners(d)
               /\ row'[c].life = row[c].life
               /\ Present(c) => row'[c].expiry = x
    <2> DEFINE r == [row[c] EXCEPT !.expiry = x]
    <2>a. row[c] \in Rows
      BY <1>0 DEF Tables
    <2>1. r \in Rows /\ r.life = row[c].life /\ r.expiry = x
      BY <1>0, <2>a DEF Rows
    <2>2. Update(c, r)
      BY <1>e DEF SetExpiry
    <2> HIDE DEF r
    <2> QED
      BY <1>e, <1>u, <2>1, <2>2
  <1>1. CASE PinUpsert(h)
    <2>1. PICK c \in Docs : c = req[h].doc
      BY <1>1, <1>d DEF PinUpsert
    <2>2. CASE Live(c)
      <3>1. /\ refs' = refs \cup {<<req[h].user, c>>}
            /\ pinned' = pinned \cup {<<req[h].user, c>>}
            /\ Goto(h, "pinExpire") /\ req[h].at = "pinUpsert"
            /\ UNCHANGED <<row, sharedOnce>>
        BY <1>1, <2>1, <2>2 DEF PinUpsert
      <3>2. req'[h].at = "pinExpire" /\ req'[h].doc = c
        BY <1>0, <2>1, <3>1, Moved DEF Labels
      <3>3. \A d \in Docs \ {c} : /\ row'[d] = row[d] /\ Readers(d)' = Readers(d)
                                   /\ Pinners(d)' = Pinners(d)
        BY <3>1, OthersUntouched
      <3>4. PinOf(h, c)' /\ TrashOf(h, c)'
        BY <2>2, <3>1, <3>2 DEF PinOf, TrashOf, Live
      <3> QED
        BY <1>c, <2>1, <3>1, <3>2, <3>3, <3>4
    <2>3. CASE ~Live(c)
      <3>1. Finish(h) /\ UNCHANGED <<library, sharedOnce>> /\ req[h].at = "pinUpsert"
        BY <1>1, <2>1, <2>3 DEF PinUpsert, library
      <3> QED
        BY <1>n, <3>1 DEF Labels
    <2> QED
      BY <2>2, <2>3
  <1>2. CASE PinExpire(h)
    <2>1. PICK c \in Docs : c = req[h].doc
      BY <1>2, <1>d DEF PinExpire
    <2>2. /\ SetExpiry(c, "never") /\ UNCHANGED <<refs, pinned, sharedOnce>>
          /\ req[h].at = "pinExpire" /\ Finish(h)
      BY <1>2, <2>1 DEF PinExpire
    <2>3. row[c].life # "trash"
      BY <1>0, <2>1, <2>2 DEF Seen
    <2>4. PinOf(h, c)' /\ TrashOf(h, c)'
      BY <1>e, <2>2, <2>3 DEF PinOf, TrashOf, Live, Present
    <2> QED
      BY <1>c, <1>e, <1>f, <2>1, <2>2, <2>4
  <1>3. CASE UnpinCount(h)
    <2>1. /\ UNCHANGED <<library, sharedOnce>> /\ req[h].at = "unpinCount"
          /\ IF Pinners(req[h].doc) = {} THEN Goto(h, "setDay") ELSE Finish(h)
      BY <1>3 DEF UnpinCount
    <2>2. CASE Finish(h)
      BY <1>n, <2>1, <2>2 DEF Labels
    <2>3. CASE Pinners(req[h].doc) = {} /\ Goto(h, "setDay")
      <3>1. PICK c \in Docs : c = req[h].doc
        BY <1>d, <2>1
      <3>2. req'[h].at = "setDay" /\ req'[h].doc = c
        BY <1>0, <2>1, <2>3, <3>1, Moved DEF Labels
      <3>3. \A d \in Docs : Readers(d)' = Readers(d) /\ Pinners(d)' = Pinners(d)
        BY <2>1 DEF Readers, Pinners, library
      <3>4. \A d \in Docs : PinOf(h, d)' /\ TrashOf(h, d)'
        BY <2>1, <3>3, Elsewhere DEF DatedOf, library
      <3>5. Pinners(c)' = {}
        BY <2>3, <3>1, <3>3
      <3>6. DayOf(h)'
        BY <3>2, <3>5 DEF DayOf, Pinners
      <3> QED
        BY <3>4, <3>6 DEF DatedOf
    <2> QED
      BY <2>1, <2>2, <2>3
  <1>4. CASE UnpinCountFails(h) \/ CountOldFails(h)
    <2>1. faults \in Nat
      BY BoundsAssumption DEF IInv, Counts
    <2> QED
      BY <1>4, <2>1 DEF UnpinCountFails, CountOldFails, Fault
  <1>5. CASE SetDay(h)
    <2>1. PICK c \in Docs : c = req[h].doc
      BY <1>5, <1>d DEF SetDay
    <2>2. /\ SetExpiry(c, "future") /\ UNCHANGED <<refs, pinned, sharedOnce>>
          /\ req[h].at = "setDay" /\ Finish(h)
      BY <1>5, <2>1 DEF SetDay
    <2>3. Pinners(c) = {}
      BY <2>1, <2>2 DEF DatedOf, DayOf
    <2>4. row[c].life = "trash" => Readers(c) # {}
      BY <1>0, <1>d, <2>1, <2>2 DEF Seen, Present, Readers
    <2>5. PinOf(h, c)'
      BY <1>e, <2>2, <2>3 DEF PinOf
    <2>6. TrashOf(h, c)'
      BY <1>e, <2>2, <2>4 DEF TrashOf
    <2> QED
      BY <1>c, <1>e, <1>f, <2>1, <2>2, <2>5, <2>6
  <1>6. CASE CountRefs(h)
    <2>1. PICK c \in Docs : c = req[h].doc
      BY <1>6, <1>d DEF CountRefs
    <2>2. /\ UNCHANGED <<library, sharedOnce>> /\ req[h].at = "countRefs"
          /\ IF Readers(c) = {} THEN Goto(h, "trash") ELSE Finish(h)
      BY <1>6, <2>1 DEF CountRefs
    <2>3. \A d \in Docs : row'[d] = row[d] /\ Readers(d)' = Readers(d) /\ Pinners(d)' = Pinners(d)
      BY <2>2 DEF Readers, Pinners, library
    <2>4. PinOf(h, c)'
      BY <2>2, <2>3 DEF DatedOf, PinOf, Live
    <2>5. Goto(h, "trash") => req'[h].at = "trash" /\ req'[h].doc = c
      BY <1>0, <2>1, <2>2, Moved DEF Labels
    <2>6. TrashOf(h, c)'
      BY <2>2, <2>3, <2>5 DEF TrashOf
    <2>7. req'[h].at # "setDay"
      BY <1>f, <2>2, <2>5
    <2> QED
      BY <1>c, <2>1, <2>2, <2>3, <2>4, <2>6, <2>7
  <1>7. CASE SoftDelete(h)
    <2>1. PICK c \in Docs : c = req[h].doc
      BY <1>7, <1>d DEF SoftDelete
    <2> DEFINE r == [row[c] EXCEPT !.life = "trash", !.aged = FALSE,
                                   !.expiry = "past", !.notified = TRUE]
    <2>2. row[c] \in Rows
      BY <1>0 DEF Tables
    <2>3. r \in Rows /\ r.life = "trash" /\ r.expiry = "past"
      BY <2>2 DEF Rows
    <2>4. Update(c, r) /\ UNCHANGED <<refs, pinned, sharedOnce>> /\ Finish(h)
      BY <1>7, <2>1 DEF SoftDelete
    <2> HIDE DEF r
    <2>5. PinOf(h, c)' /\ TrashOf(h, c)'
      BY <1>u, <2>3, <2>4 DEF PinOf, TrashOf, Live, Present
    <2> QED
      BY <1>c, <1>f, <1>u, <2>1, <2>3, <2>4, <2>5
  <1>8. CASE RestoreTrash(h)
    <2>1. PICK c \in Docs : c = req[h].doc
      BY <1>8, <1>d DEF RestoreTrash
    <2> DEFINE r == [row[c] EXCEPT !.life = "live", !.aged = FALSE,
                                   !.expiry = IF req[h].room THEN "never" ELSE "future",
                                   !.notified = FALSE]
    <2>2. row[c] \in Rows
      BY <1>0 DEF Tables
    <2>3. r \in Rows /\ r.life = "live"
      BY <2>2 DEF Rows
    <2>4. /\ Update(c, r) /\ UNCHANGED <<refs, pinned, sharedOnce>>
          /\ req[h].at = "restore" /\ Goto(h, "link")
      BY <1>8, <2>1 DEF RestoreTrash
    <2> HIDE DEF r
    <2>5. req'[h].at = "link"
      BY <1>0, <2>4, Moved DEF Labels
    <2>6. ~Live(c) /\ (row[c].life = "trash" => Pinners(c) = {})
      BY <1>0, <2>1, <2>4 DEF Seen, TrashOK, TrashUnpinned
    <2>7. row'[c].life # "trash" /\ (row'[c].life = "live" => Pinners(c)' = {})
      BY <1>u, <2>3, <2>4, <2>6 DEF Live, Present
    <2>8. PinOf(h, c)' /\ TrashOf(h, c)'
      BY <2>7 DEF PinOf, TrashOf, Live
    <2> QED
      BY <1>c, <1>u, <2>1, <2>3, <2>4, <2>5, <2>8
  <1>9. CASE CountOld(h)
    <2>1. /\ UNCHANGED <<library, sharedOnce>> /\ req[h].at = "countOld"
          /\ Goto(h, "erase") \/ Goto(h, "link")
      BY <1>9 DEF CountOld
    <2> QED
      BY <1>n, <2>1 DEF Labels
  <1>11. CASE EraseOld(h)
    <2>1. PICK c \in Docs : c = req[h].doc
      BY <1>11, <1>d DEF EraseOld
    <2>2. Erase({c}) /\ UNCHANGED sharedOnce /\ req'[h].at = "create"
      BY <1>0, <1>11, <2>1 DEF EraseOld, Served, Requests
    <2>3. \A d \in Docs \ {c} : /\ row'[d] = row[d] /\ Readers(d)' = Readers(d)
                                 /\ Pinners(d)' = Pinners(d)
      BY <2>2 DEF Erase, Readers, Pinners
    <2>4. row'[c].life \notin {"live", "trash"}
      BY <2>2 DEF Erase, NoRow, Present
    <2>5. PinOf(h, c)' /\ TrashOf(h, c)'
      BY <2>4 DEF PinOf, TrashOf, Live
    <2> QED
      BY <1>c, <2>1, <2>2, <2>3, <2>5
  <1>12. ASSUME NEW c \in Docs, CreateDocument(h, c) PROVE DatedOf(h)'
    <2>1. /\ req[h].at = "create" /\ Finish(h) /\ UNCHANGED <<pinned, sharedOnce>>
          /\ refs' = refs \cup {<<req[h].user, c>>} /\ row[c].life = "none"
      BY <1>12 DEF CreateDocument
    <2>2. \A d \in Docs \ {c} : row'[d] = row[d]
      BY <1>0, <1>12 DEF CreateDocument, Tables
    <2>3. row'[c].life = "live"
      BY <1>0, <1>12 DEF CreateDocument, Tables, NoRow
    <2>4. Pinners(c)' = {}
      BY <1>0, <2>1 DEF Pinners, Tables, RowsAgree, Present
    <2>5. \A d \in Docs \ {c} : Readers(d)' = Readers(d) /\ Pinners(d)' = Pinners(d)
      BY <2>1, OthersUntouched
    <2>6. ASSUME NEW d \in Docs, d # c PROVE PinOf(h, d)' /\ TrashOf(h, d)'
      BY <2>1, <2>2, <2>5, <2>6, Elsewhere DEF DatedOf
    <2>7. PinOf(h, c)' /\ TrashOf(h, c)'
      BY <2>3, <2>4 DEF PinOf, TrashOf
    <2> QED
      BY <1>f, <2>1, <2>6, <2>7 DEF DatedOf, DayOf
  <1>13. ASSUME NEW c \in Docs, CreateConflict(h, c) PROVE DatedOf(h)'
    BY <1>0, <1>13 DEF CreateConflict, Seen
  <1>14. CASE LinkDuplicate(h) \/ Use(h)
    <2>1. PICK c \in Docs : c = req[h].doc
      BY <1>14, <1>d DEF LinkDuplicate, Use
    <2>2. /\ refs' = refs \/ refs' = refs \cup {<<req[h].user, c>>}
          /\ UNCHANGED <<row, pinned, sharedOnce>> /\ req[h].at \in {"link", "use"}
          /\ Finish(h) \/ Goto(h, "refresh")
      BY <1>14, <2>1 DEF LinkDuplicate, Use
    <2>3. row[c].life # "trash"
      BY <1>0, <2>1, <2>2 DEF Seen
    <2>4. req'[h].at # "setDay"
      BY <1>0, <1>f, <2>2, Moved DEF Labels
    <2>5. \A d \in Docs \ {c} : Readers(d)' = Readers(d) /\ Pinners(d)' = Pinners(d)
      BY <2>2, OthersUntouched
    <2>6. Pinners(c)' = Pinners(c)
      BY <2>2 DEF Pinners
    <2>7. PinOf(h, c)' /\ TrashOf(h, c)'
      BY <2>2, <2>3, <2>6 DEF DatedOf, PinOf, TrashOf, Live
    <2> QED
      BY <1>c, <2>1, <2>2, <2>4, <2>5, <2>7
  <1>15. CASE ShareQuota(h)
    <2>1. /\ UNCHANGED <<library, sharedOnce>> /\ req[h].at = "shareQuota"
          /\ Goto(h, "share") \/ Finish(h)
      BY <1>15 DEF ShareQuota
    <2> QED
      BY <1>n, <2>1 DEF Labels
  <1>16. CASE Share(h)
    <2>1. PICK c \in Docs : c = req[h].doc
      BY <1>16, <1>d DEF Share
    <2>a. row[c] \in Rows /\ req[h].user \in Users
      BY <1>0, <1>16, <1>d DEF Tables, Share
    <2> DEFINE r == [row[c] EXCEPT !.public = TRUE, !.expiry = "future", !.by = req[h].user]
    <2>2. r \in Rows /\ r.life = row[c].life
      BY <2>a DEF Rows
    <2>3. /\ Update(c, r) /\ UNCHANGED <<refs, pinned>> /\ Finish(h) /\ req[h].at = "share"
          /\ sharedOnce \subseteq sharedOnce' /\ (Present(c) => c \in sharedOnce')
      BY <1>16, <2>1 DEF Share
    <2> HIDE DEF r
    <2>4. row[c].life = "trash" => Readers(c) # {}
      BY <1>0, <2>1, <2>3, <2>a DEF Seen, Present, Readers
    <2>5. row'[c].life = row[c].life
      BY <1>u, <2>2, <2>3
    <2>6. TrashOf(h, c)'
      BY <1>u, <2>2, <2>3, <2>4, <2>5 DEF TrashOf
    <2>7. PinOf(h, c)'
      BY <2>3, <2>5 DEF PinOf, Live, Present
    <2> QED
      BY <1>c, <1>f, <1>u, <2>1, <2>2, <2>3, <2>6, <2>7
  <1>17. CASE Unshare(h)
    <2>1. PICK c \in Docs : c = req[h].doc
      BY <1>17, <1>d DEF Unshare
    <2>a. row[c] \in Rows
      BY <1>0 DEF Tables
    <2> DEFINE r == [row[c] EXCEPT !.public = FALSE, !.by = NoOne]
    <2>2. r \in Rows /\ r.life = row[c].life /\ r.expiry = row[c].expiry
      BY <2>a DEF Rows
    <2>3. /\ Update(c, r) /\ UNCHANGED <<refs, pinned, sharedOnce>> /\ req[h].at = "unshare"
          /\ Goto(h, "unpinCount") \/ Finish(h)
      BY <1>17, <2>1 DEF Unshare
    <2> HIDE DEF r
    <2>4. req'[h].at # "setDay"
      BY <1>0, <1>f, <2>3, Moved DEF Labels
    <2>5. row'[c].life = row[c].life /\ row'[c].expiry = row[c].expiry
      BY <1>u, <2>2, <2>3
    <2>6. PinOf(h, c)' /\ TrashOf(h, c)'
      BY <1>u, <2>2, <2>3, <2>5 DEF DatedOf, PinOf, TrashOf, Live
    <2> QED
      BY <1>c, <1>u, <2>1, <2>2, <2>3, <2>4, <2>6
  <1>19. CASE RefreshPublicDocExpiry(h)
    <2>1. PICK c \in Docs : c = req[h].doc
      BY <1>19, <1>d DEF RefreshPublicDocExpiry
    <2>2. /\ UNCHANGED <<refs, pinned, sharedOnce>> /\ req[h].at = "refresh" /\ Finish(h)
          /\ UNCHANGED row \/ (row[c].public /\ SetExpiry(c, "future"))
      BY <1>19, <2>1 DEF RefreshPublicDocExpiry
    <2>3. CASE UNCHANGED row
      BY <1>n, <2>2, <2>3 DEF library, Labels
    <2>4. CASE row[c].public /\ SetExpiry(c, "future")
      <3>1. c \in sharedOnce' /\ row[c].life # "trash"
        BY <1>0, <2>1, <2>2, <2>4 DEF Tables, RowsAgree, Seen
      <3>2. PinOf(h, c)' /\ TrashOf(h, c)'
        BY <1>e, <2>2, <2>4, <3>1 DEF PinOf, TrashOf
      <3> QED
        BY <1>c, <1>e, <1>f, <2>1, <2>2, <2>4, <3>2
    <2> QED
      BY <2>2, <2>3, <2>4
  <1>20. CASE LinkRefused(h)
    <2>1. /\ UNCHANGED <<library, sharedOnce>> /\ req[h].at = "link" /\ Finish(h)
      BY <1>20 DEF LinkRefused
    <2> QED
      BY <1>n, <2>1 DEF Labels
  <1> QED
    BY <1>1, <1>2, <1>3, <1>4, <1>5, <1>6, <1>7, <1>8, <1>9, <1>11, <1>12, <1>13,
       <1>14, <1>15, <1>16, <1>17, <1>19, <1>20 DEF Continue

(* The worker, the sweeps and the clock move no date a pin relies on.      *)
LEMMA DatedMeanwhile ==
  ASSUME IInv, Dated, Aged, UNCHANGED <<req, sharedOnce>>
  PROVE  Dated'
  <1>1. DayUnpinned'
    <2>1. ASSUME NEW h \in Handlers, req[h].at = "setDay" PROVE Pinners(req[h].doc)' = {}
      <3>1. PICK c \in Docs : c = req[h].doc
        BY <2>1 DEF IInv, Served, Carried
      <3>2. Pinners(c)' = {}
        BY <2>1, <3>1 DEF Dated, DayUnpinned, Aged
      <3> QED
        BY <3>1, <3>2 DEF Pinners
    <2> QED
      BY <2>1 DEF DayUnpinned
  <1>2. ASSUME NEW d \in Docs PROVE PinKept(d)' /\ TrashHidden(d)'
    <2>1. \A L : At(d, L)' <=> At(d, L)
      BY DEF At
    <2>2. /\ row'[d].life = "gone" \/ row'[d].life = row[d].life
          /\ \/ row'[d].life = "gone"
             \/ row'[d].expiry = row[d].expiry
             \/ row[d].expiry = "future" /\ row'[d].expiry = "past"
          /\ row'[d].life = "gone" \/ Readers(d) \subseteq Readers(d)'
          /\ Pinners(d)' \subseteq Pinners(d)
      BY DEF Aged
    <2>3. PinKept(d) /\ TrashHidden(d)
      BY DEF Dated
    <2>4. (At(d, {"pinExpire"}) => At(d, {"pinExpire"})')
          /\ (At(d, {"countRefs", "trash"}) => At(d, {"countRefs", "trash"})')
      BY DEF At
    <2>5. PinKept(d)'
      BY <2>2, <2>3, <2>4 DEF PinKept, Live
    <2>6. TrashHidden(d)'
      BY <2>2, <2>3, <2>4 DEF TrashHidden
    <2> QED
      BY <2>5, <2>6
  <1> QED
    BY <1>1, <1>2 DEF Dated

LEMMA InitCalm == Init => CalmInv
  <1> SUFFICES ASSUME Init PROVE Dated
    BY DEF CalmInv
  <1>1. \A d \in Docs : row[d].life = "none"
    BY DEF Init, NoRow
  <1>2. \A h \in Handlers : req[h].at = "idle"
    BY IdleRequest DEF Init
  <1> QED
    BY <1>1, <1>2 DEF Dated, DayUnpinned, PinKept, TrashHidden, Live

LEMMA NextCalm ==
  ASSUME Serial
  PROVE  IInv /\ SerialInv /\ CalmInv /\ [Next]_vars => CalmInv'
  <1> SUFFICES ASSUME IInv, SerialInv, CalmInv, [Next]_vars, Calm' PROVE Dated'
    BY DEF CalmInv
  <1>0. Tables /\ TrashOK /\ faults \in Nat /\ crashes \in Nat
    BY BoundsAssumption DEF IInv, SerialInv, TrashOK, Counts
  <1>1. CASE UNCHANGED vars
    <2>1. Dated /\ Aged /\ UNCHANGED <<req, sharedOnce>>
      BY <1>0, <1>1, AgedUntouched DEF CalmInv, Calm, vars, library
    <2> QED
      BY <2>1, DatedMeanwhile
  <1>2. ASSUME NEW h \in Handlers, Request(h) \/ Continue(h) PROVE Dated'
    <2>1. crashes' = crashes
      BY <1>2, RequestsBehind
    <2>2. faults' = faults
      <3>1. UNCHANGED faults \/ Fault
        BY <1>2 DEF Request, PinQuota, UnpinUpsert, Unlink, Fork, ShareCheck, UnshareCheck,
           UseCheck, UnlinkDocFromRoom, CloseRoomAgain, FindByHash, Continue, PinUpsert,
           PinExpire, UnpinCount, UnpinCountFails, SetDay, CountRefs, SoftDelete,
           RestoreTrash, CountOld, CountOldFails, EraseOld, CreateDocument, CreateConflict,
           LinkDuplicate, LinkRefused, ShareQuota, Share, Unshare, Use,
           RefreshPublicDocExpiry
      <3> QED
        BY <1>0, <3>1 DEF Calm, Fault
    <2>3. DatedOf(h)
      BY <2>1, <2>2, OneAtWork DEF CalmInv, Calm
    <2> QED
      BY <1>2, <2>2, <2>3, DatedAsked, DatedContinued, OneAtWork
  <1>3. CASE Meanwhile
    <2>1. /\ crashes' = crashes /\ (UNCHANGED faults \/ Fault) /\ UNCHANGED sharedOnce
      BY <1>3, SweepStatement DEF Meanwhile, MarkReady, LinkUploader, ExpiryPasses,
         TrashAges, RoomAges, Expire, ExpireSelect, Warn, WarnFails, MarkWarned, ExpOnly
    <2>2. Dated
      BY <1>0, <2>1 DEF CalmInv, Calm, Fault
    <2> QED
      BY <1>0, <1>3, <2>1, <2>2, BackgroundAges, DatedMeanwhile
  <1>4. CASE Restart
    BY <1>0, <1>4 DEF Restart, Calm
  <1> QED
    BY <1>1, <1>2, <1>3, <1>4 DEF Next, Meanwhile

(* Each date is what the last statement of a request meant it to be.       *)
THEOREM CalmInvariant ==
  ASSUME Serial
  PROVE  Spec => []CalmInv
  <1>1. IInv /\ SerialInv /\ CalmInv /\ [Next]_vars => CalmInv'
    BY NextCalm
  <1> QED
    BY <1>1, InitCalm, Invariant, SerialInvariant, PTL DEF Spec

(* Requests that come one after the other keep what they promise of a      *)
(* document's date until a statement fails or the process stops: a pinned  *)
(* document does not expire, whatever else its users do (TogglePinDocument *)
(* and every other handler that sets expired_at).                          *)
THEOREM PinsAreKept ==
  ASSUME Serial
  PROVE  Spec => [](Calm => PinnedIsKept)
  <1>1. CalmInv => (Calm => PinnedIsKept)
    <2> SUFFICES ASSUME Dated, NEW d \in Docs \ sharedOnce, Live(d), Pinners(d) # {}, Quiet(d)
                 PROVE  row[d].expiry = "never"
      BY DEF CalmInv, PinnedIsKept
    <2>1. ~At(d, {"pinExpire"})
      BY DEF At, Quiet
    <2> QED
      BY <2>1 DEF Dated, PinKept
  <1> QED
    BY <1>1, CalmInvariant, PTL

(* A document in the trash has no reader but its uploader, whatever fails; *)
(* and until something does, one without a reader is dated in the past, so *)
(* that no list shows it (DeleteDocument, restoreSoftDeletedDocument).     *)
THEOREM TrashStaysUnread ==
  ASSUME Serial
  PROVE  Spec => [](TrashUnreadButByUploader /\ (Calm => TrashIsUnread))
  <1>1. SerialInv /\ CalmInv => TrashUnreadButByUploader /\ (Calm => TrashIsUnread)
    <2> SUFFICES ASSUME SerialInv, Dated PROVE TrashIsUnread
      BY DEF CalmInv, SerialInv
    <2>1. ASSUME NEW d \in Docs, row[d].life = "trash", Readers(d) = {}, Quiet(d)
          PROVE  row[d].expiry = "past"
      <3>1. ~At(d, {"countRefs", "trash"})
        BY <2>1 DEF At, Quiet
      <3> QED
        BY <2>1, <3>1 DEF Dated, TrashHidden
    <2> QED
      BY <2>1 DEF TrashIsUnread, UnreadTrashIsHidden, SerialInv
  <1> QED
    BY <1>1, SerialInvariant, CalmInvariant, PTL
=============================================================================
