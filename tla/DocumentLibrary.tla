--------------------------- MODULE DocumentLibrary ---------------------------
(***************************************************************************)
(* The life of a document after its upload: who refers to it, who pins it, *)
(* when it expires, when it is soft-deleted, restored and swept.           *)
(* controllers/document.go, controllers/community.go, the duplicate paths  *)
(* of controllers/processing.go, workers/sweeper.go, workers/expirer.go.   *)
(*                                                                         *)
(* A document is a row of table documents; UNIQUE(file_hash) allows one    *)
(* row per file, and a file uploaded again after its row is gone gets a    *)
(* new id.  Every SQL statement of a request is one step: no request opens *)
(* a transaction here except the insertion of an upload, and the sweep's   *)
(* SELECT and DELETE run in one transaction at READ COMMITTED, which does  *)
(* not make them one step.                                                 *)
(*                                                                         *)
(* A Handler is a goroutine of the HTTP server serving one request at a    *)
(* time for any user: |Handlers| = 1 is the system when requests never     *)
(* overlap, |Handlers| > 1 when they do.                                   *)
(***************************************************************************)
EXTENDS Naturals, FiniteSets

CONSTANTS
    Users, Docs, Files,
    FileOf,       \* the file whose hash the document's row carries
    Handlers,     \* requests served at the same time
    Sweepers,     \* the hourly loop and the admin's manual sweep
    PinLimit,     \* pinned documents per user (3, 5 or 10 by tier)
    ShareLimit,   \* contributions per user (3, 5 or 10 by tier)
    Expirers,     \* the expirer's loop
    WarnBatch,    \* LIMIT of the expirer's query
    MaxRequests,  \* bound: requests, Unbounded for no bound
    Unbounded,
    MaxCrashes,   \* bound: restarts of the server process
    MaxFaults,    \* bound: statements whose error the code drops
    NoOne, NoDoc, NoFile

ASSUME FileOfAssumption == FileOf \in [Docs -> Files]
ASSUME LimitsAssumption == PinLimit \in Nat /\ ShareLimit \in Nat
ASSUME BatchAssumption == WarnBatch \in Nat \ {0}
ASSUME BoundsAssumption == MaxCrashes \in Nat /\ MaxFaults \in Nat
ASSUME RequestsAssumption == MaxRequests \in Nat \cup {Unbounded}
ASSUME NothingAssumption ==
    NoOne \notin Users /\ NoDoc \notin Docs /\ NoFile \notin Files

VARIABLES
    row,      \* table documents
    refs,     \* table document_references, as pairs <<user, document>>
    pinned,   \* ... the pairs with pinned = TRUE
    job,      \* the upload worker: "none", "work", "link", "done"
    req,      \* the requests being served
    sweep,    \* the sweeps being run
    exp,      \* the expirers: their list, and the document to mark
    warned,   \* history: "document_expired" messages sent
    sharedOnce, \* history: documents that have been public
    crashes, faults, served

library == <<row, refs, pinned>>
vars == <<library, job, req, sweep, exp, warned, sharedOnce,
          crashes, faults, served>>

(* life: "none" before the insertion, "live", "trash" when deleted_at is   *)
(* set, "gone" after DELETE.  expiry: expired_at is NULL, later or earlier *)
(* than NOW().  aged: deleted_at is older than 7 days.  room: room_id is    *)
(* NULL, names a room that is open or was closed in the last 180 days, or  *)
(* one that was closed earlier.                                            *)
Rows == [life : {"none", "live", "trash", "gone"},
         expiry : {"never", "future", "past"},
         notified : BOOLEAN, public : BOOLEAN, aged : BOOLEAN,
         by : Users \cup {NoOne}, creator : Users \cup {NoOne},
         room : {"none", "kept", "over"}]

NoRow(l) == [life |-> l, expiry |-> "never", notified |-> FALSE,
             public |-> FALSE, aged |-> FALSE,
             by |-> NoOne, creator |-> NoOne, room |-> "none"]

Idle == [at |-> "idle", user |-> NoOne, doc |-> NoDoc, file |-> NoFile,
         room |-> FALSE]
NoExpiry == [todo |-> {}, mark |-> NoDoc]
NoSweep == [at |-> "idle", found |-> {}, old |-> {}]

Init ==
    /\ row = [d \in Docs |-> NoRow("none")]
    /\ refs = {} /\ pinned = {}
    /\ job = [d \in Docs |-> "none"]
    /\ req = [h \in Handlers |-> Idle]
    /\ sweep = [s \in Sweepers |-> NoSweep]
    /\ exp = [e \in Expirers |-> NoExpiry]
    /\ warned = {}
    /\ sharedOnce = {}
    /\ crashes = 0 /\ faults = 0 /\ served = 0

-----------------------------------------------------------------------------
(* Helpers.                                                                *)

Present(d) == row[d].life \in {"live", "trash"}
Live(d) == row[d].life = "live"
Expired(d) == Live(d) /\ row[d].expiry = "past"
Readers(d) == {u \in Users : <<u, d>> \in refs}
Pinners(d) == {u \in Users : <<u, d>> \in pinned}
PinsOf(u) == {d \in Docs : <<u, d>> \in pinned}
SharesOf(u) == {d \in Docs : row[d].by = u /\ row[d].public}

(* DELETE FROM documents: the references go with the row (ON DELETE        *)
(* CASCADE, the "cascade-xóa" of processing.go).                           *)
Erase(S) ==
    /\ row' = [d \in Docs |-> IF d \in S /\ Present(d) THEN NoRow("gone")
                              ELSE row[d]]
    /\ refs' = {r \in refs : r[2] \notin S}
    /\ pinned' = {r \in pinned : r[2] \notin S}

(* UPDATE documents ... WHERE id = d.                                      *)
Update(d, r) == row' = IF Present(d) THEN [row EXCEPT ![d] = r] ELSE row

Start(h, r) == req[h] = Idle /\ req' = [req EXCEPT ![h] = r]
Goto(h, l) == req' = [req EXCEPT ![h].at = l]
Finish(h) == req' = [req EXCEPT ![h] = Idle]
Serve(l, u, d) == [Idle EXCEPT !.at = l, !.user = u, !.doc = d]

(* What a request leaves alone.                                            *)
Background == UNCHANGED <<job, sweep, exp, crashes>>
Fault == faults < MaxFaults /\ faults' = faults + 1

-----------------------------------------------------------------------------
(* TogglePinDocument.                                                      *)

(* Pinning: the quota is read ...                                          *)
PinQuota(h, u, d) ==
    /\ Cardinality(PinsOf(u)) < PinLimit
    /\ Start(h, Serve("pinUpsert", u, d))
    /\ Background
    /\ UNCHANGED <<library, warned, sharedOnce, faults>>

(* ... the reference is upserted, unless the document is soft-deleted ...  *)
PinUpsert(h) ==
    /\ req[h].at = "pinUpsert"
    /\ IF Live(req[h].doc)
       THEN /\ refs' = refs \cup {<<req[h].user, req[h].doc>>}
            /\ pinned' = pinned \cup {<<req[h].user, req[h].doc>>}
            /\ Goto(h, "pinExpire")
       ELSE Finish(h) /\ UNCHANGED <<refs, pinned>>
    /\ Background
    /\ UNCHANGED <<row, warned, sharedOnce, faults>>

SetExpiry(d, e) == Update(d, [row[d] EXCEPT !.expiry = e])

(* ... and the document never expires, whatever it has become meanwhile.   *)
PinExpire(h) ==
    /\ req[h].at = "pinExpire"
    /\ SetExpiry(req[h].doc, "never")
    /\ Finish(h)
    /\ Background
    /\ UNCHANGED <<refs, pinned, warned, sharedOnce, faults>>

(* Unpinning upserts the reference as well ...                             *)
UnpinUpsert(h, u, d) ==
    /\ Live(d)
    /\ Start(h, Serve("unpinCount", u, d))
    /\ refs' = refs \cup {<<u, d>>}
    /\ pinned' = pinned \ {<<u, d>>}
    /\ Background
    /\ UNCHANGED <<row, warned, sharedOnce, faults>>

(* Mutant of UnpinCount: the other users' pins are not counted.            *)
UnpinCountNot(h) ==
    /\ req[h].at = "unpinCount"
    /\ Goto(h, "setDay")
    /\ Background
    /\ UNCHANGED <<library, warned, sharedOnce, faults>>

(* ... and counts the remaining pins.                                      *)
UnpinCount(h) ==
    /\ req[h].at = "unpinCount"
    /\ IF Pinners(req[h].doc) = {} THEN Goto(h, "setDay") ELSE Finish(h)
    /\ Background
    /\ UNCHANGED <<library, warned, sharedOnce, faults>>

(* The error of the count is dropped: othersPinned stays 0.                *)
UnpinCountFails(h) ==
    /\ req[h].at = "unpinCount"
    /\ Fault
    /\ Goto(h, "setDay")
    /\ Background
    /\ UNCHANGED <<library, warned, sharedOnce>>

(* Without a pin the document expires in 24 hours.                         *)
SetDay(h) ==
    /\ req[h].at = "setDay"
    /\ SetExpiry(req[h].doc, "future")
    /\ Finish(h)
    /\ Background
    /\ UNCHANGED <<refs, pinned, warned, sharedOnce, faults>>

-----------------------------------------------------------------------------
(* DeleteDocument.  Nothing asks whether the user had a reference.         *)

(* Mutant of Unlink: the pin outlives the reference.                       *)
UnlinkKeepsPin(h, u, d) ==
    /\ Present(d)
    /\ Start(h, Serve("countRefs", u, d))
    /\ refs' = refs \ {<<u, d>>}
    /\ pinned' = pinned
    /\ Background
    /\ UNCHANGED <<row, warned, sharedOnce, faults>>

Unlink(h, u, d) ==
    /\ Present(d)
    /\ Start(h, Serve("countRefs", u, d))
    /\ refs' = refs \ {<<u, d>>}
    /\ pinned' = pinned \ {<<u, d>>}
    /\ Background
    /\ UNCHANGED <<row, warned, sharedOnce, faults>>

(* Mutant of CountRefs: the document is trashed whoever still reads it.    *)
CountRefsNot(h) ==
    /\ req[h].at = "countRefs"
    /\ Goto(h, "trash")
    /\ Background
    /\ UNCHANGED <<library, warned, sharedOnce, faults>>

CountRefs(h) ==
    /\ req[h].at = "countRefs"
    /\ IF Readers(req[h].doc) = {} THEN Goto(h, "trash") ELSE Finish(h)
    /\ Background
    /\ UNCHANGED <<library, warned, sharedOnce, faults>>

(* Mutant of SoftDelete: expired_at is left as it was.                     *)
SoftDeleteVisible(h) ==
    /\ req[h].at = "trash"
    /\ Update(req[h].doc, [row[req[h].doc] EXCEPT !.life = "trash", !.aged = FALSE,
                                                  !.notified = TRUE])
    /\ Finish(h)
    /\ Background
    /\ UNCHANGED <<refs, pinned, warned, sharedOnce, faults>>

(* deleted_at = NOW(), expired_at = NOW(), expiration_notified = TRUE.     *)
SoftDelete(h) ==
    /\ req[h].at = "trash"
    /\ Update(req[h].doc, [row[req[h].doc] EXCEPT !.life = "trash", !.aged = FALSE,
                                                  !.expiry = "past", !.notified = TRUE])
    /\ Finish(h)
    /\ Background
    /\ UNCHANGED <<refs, pinned, warned, sharedOnce, faults>>

-----------------------------------------------------------------------------
(* InitiateUpload, from the look-up of the hash on.                        *)

Upload(l, u, f, r, d) ==
    [at |-> l, user |-> u, doc |-> d, file |-> f, room |-> r]

(* findExistingDocumentByHash and the branch taken on its answer.          *)
FindByHash(h, u, f, r) ==
    /\ \/ \E d \in Docs :
            /\ FileOf[d] = f
            /\ \/ row[d].life = "trash" /\ Start(h, Upload("restore", u, f, r, d))
               \/ Expired(d) /\ Start(h, Upload("countOld", u, f, r, d))
               \/ Live(d) /\ ~Expired(d) /\ Start(h, Upload("link", u, f, r, d))
       \/ /\ \A d \in Docs : FileOf[d] = f => ~Present(d)
          /\ Start(h, Upload("create", u, f, r, NoDoc))
    /\ Background
    /\ UNCHANGED <<library, warned, sharedOnce, faults>>

(* restoreSoftDeletedDocument: deleted_at, expired_at and the expirer's    *)
(* flag are reset; the reference follows.                                  *)
RestoreTrash(h) ==
    /\ req[h].at = "restore"
    /\ Update(req[h].doc, [row[req[h].doc] EXCEPT
                               !.life = "live", !.aged = FALSE,
                               !.expiry = IF req[h].room THEN "never" ELSE "future",
                               !.notified = FALSE])
    /\ Goto(h, "link")
    /\ Background
    /\ UNCHANGED <<refs, pinned, warned, sharedOnce, faults>>

(* The document has expired: whoever still refers to it keeps it.          *)
CountOld(h) ==
    /\ req[h].at = "countOld"
    /\ Goto(h, IF Readers(req[h].doc) = {} THEN "erase" ELSE "link")
    /\ Background
    /\ UNCHANGED <<library, warned, sharedOnce, faults>>

(* The error of the count is dropped: refCount stays 0.                    *)
CountOldFails(h) ==
    /\ req[h].at = "countOld"
    /\ Fault
    /\ Goto(h, "erase")
    /\ Background
    /\ UNCHANGED <<library, warned, sharedOnce>>

(* deleteExpiredDuplicate, by id.                                          *)
EraseOld(h) ==
    /\ req[h].at = "erase"
    /\ Erase({req[h].doc})
    /\ req' = [req EXCEPT ![h].at = "create", ![h].doc = NoDoc]
    /\ Background
    /\ UNCHANGED <<warned, sharedOnce, faults>>

(* Mutant of CreateDocument: no UNIQUE(file_hash) stands in the way.       *)
CreateDocumentTwice(h, d) ==
    /\ req[h].at = "create"
    /\ FileOf[d] = req[h].file /\ row[d].life = "none"
    /\ row' = [row EXCEPT ![d] =
                 [NoRow("live") EXCEPT
                    !.expiry = IF req[h].room THEN "never" ELSE "future",
                    !.creator = req[h].user,
                    !.room = IF req[h].room THEN "kept" ELSE "none"]]
    /\ refs' = refs \cup {<<req[h].user, d>>}
    /\ job' = [job EXCEPT ![d] = "work"]
    /\ Finish(h)
    /\ UNCHANGED <<pinned, warned, sharedOnce, faults, sweep, exp,
                   crashes>>

(* createDocumentAndUploadJob: the row, the reference and the job are      *)
(* inserted in one transaction.                                            *)
CreateDocument(h, d) ==
    /\ req[h].at = "create"
    /\ FileOf[d] = req[h].file /\ row[d].life = "none"
    /\ \A e \in Docs : FileOf[e] = req[h].file => ~Present(e)
    /\ row' = [row EXCEPT ![d] =
                 [NoRow("live") EXCEPT
                    !.expiry = IF req[h].room THEN "never" ELSE "future",
                    !.creator = req[h].user,
                    !.room = IF req[h].room THEN "kept" ELSE "none"]]
    /\ refs' = refs \cup {<<req[h].user, d>>}
    /\ job' = [job EXCEPT ![d] = "work"]
    /\ Finish(h)
    /\ UNCHANGED <<pinned, warned, sharedOnce, faults, sweep, exp,
                   crashes>>

(* ON CONFLICT (file_hash) DO NOTHING: another upload was first.  Its row  *)
(* is looked up again and linked, soft-deleted or not.                     *)
CreateConflict(h, d) ==
    /\ req[h].at = "create"
    /\ FileOf[d] = req[h].file /\ Present(d)
    /\ req' = [req EXCEPT ![h].at = "link", ![h].doc = d]
    /\ Background
    /\ UNCHANGED <<library, warned, sharedOnce, faults>>

(* The room of the upload has enough documents of this user, or a          *)
(* statement about it fails: the request ends before the reference.        *)
LinkRefused(h) ==
    /\ req[h].at = "link" /\ req[h].room
    /\ Finish(h)
    /\ Background
    /\ UNCHANGED <<library, warned, sharedOnce, faults>>

(* handleDuplicateDocument; without the row the foreign key refuses.       *)
LinkDuplicate(h) ==
    /\ req[h].at = "link"
    /\ refs' = IF Present(req[h].doc)
               THEN refs \cup {<<req[h].user, req[h].doc>>} ELSE refs
    /\ Finish(h)
    /\ Background
    /\ UNCHANGED <<row, pinned, warned, sharedOnce, faults>>

-----------------------------------------------------------------------------
(* The room a document was uploaded to.                                    *)

(* UnlinkDocFromRoom: by the host or the uploader.                         *)
UnlinkDocFromRoom(h, d) ==
    /\ req[h] = Idle
    /\ row[d].room # "none"
    /\ Update(d, [row[d] EXCEPT !.room = "none"])
    /\ Background
    /\ UNCHANGED <<refs, pinned, req, warned, sharedOnce, faults>>

(* CloseRoom does not ask whether the room is closed: closed_at is NOW()   *)
(* once more.                                                              *)
CloseRoomAgain(h, d) ==
    /\ req[h] = Idle
    /\ row[d].room = "over"
    /\ Update(d, [row[d] EXCEPT !.room = "kept"])
    /\ Background
    /\ UNCHANGED <<refs, pinned, req, warned, sharedOnce, faults>>

-----------------------------------------------------------------------------
(* Forks and the community.                                                *)

(* GetDocumentDetail with ?fork=: one guarded INSERT, for a link that      *)
(* allows it.                                                              *)
Fork(h, u, d) ==
    /\ req[h] = Idle
    /\ Live(d)
    /\ refs' = refs \cup {<<u, d>>}
    /\ Background
    /\ UNCHANGED <<row, pinned, req, warned, sharedOnce, faults>>

(* ToggleShare, sharing: the reference, then the quota, are read ...       *)
ShareCheck(h, u, d) ==
    /\ u \in Readers(d)
    /\ Start(h, Serve("shareQuota", u, d))
    /\ Background
    /\ UNCHANGED <<library, warned, sharedOnce, faults>>

ShareQuota(h) ==
    /\ req[h].at = "shareQuota"
    /\ IF Cardinality(SharesOf(req[h].user)) < ShareLimit
       THEN Goto(h, "share") ELSE Finish(h)
    /\ Background
    /\ UNCHANGED <<library, warned, sharedOnce, faults>>

(* ... and one UPDATE publishes the document for 30 days.                  *)
Share(h) ==
    /\ req[h].at = "share"
    /\ Update(req[h].doc, [row[req[h].doc] EXCEPT !.public = TRUE, !.expiry = "future",
                                                  !.by = req[h].user])
    /\ sharedOnce' = IF Present(req[h].doc)
                     THEN sharedOnce \cup {req[h].doc} ELSE sharedOnce
    /\ Finish(h)
    /\ Background
    /\ UNCHANGED <<refs, pinned, warned, faults>>

(* Withdrawing: by the contributor or the creator, with a reference.  The  *)
(* pins are counted afterwards, as for unpinning.                          *)
UnshareCheck(h, u, d) ==
    /\ u \in Readers(d) /\ u \in {row[d].by, row[d].creator}
    /\ Start(h, Serve("unshare", u, d))
    /\ Background
    /\ UNCHANGED <<library, warned, sharedOnce, faults>>

Unshare(h) ==
    /\ req[h].at = "unshare"
    /\ Update(req[h].doc, [row[req[h].doc] EXCEPT !.public = FALSE, !.by = NoOne])
    /\ IF Present(req[h].doc) THEN Goto(h, "unpinCount") ELSE Finish(h)
    /\ Background
    /\ UNCHANGED <<refs, pinned, warned, sharedOnce, faults>>

(* UseCommunityDocument: the document is checked (whether it is public is  *)
(* not asked) ...                                                          *)
UseCheck(h, u, d) ==
    /\ Live(d) /\ job[d] \in {"link", "done"}
    /\ Start(h, Serve("use", u, d))
    /\ Background
    /\ UNCHANGED <<library, warned, sharedOnce, faults>>

(* ... then, unless the user has it, inserted into the library.            *)
Use(h) ==
    /\ req[h].at = "use"
    /\ IF Present(req[h].doc) /\ req[h].user \notin Readers(req[h].doc)
       THEN /\ refs' = refs \cup {<<req[h].user, req[h].doc>>}
            /\ Goto(h, "refresh")
       ELSE Finish(h) /\ UNCHANGED refs
    /\ Background
    /\ UNCHANGED <<row, pinned, warned, sharedOnce, faults>>

(* RefreshPublicDocExpiry, in a goroutine.                                 *)
RefreshPublicDocExpiry(h) ==
    /\ req[h].at = "refresh"
    /\ IF row[req[h].doc].public /\ row[req[h].doc].expiry # "past"
       THEN SetExpiry(req[h].doc, "future") ELSE UNCHANGED row
    /\ Finish(h)
    /\ Background
    /\ UNCHANGED <<refs, pinned, warned, sharedOnce, faults>>

-----------------------------------------------------------------------------
(* The upload worker, at the end of the pipeline of the document.          *)

MarkReady(d) ==
    /\ job[d] = "work"
    /\ job' = [job EXCEPT ![d] = IF Present(d) THEN "link" ELSE "done"]
    /\ UNCHANGED <<library, req, sweep, exp, warned,
                   sharedOnce, crashes, faults>>

(* It inserts the uploader's reference again.                              *)
LinkUploader(d) ==
    /\ job[d] = "link"
    /\ refs' = IF Present(d) THEN refs \cup {<<row[d].creator, d>>} ELSE refs
    /\ job' = [job EXCEPT ![d] = "done"]
    /\ UNCHANGED <<row, pinned, req, sweep, exp, warned,
                   sharedOnce, crashes, faults>>

-----------------------------------------------------------------------------
(* RunSweeperNow.                                                          *)

SweepOnly == UNCHANGED <<job, req, exp, warned, sharedOnce, crashes, faults>>

(* The documents to announce: the expired ones that have a reader.         *)
SweepSelect(s) ==
    /\ sweep[s].at = "idle"
    /\ sweep' = [sweep EXCEPT
          ![s].at = "delete",
          ![s].found = {d \in Docs : Expired(d) /\ Readers(d) # {}}]
    /\ UNCHANGED library
    /\ SweepOnly

(* Mutant of SweepDelete: documents that never expire are swept as well.   *)
SweepDeleteAll(s) ==
    /\ sweep[s].at = "delete"
    /\ Erase({d \in Docs : Live(d) /\ row[d].expiry # "future"})
    /\ sweep' = [sweep EXCEPT ![s].at = "selectOld"]
    /\ SweepOnly

(* Mutant of SweepDelete: the private documents are forgotten.             *)
SweepDeletePublic(s) ==
    /\ sweep[s].at = "delete"
    /\ Erase({d \in Docs : Expired(d) /\ row[d].public})
    /\ sweep' = [sweep EXCEPT ![s].at = "selectOld"]
    /\ SweepOnly

(* The two DELETEs (private, public) and the COMMIT that makes them seen.  *)
SweepDelete(s) ==
    /\ sweep[s].at = "delete"
    /\ Erase({d \in Docs : Expired(d)})
    /\ sweep' = [sweep EXCEPT ![s].at = "selectOld"]
    /\ SweepOnly

(* sweepSoftDeletedDocuments: first the list ...                           *)
SweepSelectOld(s) ==
    /\ sweep[s].at = "selectOld"
    /\ sweep' = [sweep EXCEPT
          ![s] = [@ EXCEPT !.at = "eraseOld",
                       !.old = {d \in Docs : row[d].life = "trash" /\ row[d].aged}]]
    /\ UNCHANGED library
    /\ SweepOnly

(* ... then a DELETE by id.                                                *)
SweepEraseOld(s) ==
    /\ sweep[s].at = "eraseOld"
    /\ Erase(sweep[s].old)
    /\ sweep' = [sweep EXCEPT ![s].at = "roomDocs", ![s].old = {}]
    /\ SweepOnly

(* runRetentionCleanup: the documents of rooms closed over 180 days ago    *)
(* go, whoever pins or reads them and whatever their expired_at ...        *)
SweepRoomDocs(s) ==
    /\ sweep[s].at = "roomDocs"
    /\ Erase({d \in Docs : row[d].room = "over"})
    /\ sweep' = [sweep EXCEPT ![s].at = "rooms"]
    /\ SweepOnly

(* ... then the rooms: what still names one has room_id set to NULL (ON    *)
(* DELETE SET NULL).  The messages follow.                                 *)
SweepRooms(s) ==
    /\ sweep[s].at = "rooms"
    /\ row' = [d \in Docs |-> IF row[d].room = "over"
                              THEN [row[d] EXCEPT !.room = "none"] ELSE row[d]]
    /\ sweep' = [sweep EXCEPT
          ![s].at = IF sweep[s].found = {} THEN "idle" ELSE "notify"]
    /\ UNCHANGED <<refs, pinned>>
    /\ SweepOnly

(* A statement of runRetentionCleanup that fails is logged, and the next   *)
(* one is run: the documents may outlive their rooms.                      *)
SweepRoomDocsFails(s) ==
    /\ sweep[s].at = "roomDocs"
    /\ Fault
    /\ sweep' = [sweep EXCEPT ![s].at = "rooms"]
    /\ UNCHANGED <<library, job, req, exp, warned, sharedOnce, crashes>>

(* The readers of a document are told, and its original file is destroyed  *)
(* on Cloudinary: for the list, whatever the DELETE removed.               *)
SweepNotify(s, d) ==
    /\ sweep[s].at = "notify" /\ d \in sweep[s].found
    /\ sweep' = [sweep EXCEPT
          ![s] = IF sweep[s].found = {d} THEN NoSweep
                 ELSE [sweep[s] EXCEPT !.found = @ \ {d}]]
    /\ UNCHANGED library
    /\ SweepOnly

-----------------------------------------------------------------------------
(* RunExpirerNow.                                                          *)

ExpOnly == UNCHANGED <<library, job, req, sweep, sharedOnce, crashes>>

ToWarn == {x \in Docs \X Users :
             Expired(x[1]) /\ ~row[x[1]].notified /\ x[2] \in Readers(x[1])}

(* The query has a LIMIT and no ORDER BY.                                  *)
ExpireSelect(e) ==
    /\ exp[e].todo = {} /\ exp[e].mark = NoDoc
    /\ \E S \in SUBSET ToWarn :
          /\ S # {}
          /\ Cardinality(S) <= WarnBatch
          /\ S = ToWarn \/ Cardinality(S) = WarnBatch
          /\ exp' = [exp EXCEPT ![e] = [todo |-> S, mark |-> NoDoc]]
    /\ ExpOnly /\ UNCHANGED <<warned, faults>>

Warn(e, x) ==
    /\ exp[e].mark = NoDoc /\ x \in exp[e].todo
    /\ warned' = warned \cup {x}
    /\ exp' = [exp EXCEPT ![e].todo = @ \ {x}, ![e].mark = x[1]]
    /\ ExpOnly /\ UNCHANGED faults

(* Mutant of WarnFails: the error is not looked at.                        *)
WarnFailsUnseen(e, x) ==
    /\ exp[e].mark = NoDoc /\ x \in exp[e].todo
    /\ Fault
    /\ exp' = [exp EXCEPT ![e].todo = @ \ {x}, ![e].mark = x[1]]
    /\ ExpOnly /\ UNCHANGED warned

(* PublishNotification fails: the flag is left for the next run.           *)
WarnFails(e, x) ==
    /\ exp[e].mark = NoDoc /\ x \in exp[e].todo
    /\ Fault
    /\ exp' = [exp EXCEPT ![e].todo = @ \ {x}]
    /\ ExpOnly /\ UNCHANGED warned

(* The flag is one per document, not one per reader.                       *)
MarkWarned(e) ==
    /\ exp[e].mark # NoDoc
    /\ Update(exp[e].mark, [row[exp[e].mark] EXCEPT !.notified = TRUE])
    /\ exp' = [exp EXCEPT ![e].mark = NoDoc]
    /\ UNCHANGED <<refs, pinned, job, req, sweep, warned, sharedOnce,
                   crashes, faults>>

-----------------------------------------------------------------------------
(* The clock and the server process.                                       *)

ExpiryPasses(d) ==
    /\ Present(d) /\ row[d].expiry = "future"
    /\ SetExpiry(d, "past")
    /\ UNCHANGED <<refs, pinned, job, req, sweep, exp, warned,
                   sharedOnce, crashes, faults>>

TrashAges(d) ==
    /\ row[d].life = "trash" /\ ~row[d].aged
    /\ Update(d, [row[d] EXCEPT !.aged = TRUE])
    /\ UNCHANGED <<refs, pinned, job, req, sweep, exp, warned,
                   sharedOnce, crashes, faults>>

(* The room the document was uploaded to was closed 180 days ago.          *)
RoomAges(d) ==
    /\ row[d].room = "kept"
    /\ Update(d, [row[d] EXCEPT !.room = "over"])
    /\ UNCHANGED <<refs, pinned, job, req, sweep, exp, warned,
                   sharedOnce, crashes, faults>>

(* The process dies: requests, sweeps and goroutines are lost; the upload  *)
(* job is a row and comes back.                                            *)
Restart ==
    /\ crashes < MaxCrashes
    /\ crashes' = crashes + 1
    /\ req' = [h \in Handlers |-> Idle]
    /\ sweep' = [s \in Sweepers |-> NoSweep]
    /\ exp' = [e \in Expirers |-> NoExpiry]
    /\ UNCHANGED <<library, job, warned, sharedOnce, faults>>

-----------------------------------------------------------------------------

Request(h) ==
    \/ \E u \in Users, d \in Docs :
          \/ PinQuota(h, u, d) /\ Present(d)
          \/ UnpinUpsert(h, u, d)
          \/ Unlink(h, u, d)
          \/ Fork(h, u, d)
          \/ ShareCheck(h, u, d)
          \/ UnshareCheck(h, u, d)
          \/ UseCheck(h, u, d)
    \/ \E d \in Docs : UnlinkDocFromRoom(h, d) \/ CloseRoomAgain(h, d)
    \/ \E u \in Users, f \in Files, r \in BOOLEAN : FindByHash(h, u, f, r)

Continue(h) ==
    \/ PinUpsert(h) \/ PinExpire(h)
    \/ UnpinCount(h) \/ UnpinCountFails(h) \/ SetDay(h)
    \/ CountRefs(h) \/ SoftDelete(h)
    \/ RestoreTrash(h) \/ CountOld(h) \/ CountOldFails(h) \/ EraseOld(h)
    \/ \E d \in Docs : CreateDocument(h, d) \/ CreateConflict(h, d)
    \/ LinkDuplicate(h) \/ LinkRefused(h)
    \/ ShareQuota(h) \/ Share(h) \/ Unshare(h)
    \/ Use(h) \/ RefreshPublicDocExpiry(h)

Sweep(s) ==
    \/ SweepSelect(s) \/ SweepDelete(s)
    \/ SweepSelectOld(s) \/ SweepEraseOld(s)
    \/ SweepRoomDocs(s) \/ SweepRoomDocsFails(s) \/ SweepRooms(s)
    \/ \E d \in Docs : SweepNotify(s, d)

Expire(e) ==
    \/ ExpireSelect(e) \/ MarkWarned(e)
    \/ \E x \in Docs \X Users : Warn(e, x) \/ WarnFails(e, x)

(* A request arrives.                                                      *)
Admit == IF MaxRequests = Unbounded THEN UNCHANGED served
         ELSE served < MaxRequests /\ served' = served + 1

Next ==
    \/ \E h \in Handlers : Request(h) /\ Admit
    \/ /\ UNCHANGED served
       /\ \/ \E h \in Handlers : Continue(h)
          \/ \E d \in Docs : MarkReady(d) \/ LinkUploader(d)
          \/ \E s \in Sweepers : Sweep(s)
          \/ \E e \in Expirers : Expire(e)
          \/ \E d \in Docs : ExpiryPasses(d) \/ TrashAges(d) \/ RoomAges(d)
          \/ Restart

Spec == Init /\ [][Next]_vars

(* The sweeper runs every hour, and a run comes to its end.                *)
FairSpec == Spec /\ \A s \in Sweepers : WF_vars(Sweep(s) /\ UNCHANGED served)

-----------------------------------------------------------------------------
(* Properties.                                                             *)

Labels == {"idle", "pinUpsert", "pinExpire", "unpinCount", "setDay",
           "countRefs", "trash", "restore", "countOld", "erase", "create",
           "link", "shareQuota", "share", "unshare", "use", "refresh"}

(* Every variable stays in its type: the tables, the requests with the     *)
(* statement they have reached, the sweeps and the expirer.                *)
TypeOK ==
    /\ row \in [Docs -> Rows]
    /\ refs \subseteq Users \X Docs /\ pinned \subseteq refs
    /\ sharedOnce \subseteq Docs
    /\ job \in [Docs -> {"none", "work", "link", "done"}]
    /\ req \in [Handlers -> [at : Labels, user : Users \cup {NoOne},
                             doc : Docs \cup {NoDoc},
                             file : Files \cup {NoFile}, room : BOOLEAN]]
    /\ sweep \in [Sweepers ->
                    [at : {"idle", "delete", "selectOld", "eraseOld", "roomDocs",
                           "rooms", "notify"},
                     found : SUBSET Docs, old : SUBSET Docs]]
    /\ exp \in [Expirers -> [todo : SUBSET (Docs \X Users),
                           mark : Docs \cup {NoDoc}]]
    /\ warned \subseteq Docs \X Users
    /\ served \in Nat /\ crashes \in 0..MaxCrashes /\ faults \in 0..MaxFaults

(* No request has reached d and not finished.                              *)
Quiet(d) == \A h \in Handlers : req[h].doc # d

(* A pinned document that has never been public never expires              *)
(* (TogglePinDocument): the other requests that set a date, an unpin, a    *)
(* withdrawal, a restored or repeated upload, leave it alone.              *)
PinnedIsKept ==
    \A d \in Docs \ sharedOnce :
        Live(d) /\ Pinners(d) # {} /\ Quiet(d) => row[d].expiry = "never"

(* A soft-deleted document has no reader (DeleteDocument counts them),     *)
(* except the uploader whose reference the worker inserts late; pins,      *)
(* forks, shares and uploads of the same file do not bring one back.       *)
TrashUnreadButByUploader ==
    \A d \in Docs : row[d].life = "trash" => Readers(d) \subseteq {row[d].creator}

(* A soft-deleted document nobody reads is hidden from every list by its   *)
(* expired_at, so that no list has to look at deleted_at.                  *)
UnreadTrashIsHidden ==
    \A d \in Docs : row[d].life = "trash" /\ Readers(d) = {} /\ Quiet(d)
                        => row[d].expiry = "past"

(* A document in the trash is read by its uploader at most, and one that   *)
(* nobody reads is in no list (DeleteDocument, workers/sweeper.go).        *)
TrashIsUnread == TrashUnreadButByUploader /\ UnreadTrashIsHidden

(* Uploads of one file that race end with one row, which is what every     *)
(* duplicate path and the restoration of a deleted document rely on.       *)
OneRowPerFile ==
    \A d, e \in Docs : Present(d) /\ Present(e) /\ FileOf[d] = FileOf[e] => d = e

(* A live document disappears only when it has expired, with two           *)
(* exceptions: a sweep listed it while it was in the trash and it was      *)
(* restored before the sweep's DELETE; or the room it was uploaded to was  *)
(* closed over 180 days ago, and the sweep's retention statement takes it  *)
(* (runRetentionCleanup), pinned or read by others as it may be.           *)
OnlyExpiredVanish ==
    [][\A d \in Docs : Live(d) /\ row'[d].life = "gone" =>
          \/ Expired(d)
          \/ \E s \in Sweepers :
                \/ d \in sweep[s].old
                \/ row[d].room = "over"
                      /\ sweep[s].at = "roomDocs" /\ sweep'[s].at = "rooms"]_vars

(* The flag that silences the expirer is set on a live document only after *)
(* a message went out: a message that fails, or a restart before it is     *)
(* sent, is made up for by the next run.                                   *)
FlaggedAfterMessage ==
    \A d \in Docs : Live(d) /\ row[d].notified => \E u \in Users : <<d, u>> \in warned

(* An expired document is renewed or swept, and a document that has been   *)
(* in the trash for 7 days is restored, renewed or swept.                  *)
EventuallySwept ==
    \A d \in Docs :
        /\ Expired(d) ~> ~Expired(d)
        /\ (row[d].life = "trash" /\ row[d].aged)
              ~> ~(row[d].life = "trash" /\ row[d].aged)

(* "Nếu còn reference thì không được xóa": InitiateUpload never deletes a  *)
(* document another user still refers to.                                  *)
ReferencedNotErased ==
    [][\A h \in Handlers :
          req[h].at = "erase" /\ req'[h].at = "create" =>
              Readers(req[h].doc) \subseteq {req[h].user}]_vars
=============================================================================
