---------------------------- MODULE Attachments ----------------------------
(***************************************************************************)
(* Videos and images attached to a user's questions:                       *)
(* controllers/chat_video_attachment.go, chat_attachment.go, with the      *)
(* store of files (utils/cloudinary.go), the client of the processing      *)
(* service (utils/processing_client.go) and the sweep of videos            *)
(* (workers/sweeper.go).                                                   *)
(*                                                                         *)
(* A video is processed by a service behind a queue in Redis, and its row  *)
(* changes when its owner asks for its status.  A refused request (size,   *)
(* type, a scope or session that is not the caller's) changes nothing.     *)
(***************************************************************************)
EXTENDS Naturals, FiniteSets

CONSTANTS
    Handlers,       \* requests at work at a time
    Videos,         \* names of rows, tasks and files
    Contents,       \* what a file may contain
    VideoLimit,     \* videos in 24 hours, by the user's tier
    MessageImages,  \* images of one question (3 in the code)
    MaxRequests, MaxFaults,     \* bounds on the model
    None

AttachmentAssumption ==
    /\ VideoLimit \in Nat \ {0} /\ MessageImages \in Nat /\ MaxRequests \in Nat /\ MaxFaults \in Nat
    /\ IsFiniteSet(Videos) /\ None \notin Videos \cup Contents

VARIABLES
    videos,         \* chat_video_attachments
    analysed,       \* video_analysis_cache: of a hash, the content its entry is about
    files,          \* files in the store
    images,         \* chat_image_attachments: the status of the image's row
    attached,       \* images whose row names a message
    queue,          \* mindex:processing:requests
    results,        \* mindex:processing:result:<task>
    start,          \* where the goroutine that sends a video to the service is
    h, begun, faults,
    sweeping,       \* files that a sweep still destroys
    lost,           \* history: files whose name a failure lost, or the deletion of their session
    overlap,        \* history: a video entered beside another one's upload
    late            \* history: a row that was an error became done

imageVars == <<images, attached>>
serviceVars == <<queue, results>>
history == <<lost, overlap, late>>
vars == <<videos, analysed, files, imageVars, serviceVars, start, h, begun, faults, sweeping, history>>

(* Ages: fresh, past the 5 minutes of processing and the 10 of an error,   *)
(* past the 24 hours of the quota, past the 30 days of the row.            *)
Ages == 0..3

Idle == [op |-> "none", step |-> "idle", video |-> None, content |-> None, hash |-> None,
         raced |-> FALSE]

Init ==
    /\ videos = [v \in Videos |-> None]
    /\ analysed = [c \in Contents \cup {None} |-> None]
    /\ files = {} /\ images = [v \in Videos |-> None] /\ attached = {}
    /\ queue = {} /\ results = [v \in Videos |-> None]
    /\ start = [v \in Videos |-> "none"]
    /\ h = [w \in Handlers |-> Idle] /\ begun = 0 /\ faults = 0
    /\ sweeping = {} /\ lost = {} /\ overlap = FALSE /\ late = FALSE

Rows == {v \in Videos : videos[v] # None}
At(w, op, step) == h[w].op = op /\ h[w].step = step
Goes(w, step) == h' = [h EXCEPT ![w].step = step] /\ UNCHANGED begun
Leaves(w) == h' = [h EXCEPT ![w] = Idle] /\ UNCHANGED begun
Fails == faults < MaxFaults /\ faults' = faults + 1

Begins(w, request) ==
    /\ h[w] = Idle
    /\ begun < MaxRequests /\ begun' = begun + 1
    /\ h' = [h EXCEPT ![w] = request]

Fresh(v) ==
    /\ v \notin Rows \cup files \cup queue \cup sweeping /\ results[v] = None /\ start[v] = "none"
    /\ images[v] = None
    /\ \A w \in Handlers : h[w].video # v

-----------------------------------------------------------------------------
(* A video is uploaded.                                                    *)

(* Mutant of Counts: only rows that are done count.                        *)
CountsDone(row) == row.status = "done" /\ row.age < 2

(* getVideoUploadQuota: rows of the last 24 hours that are no errors.      *)
Counts(row) == row.status # "error" /\ row.age < 2
Used == Cardinality({v \in Rows : Counts(videos[v])})

(* Mutant of Hashed: a file whose hash failed has the hash "".             *)
HashedAnyhow(hash) == hash \in Contents \cup {None}

Hashed(hash) == hash # None

(* UploadChatVideoAttachment reads the quota, then keeps, hashes and       *)
(* measures the file; a hash that cannot be computed is left empty.        *)
BeginVideo(w, v, content, hash) ==
    /\ Used < VideoLimit
    /\ Fresh(v)
    /\ hash \in {content, None}
    /\ Begins(w, [Idle EXCEPT !.op = "video", !.step = "cache", !.video = v,
                              !.content = content, !.hash = hash])
    /\ UNCHANGED <<videos, analysed, files, imageVars, serviceVars, start, faults, sweeping, history>>

(* ffprobe refuses the file.                                               *)
Refuse(w) ==
    /\ At(w, "video", "cache")
    /\ Leaves(w)
    /\ UNCHANGED <<videos, analysed, files, imageVars, serviceVars, start, faults, sweeping, history>>

NewRow(w, status, file, context) ==
    [status |-> status, content |-> h[w].content, hash |-> h[w].hash, file |-> file,
     task |-> FALSE, context |-> context, age |-> 0]

(* The row is there; uploads that have read the quota by now are raced.    *)
Enters(w, row) ==
    /\ videos' = [videos EXCEPT ![h[w].video] = row]
    /\ overlap' = (overlap \/ h[w].raced)
    /\ h' = [u \in Handlers |->
                IF u = w THEN Idle
                ELSE IF h[u].op = "video" THEN [h[u] EXCEPT !.raced = TRUE] ELSE h[u]]
    /\ UNCHANGED <<analysed, imageVars, serviceVars, faults, sweeping, begun>>

(* The same content was analysed: a row that is done at once, with the     *)
(* file of an earlier one, if there is one.                                *)
CacheHit(w) ==
    /\ At(w, "video", "cache")
    /\ Hashed(h[w].hash) /\ analysed[h[w].hash] # None
    /\ LET earlier == {videos[v].file : v \in {u \in Rows : videos[u].hash = h[w].hash}} \ {None}
       IN  \E file \in IF earlier = {} THEN {None} ELSE earlier :
             Enters(w, NewRow(w, "done", file, analysed[h[w].hash]))
    /\ UNCHANGED <<files, start, lost, late>>

(* ... or its INSERT fails, and it is uploaded like a new one.             *)
CacheMiss(w) ==
    /\ At(w, "video", "cache")
    /\ \/ (~Hashed(h[w].hash) \/ analysed[h[w].hash] = None) /\ UNCHANGED faults
       \/ Fails
    /\ Goes(w, "upload")
    /\ UNCHANGED <<videos, analysed, files, imageVars, serviceVars, start, sweeping, history>>

(* The file is in the store, or it is not; or it is, and the answer is     *)
(* lost or cannot be read (a time-out, no secure_url), and then nobody     *)
(* destroys it.                                                            *)
Uploaded(w) ==
    \/ files' = files \cup {h[w].video} /\ Goes(w, "insert") /\ UNCHANGED <<lost, faults>>
    \/ Leaves(w) /\ UNCHANGED <<files, lost, faults>>
    \/ /\ Fails /\ Leaves(w)
       /\ files' = files \cup {h[w].video} /\ lost' = lost \cup {h[w].video}

UploadVideo(w) ==
    /\ At(w, "video", "upload")
    /\ Uploaded(w)
    /\ UNCHANGED <<videos, analysed, imageVars, serviceVars, start, sweeping, overlap, late>>

InsertVideo(w) ==
    /\ At(w, "video", "insert")
    /\ Enters(w, NewRow(w, "uploaded", h[w].video, None))
    /\ start' = [start EXCEPT ![h[w].video] = "mark"]
    /\ UNCHANGED <<files, lost, late>>

(* Mutant of Destroyed: the file stays.                                    *)
DestroyedNot(file) == UNCHANGED <<files, lost, faults>>

(* The error of a file that cannot be destroyed is at most logged.         *)
Destroyed(file) ==
    \/ files' = files \ {file} /\ UNCHANGED <<lost, faults>>
    \/ Fails /\ lost' = lost \cup {file} /\ UNCHANGED files

DestroyVideo(file) == Destroyed(file)
DestroyImage(file) == Destroyed(file)

InsertVideoFails(w) ==
    /\ At(w, "video", "insert")
    /\ DestroyVideo(h[w].video)
    /\ Leaves(w)
    /\ UNCHANGED <<videos, analysed, imageVars, serviceVars, start, sweeping, overlap, late>>

-----------------------------------------------------------------------------
(* startVideoProcessing, the goroutine of a new row, and the service.      *)

Starting(v, step) == start[v] = step

(* markVideoError and the other UPDATEs are by id: the row may be gone.    *)
Set(v, row) == videos' = IF v \in Rows THEN [videos EXCEPT ![v] = row] ELSE videos
Marked(v) == IF v \in Rows THEN [videos[v] EXCEPT !.status = "error"] ELSE None

StartKeeps == UNCHANGED <<analysed, files, imageVars, h, begun, sweeping, history>>

MarkProcessing(v) ==
    /\ Starting(v, "mark")
    /\ \/ /\ Set(v, [videos[v] EXCEPT !.status = "processing"])
          /\ start' = [start EXCEPT ![v] = "task"] /\ UNCHANGED faults
       \/ /\ Fails
          /\ Set(v, Marked(v)) /\ start' = [start EXCEPT ![v] = "none"]
    /\ StartKeeps /\ UNCHANGED serviceVars

(* The task's name is kept in message_id; without it the answer is never   *)
(* looked for.                                                             *)
KeepTask(v) ==
    /\ Starting(v, "task")
    /\ \/ Set(v, [videos[v] EXCEPT !.task = TRUE]) /\ UNCHANGED faults
       \/ Fails /\ UNCHANGED videos
    /\ start' = [start EXCEPT ![v] = "push"]
    /\ StartKeeps /\ UNCHANGED serviceVars

PushVideo(v) ==
    /\ Starting(v, "push")
    /\ \/ queue' = queue \cup {v} /\ UNCHANGED <<videos, faults>>
       \/ Fails /\ Set(v, Marked(v)) /\ UNCHANGED queue
    /\ start' = [start EXCEPT ![v] = "none"]
    /\ StartKeeps /\ UNCHANGED results

(* The service takes a task and leaves its answer, or an error.            *)
Process(v) ==
    /\ v \in queue
    /\ queue' = queue \ {v}
    /\ \E answer \in {"done", "failed"} : results' = [results EXCEPT ![v] = answer]
    /\ UNCHANGED <<videos, analysed, files, imageVars, start, h, begun, faults, sweeping, history>>

ResultExpires(v) ==
    /\ results[v] # None
    /\ results' = [results EXCEPT ![v] = None]
    /\ UNCHANGED <<videos, analysed, files, imageVars, queue, start, h, begun, faults, sweeping, history>>

-----------------------------------------------------------------------------
(* The owner asks for the status.                                          *)

(* GetVideoAttachmentStatus: a row in processing is timed out, or its      *)
(* answer is looked for.                                                   *)
ReadStatus(w, v) ==
    /\ v \in Rows /\ videos[v].status = "processing"
    /\ videos[v].age > 0 \/ videos[v].task
    /\ Begins(w, [Idle EXCEPT !.op = "status", !.video = v,
                              !.step = IF videos[v].age > 0 THEN "mark" ELSE "take"])
    /\ UNCHANGED <<videos, analysed, files, imageVars, serviceVars, start, faults, sweeping, history>>

StatusKeeps == UNCHANGED <<files, imageVars, queue, start, sweeping, lost, overlap>>

TimeOut(w) ==
    /\ At(w, "status", "mark")
    /\ \/ Set(h[w].video, Marked(h[w].video)) /\ UNCHANGED faults
       \/ Fails /\ UNCHANGED videos
    /\ Leaves(w)
    /\ StatusKeeps /\ UNCHANGED <<analysed, results, late>>

(* checkVideoProcessingResult: GETDEL gives the answer to one asker.       *)
TakeAnswer(w) ==
    /\ At(w, "status", "take")
    /\ LET v == h[w].video
       IN  IF results[v] = None THEN Leaves(w)
           ELSE Goes(w, IF results[v] = "done" THEN "save" ELSE "mark")
    /\ results' = [results EXCEPT ![h[w].video] = None]
    /\ StatusKeeps /\ UNCHANGED <<videos, analysed, faults, late>>

SaveAnswer(w) ==
    /\ At(w, "status", "save")
    /\ LET v == h[w].video
       IN  \/ /\ Set(v, [videos[v] EXCEPT !.status = "done", !.context = videos[v].content])
              /\ late' = (late \/ (v \in Rows /\ videos[v].status = "error"))
              /\ IF v \in Rows THEN Goes(w, "remember") ELSE Leaves(w)
              /\ UNCHANGED faults
           \/ Fails /\ Leaves(w) /\ UNCHANGED <<videos, late>>
    /\ StatusKeeps /\ UNCHANGED <<analysed, results>>

(* ON CONFLICT DO NOTHING.                                                 *)
Remember(w) ==
    /\ At(w, "status", "remember")
    /\ LET v == h[w].video
           row == videos[v]
       IN  analysed' = IF v \in Rows /\ Hashed(row.hash) /\ analysed[row.hash] = None
                       THEN [analysed EXCEPT ![row.hash] = row.context] ELSE analysed
    /\ Leaves(w)
    /\ StatusKeeps /\ UNCHANGED <<videos, results, faults, late>>

-----------------------------------------------------------------------------
(* Images.                                                                 *)

(* UploadChatImageAttachment: the session is there, or a new one is made.  *)
BeginImage(w, v) ==
    /\ Fresh(v)
    /\ Begins(w, [Idle EXCEPT !.op = "image", !.step = "upload", !.video = v])
    /\ UNCHANGED <<videos, analysed, files, imageVars, serviceVars, start, faults, sweeping, history>>

UploadImage(w) ==
    /\ At(w, "image", "upload")
    /\ Uploaded(w)
    /\ UNCHANGED <<videos, analysed, imageVars, serviceVars, start, sweeping, overlap, late>>

(* The text is read over CallSync; a failure makes the row an error.  No   *)
(* sweep takes images.                                                     *)
CallSync == {"done", "error"}

InsertImage(w) ==
    /\ At(w, "image", "insert")
    /\ \E status \in CallSync : images' = [images EXCEPT ![h[w].video] = status]
    /\ Leaves(w)
    /\ UNCHANGED <<videos, analysed, files, attached, serviceVars, start, faults, sweeping, history>>

InsertImageFails(w) ==
    /\ At(w, "image", "insert")
    /\ DestroyImage(h[w].video)
    /\ Leaves(w)
    /\ UNCHANGED <<videos, analysed, imageVars, serviceVars, start, sweeping, overlap, late>>

(* A question names a few images, all done; one that is not refuses it.    *)
Asked(ids) == Cardinality(ids) <= MessageImages /\ \A v \in ids : images[v] = "done"

(* The rows then get the message's name, one by one; an error is logged.   *)
AttachImages(ids) ==
    /\ ids # {} /\ Asked(ids)
    /\ \E kept \in SUBSET ids : attached' = attached \cup kept /\ kept \notin SUBSET attached
    /\ UNCHANGED <<videos, analysed, files, images, serviceVars, start, h, begun, faults,
                   sweeping, history>>

-----------------------------------------------------------------------------
(* Time, the sweep, and the end of the process.                            *)

(* A question takes the analysis of a video that is done and not expired.  *)
Ready(row) == row.status = "done" /\ row.age < 3

Later ==
    /\ \E v \in Rows : videos[v].age < 3
    /\ videos' = [v \in Videos |-> IF v \in Rows /\ videos[v].age < 3
                                   THEN [videos[v] EXCEPT !.age = @ + 1] ELSE videos[v]]
    /\ UNCHANGED <<analysed, files, imageVars, serviceVars, start, h, begun, faults, sweeping, history>>

(* sweepExpiredVideoAttachments: expired rows, but none in processing, and *)
(* errors.                                                                 *)
Swept(row) ==
    \/ row.age = 3 /\ row.status # "processing"
    \/ row.age > 0 /\ row.status = "error"

SweepVideos ==
    LET gone == {v \in Rows : Swept(videos[v])}
    IN  /\ gone # {}
        /\ videos' = [v \in Videos |-> IF v \in gone THEN None ELSE videos[v]]
        /\ sweeping' = sweeping \cup ({videos[v].file : v \in gone} \ {None})
        /\ UNCHANGED <<analysed, files, imageVars, serviceVars, start, h, begun, faults, history>>

DestroySwept(file) ==
    /\ file \in sweeping
    /\ sweeping' = sweeping \ {file}
    /\ DestroyVideo(file)
    /\ UNCHANGED <<videos, analysed, imageVars, serviceVars, start, h, begun, overlap, late>>

(* DeleteSession, DeleteGlobalAISession and DeleteDocument delete rows of   *)
(* chat_histories; those of the videos and images go with them (ON DELETE  *)
(* CASCADE), which frees the day's quota.  Nobody destroys the files, and  *)
(* no sweep finds them.                                                    *)
DeleteSession(gone) ==
    /\ gone # {} /\ gone \subseteq Rows \cup {v \in Videos : images[v] # None}
    /\ videos' = [v \in Videos |-> IF v \in gone THEN None ELSE videos[v]]
    /\ images' = [v \in Videos |-> IF v \in gone THEN None ELSE images[v]]
    /\ attached' = attached \ gone
    /\ LET named == {v \in gone : images[v] # None} \cup {videos[v].file : v \in gone \cap Rows}
           still == {videos[v].file : v \in Rows \ gone}
       IN  lost' = lost \cup ((files \cap named) \ still)
    /\ UNCHANGED <<analysed, files, serviceVars, start, h, begun, faults, sweeping, overlap, late>>

(* Handlers and goroutines end where they are; a row that is "uploaded" or *)
(* has no task waits for its 30 days.                                      *)
Crash ==
    /\ Fails
    /\ lost' = lost \cup sweeping \cup
               {h[w].video : w \in {u \in Handlers : h[u].step = "insert"}}
    /\ sweeping' = {}
    /\ start' = [v \in Videos |-> "none"]
    /\ h' = [w \in Handlers |-> Idle]
    /\ UNCHANGED <<videos, analysed, files, imageVars, serviceVars, begun, overlap, late>>

-----------------------------------------------------------------------------
Upload == \E w \in Handlers :
    \/ \E v \in Videos, c \in Contents : \E hash \in {c, None} : BeginVideo(w, v, c, hash)
    \/ Refuse(w) \/ CacheHit(w) \/ CacheMiss(w) \/ UploadVideo(w) \/ InsertVideo(w)
    \/ InsertVideoFails(w)
    \/ (\E v \in Videos : BeginImage(w, v)) \/ UploadImage(w) \/ InsertImage(w) \/ InsertImageFails(w)

Service == \E v \in Videos :
    MarkProcessing(v) \/ KeepTask(v) \/ PushVideo(v) \/ Process(v) \/ ResultExpires(v)

Status == \E w \in Handlers :
    \/ \E v \in Videos : ReadStatus(w, v)
    \/ TimeOut(w) \/ TakeAnswer(w) \/ SaveAnswer(w) \/ Remember(w)

Next ==
    \/ Upload \/ Service \/ Status
    \/ Later \/ SweepVideos \/ Crash
    \/ \E file \in Videos : DestroySwept(file)
    \/ \E ids \in SUBSET Videos : AttachImages(ids) \/ DeleteSession(ids)

Spec == Init /\ [][Next]_vars

-----------------------------------------------------------------------------
Row == [status : {"uploaded", "processing", "done", "error"}, content : Contents,
        hash : Contents \cup {None}, file : Videos \cup {None}, task : BOOLEAN,
        context : Contents \cup {None}, age : Ages]

(* No row and no status is the null of a column.                           *)
NoneAssumption == None \notin Row \cup {"done", "error"}

(* The types of the variables.                                             *)
TypeOK ==
    /\ videos \in [Videos -> Row \cup {None}]
    /\ analysed \in [Contents \cup {None} -> Contents \cup {None}]
    /\ files \subseteq Videos /\ sweeping \subseteq Videos /\ lost \subseteq Videos
    /\ images \in [Videos -> {None, "done", "error"}] /\ attached \subseteq Videos
    /\ queue \subseteq Videos /\ results \in [Videos -> {None, "done", "failed"}]
    /\ start \in [Videos -> {"none", "mark", "task", "push"}]

(* A video that is done has the analysis of what it shows, also when it    *)
(* was taken from an earlier upload or arrived after the time-out.         *)
ContextIsOfTheVideo ==
    \A v \in Rows : Ready(videos[v]) => videos[v].context = videos[v].content

(* The videos of a day that are still there are within the limit, but for  *)
(* uploads that overlapped and for an answer that came after its row was   *)
(* an error.  Those of a deleted session count no more: the limit is none  *)
(* on what a user uploads in a day.                                        *)
VideosWithinQuota ==
    Cardinality({v \in Rows : videos[v].status # "error" /\ videos[v].age < 2}) <= VideoLimit
        \/ overlap \/ late

(* Every file in the store is one that a row, a handler or a sweep names,  *)
(* but for those whose name was lost: an upload whose answer failed, a     *)
(* file that could not be destroyed, the end of the process, and each file *)
(* of a session that was deleted.                                          *)
FilesAreNamed ==
    files \ lost \subseteq
        {videos[v].file : v \in Rows} \cup {v \in Videos : images[v] # None}
            \cup {h[w].video : w \in Handlers} \cup sweeping
=============================================================================
