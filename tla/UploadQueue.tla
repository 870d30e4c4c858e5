---------------------------- MODULE UploadQueue ----------------------------
(***************************************************************************)
(* The upload outbox and its worker pool: workers/worker.go and            *)
(* workers/pipeline.go, fed by InitiateUpload of controllers/processing.go.*)
(*                                                                         *)
(* A job is the row of table upload_jobs of one document (the table has    *)
(* UNIQUE(document_id), so Jobs stands for the documents as well).  Every  *)
(* worker goroutine claims a row with one SQL statement, runs the          *)
(* pipeline and records the outcome.  Each statement sent to PostgreSQL,   *)
(* Redis or Cloudinary is one step, because the other workers run in       *)
(* between.                                                                *)
(*                                                                         *)
(* Time is two events: DelayElapses (NOW() passes next_run_at) and         *)
(* LeaseRunsOut (locked_at is 15 minutes old).  Nothing in the code ties   *)
(* either to the progress of the worker that holds the job: there is no    *)
(* heartbeat, and no statement checks locked_by.  Punctual = TRUE adds the *)
(* assumption that a live worker is done with a job before either event;   *)
(* Punctual = FALSE leaves the clock free.                                 *)
(*                                                                         *)
(* Two calls stand in one step only where the second is a message on the   *)
(* progress key that repeats what the first has recorded.                  *)
(*                                                                         *)
(* The Redis list of document ids is left out: waitForUploadSignal returns *)
(* after 5 seconds with or without an element, so that a signal only       *)
(* shortens the wait of an idle worker, which may poll at any time here.   *)
(***************************************************************************)
EXTENDS Naturals, FiniteSets

CONSTANTS
    Jobs,         \* documents uploaded, each with its upload_jobs row
    Workers,      \* goroutines of StartWorkerPool
    TextChunks,   \* chunks ExtractAndChunk makes of the document's text
    ImageChunks,  \* chunks read from the images attached to the upload
    MaxAttempts,  \* upload_jobs.max_attempts (uploadJobMaxAttempts)
    MaxCrashes,   \* bound: restarts of the server process
    MaxFaults,    \* bound: statements whose error the code drops
    Punctual,     \* TRUE: live workers beat the lease and the retry delay
    NoJob         \* "holds no job"

ASSUME MaxAttemptsAssumption == MaxAttempts \in Nat \ {0}
ASSUME BoundsAssumption == MaxCrashes \in Nat /\ MaxFaults \in Nat
ASSUME PunctualAssumption == Punctual \in BOOLEAN
ASSUME WorkersAssumption == IsFiniteSet(Workers)
ASSUME NoJobAssumption == NoJob \notin Jobs
ASSUME ChunksAssumption == TextChunks \cap ImageChunks = {}

Chunks == TextChunks \cup ImageChunks

VARIABLES
    status,      \* upload_jobs.status, "none" when there is no row
    attempts,    \* upload_jobs.attempts
    due,         \* next_run_at <= NOW()
    leaseOver,   \* locked_at < NOW() - INTERVAL '15 minutes'
    doc,         \* documents.status
    copies,      \* rows of document_chunks for each chunk
    rejected,    \* the file's hash is in table rejected_hashes
    progress,    \* Redis key doc_progress:<id>, as the SSE stream reads it
    cloud,       \* the original file is on Cloudinary
    tmp,         \* files of the job in ./tmp/uploads
    announced,   \* InitiateUpload has published "queued"
    pc, cur, att, src, todo, bad,  \* the workers: position, job.DocID,
                 \* job.Attempts as claimed, localPath, chunks left to embed,
                 \* errCount > 0
    crashes, faults

jobVars    == <<status, attempts, due, leaseOver>>
docVars    == <<doc, copies, rejected, progress, cloud, tmp, announced>>
workerVars == <<pc, cur, att, src, todo, bad>>
vars == <<jobVars, docVars, workerVars, crashes, faults>>

Statuses == {"none", "queued", "running", "retrying", "succeeded", "failed"}
DocStatuses == {"none", "queued", "processing", "ready", "error"}
Progresses == {"none", "queued", "working", "ready", "error"}

(* "upload": the file InitiateUpload saved; "retry": the copy              *)
(* ensurePipelineFile downloads; "images": the attached images.            *)
TmpFiles == {"upload", "retry", "images"}

(* RunEmbeddingPipeline of the worker's job is on the stack.               *)
Pipeline == {"fetch", "extract", "ocr", "moderate", "reject", "embed",
             "purge", "publish", "ready"}
(* ... or processUploadJob is, before or after it.                         *)
Handling == Pipeline \cup {"start", "succeed", "retryJob", "retryDoc",
                           "failJob", "failDoc", "failCloud"}

Init ==
    /\ status = [j \in Jobs |-> "none"]
    /\ attempts = [j \in Jobs |-> 0]
    /\ due = [j \in Jobs |-> FALSE]
    /\ leaseOver = [j \in Jobs |-> FALSE]
    /\ doc = [j \in Jobs |-> "none"]
    /\ copies = [j \in Jobs |-> [c \in Chunks |-> 0]]
    /\ rejected = [j \in Jobs |-> FALSE]
    /\ progress = [j \in Jobs |-> "none"]
    /\ cloud = [j \in Jobs |-> FALSE]
    /\ tmp = [j \in Jobs |-> {}]
    /\ announced = [j \in Jobs |-> FALSE]
    /\ pc = [w \in Workers |-> "idle"]
    /\ cur = [w \in Workers |-> NoJob]
    /\ att = [w \in Workers |-> 0]
    /\ src = [w \in Workers |-> "none"]
    /\ todo = [w \in Workers |-> {}]
    /\ bad = [w \in Workers |-> FALSE]
    /\ crashes = 0
    /\ faults = 0

-----------------------------------------------------------------------------
(* The request handler.                                                    *)

(* createDocumentAndUploadJob: one transaction inserts the document, the   *)
(* owner's reference and the job.  The files were saved and uploaded       *)
(* before it.                                                              *)
CreateUploadJob(j) ==
    /\ status[j] = "none"
    /\ status' = [status EXCEPT ![j] = "queued"]
    /\ due' = [due EXCEPT ![j] = TRUE]
    /\ doc' = [doc EXCEPT ![j] = "queued"]
    /\ cloud' = [cloud EXCEPT ![j] = TRUE]
    /\ tmp' = [tmp EXCEPT ![j] = {"upload", "images"}]
    /\ UNCHANGED <<attempts, leaseOver, copies, rejected, progress, announced,
                   workerVars, crashes, faults>>

(* ... and after the commit InitiateUpload publishes the first progress.   *)
AnnounceQueued(j) ==
    /\ status[j] # "none"
    /\ ~announced[j]
    /\ announced' = [announced EXCEPT ![j] = TRUE]
    /\ progress' = [progress EXCEPT ![j] = "queued"]
    /\ UNCHANGED <<jobVars, doc, copies, rejected, cloud, tmp, workerVars,
                   crashes, faults>>

-----------------------------------------------------------------------------
(* Helpers of the workers.                                                 *)

Goto(w, l) == pc' = [pc EXCEPT ![w] = l]

(* A statement whose error is thrown away (`_, _ = config.DB.Exec`).       *)
Fault == faults < MaxFaults /\ faults' = faults + 1

Publish(w, p) == progress' = [progress EXCEPT ![cur[w]] = p]

(* The deferred os.Remove(localPath) of RunEmbeddingPipeline.              *)
RemoveLocal(w) == tmp' = [tmp EXCEPT ![cur[w]] = @ \ {src[w]}]

(* Mutant of AfterFailure: attempts <= max_attempts.                       *)
AfterFailureOnceMore(w, retryable) ==
    IF retryable /\ att[w] <= MaxAttempts THEN "retryJob" ELSE "failJob"

(* Mutant of AfterFailure: a worker that gives up leaves the row running.  *)
AfterFailureForgets(w, retryable) ==
    IF retryable /\ att[w] < MaxAttempts THEN "retryJob" ELSE "failDoc"

(* handleUploadJobFailure: another attempt, or the end of the job.         *)
AfterFailure(w, retryable) ==
    IF retryable /\ att[w] < MaxAttempts THEN "retryJob" ELSE "failJob"

Release(w) ==
    /\ Goto(w, "idle")
    /\ cur' = [cur EXCEPT ![w] = NoJob]
    /\ att' = [att EXCEPT ![w] = 0]
    /\ src' = [src EXCEPT ![w] = "none"]
    /\ todo' = [todo EXCEPT ![w] = {}]
    /\ bad' = [bad EXCEPT ![w] = FALSE]

-----------------------------------------------------------------------------
(* claimNextUploadJob: one UPDATE ... FOR UPDATE SKIP LOCKED.              *)

Abandoned(j) == status[j] = "running" /\ leaseOver[j]
(* Mutant of Claimable: failed jobs are picked up again.                   *)
ClaimableEvenFailed(j) ==
    status[j] \in {"queued", "retrying", "failed"} /\ due[j]

Claimable(j) == status[j] \in {"queued", "retrying"} /\ due[j]

(* Mutant of Claim: the attempt is not counted.                            *)
ClaimUncounted(w, j) ==
    /\ pc[w] = "idle"
    /\ \/ Abandoned(j)
       \/ Claimable(j) /\ ~ \E k \in Jobs : Abandoned(k)
    /\ status' = [status EXCEPT ![j] = "running"]
    /\ leaseOver' = [leaseOver EXCEPT ![j] = FALSE]
    /\ cur' = [cur EXCEPT ![w] = j]
    /\ Goto(w, "start")
    /\ UNCHANGED <<attempts, att, due, docVars, src, todo, bad, crashes, faults>>

Claim(w, j) ==
    /\ pc[w] = "idle"
    /\ \/ Abandoned(j)
       \/ Claimable(j) /\ ~ \E k \in Jobs : Abandoned(k)
    /\ attempts' = [attempts EXCEPT
                      ![j] = IF status[j] = "running" THEN @ ELSE @ + 1]
    /\ att' = [att EXCEPT ![w] = attempts'[j]]
    /\ status' = [status EXCEPT ![j] = "running"]
    /\ leaseOver' = [leaseOver EXCEPT ![j] = FALSE]
    /\ cur' = [cur EXCEPT ![w] = j]
    /\ Goto(w, "start")
    /\ UNCHANGED <<due, docVars, src, todo, bad, crashes, faults>>

(* processUploadJob, first statement.                                      *)
MarkProcessing(w) ==
    /\ pc[w] = "start"
    /\ \/ /\ doc' = [doc EXCEPT ![cur[w]] = "processing"]
          /\ UNCHANGED faults
       \/ Fault /\ UNCHANGED doc
    /\ Publish(w, "working")
    /\ Goto(w, "fetch")
    /\ UNCHANGED <<jobVars, copies, rejected, cloud, tmp, announced, cur, att,
                   src, todo, bad, crashes>>

-----------------------------------------------------------------------------
(* RunEmbeddingPipeline.                                                   *)

(* ensurePipelineFile and os.ReadFile: the saved file when it is still     *)
(* there, a download of the original otherwise.                            *)
FetchSource(w) ==
    /\ pc[w] = "fetch"
    /\ \/ /\ "upload" \in tmp[cur[w]]
          /\ src' = [src EXCEPT ![w] = "upload"]
          /\ UNCHANGED tmp
       \/ /\ "upload" \notin tmp[cur[w]]
          /\ cloud[cur[w]]
          /\ src' = [src EXCEPT ![w] = "retry"]
          /\ tmp' = [tmp EXCEPT ![cur[w]] = @ \cup {"retry"}]
    /\ Publish(w, "working")
    /\ Goto(w, "extract")
    /\ UNCHANGED <<jobVars, doc, copies, rejected, cloud, announced, cur, att,
                   todo, bad, crashes, faults>>

(* The file cannot be read or downloaded.  What was there is removed, by   *)
(* the deferred call or by ensurePipelineFile.                             *)
FetchFails(w) ==
    /\ pc[w] = "fetch"
    /\ tmp' = [tmp EXCEPT ![cur[w]] =
                  IF "upload" \in @ THEN @ \ {"upload"} ELSE @ \ {"retry"}]
    /\ Publish(w, "error")
    /\ Goto(w, AfterFailure(w, TRUE))
    /\ UNCHANGED <<jobVars, doc, copies, rejected, cloud, announced, cur, att,
                   src, todo, bad, crashes, faults>>

(* ExtractAndChunk, which reads the original by its URL, not localPath.    *)
ExtractText(w) ==
    /\ pc[w] = "extract"
    /\ cloud[cur[w]]
    /\ todo' = [todo EXCEPT ![w] = TextChunks]
    /\ Goto(w, "ocr")
    /\ UNCHANGED <<jobVars, docVars, cur, att, src, bad, crashes, faults>>

ExtractFails(w) ==
    /\ pc[w] = "extract"
    /\ RemoveLocal(w)
    /\ Publish(w, "error")
    /\ Goto(w, AfterFailure(w, FALSE))
    /\ UNCHANGED <<jobVars, doc, copies, rejected, cloud, announced, cur, att,
                   src, todo, bad, crashes, faults>>

(* The loop over job.ImagePaths: every image file is removed once it has   *)
(* been sent, whether or not the text in it was read, and the images that  *)
(* could not be read are left out of the document.                         *)
OcrImages(w) ==
    /\ pc[w] = "ocr"
    /\ \E read \in SUBSET ImageChunks :
         /\ "images" \notin tmp[cur[w]] => read = {}
         /\ todo' = [todo EXCEPT ![w] = @ \cup read]
    /\ tmp' = [tmp EXCEPT ![cur[w]] = @ \ {"images"}]
    /\ Goto(w, "moderate")
    /\ UNCHANGED <<jobVars, doc, copies, rejected, progress, cloud, announced,
                   cur, att, src, bad, crashes, faults>>

(* Mutant of ModeratePass: rejected_hashes is not looked at.               *)
ModeratePassUnseen(w) ==
    /\ pc[w] = "moderate"
    /\ Publish(w, "working")
    /\ Goto(w, "embed")
    /\ UNCHANGED <<jobVars, doc, copies, rejected, cloud, tmp, announced, cur,
                   att, src, todo, bad, crashes, faults>>

(* T1RuleBased, T2KeywordCheck and T3AICheck let the text through.  T1     *)
(* looks the hash up in rejected_hashes and ignores a failing look-up.     *)
ModeratePass(w) ==
    /\ pc[w] = "moderate"
    /\ \/ ~rejected[cur[w]] /\ UNCHANGED faults
       \/ Fault
    /\ Publish(w, "working")
    /\ Goto(w, "embed")
    /\ UNCHANGED <<jobVars, doc, copies, rejected, cloud, tmp, announced, cur,
                   att, src, todo, bad, crashes>>

(* One of the three tiers refuses it.                                      *)
ModerateReject(w) ==
    /\ pc[w] = "moderate"
    /\ Publish(w, "working")
    /\ Goto(w, "reject")
    /\ UNCHANGED <<jobVars, doc, copies, rejected, cloud, tmp, announced, cur,
                   att, src, todo, bad, crashes, faults>>

(* T3AICheck could not reach a model.                                      *)
ModerateUnavailable(w) ==
    /\ pc[w] = "moderate"
    /\ ~rejected[cur[w]]
    /\ RemoveLocal(w)
    /\ Publish(w, "working")
    /\ Goto(w, AfterFailure(w, TRUE))
    /\ UNCHANGED <<jobVars, doc, copies, rejected, cloud, announced, cur, att,
                   src, todo, bad, crashes, faults>>

(* SaveRejectedHash and the return with Rejected = true.                   *)
SaveRejectedHash(w) ==
    /\ pc[w] = "reject"
    /\ \/ rejected' = [rejected EXCEPT ![cur[w]] = TRUE] /\ UNCHANGED faults
       \/ Fault /\ UNCHANGED rejected
    /\ RemoveLocal(w)
    /\ Goto(w, AfterFailure(w, FALSE))
    /\ UNCHANGED <<jobVars, doc, copies, progress, cloud, announced, cur, att,
                   src, todo, bad, crashes>>

(* INSERT INTO document_chunks: nothing stops a second row for a chunk.    *)
Inserted(rows, c) == [rows EXCEPT ![c] = @ + 1]

(* One goroutine of embedChunks: the chunk is embedded and inserted ...    *)
EmbedChunk(w, c) ==
    /\ pc[w] = "embed"
    /\ c \in todo[w]
    /\ copies' = [copies EXCEPT ![cur[w]] = Inserted(@, c)]
    /\ todo' = [todo EXCEPT ![w] = @ \ {c}]
    /\ Publish(w, "working")
    /\ UNCHANGED <<jobVars, doc, rejected, cloud, tmp, announced, pc, cur, att,
                   src, bad, crashes, faults>>

(* ... or one of the two failed: errCount is incremented.                  *)
EmbedChunkFails(w, c) ==
    /\ pc[w] = "embed"
    /\ c \in todo[w]
    /\ todo' = [todo EXCEPT ![w] = @ \ {c}]
    /\ bad' = [bad EXCEPT ![w] = TRUE]
    /\ Publish(w, "working") \/ UNCHANGED progress
    /\ UNCHANGED <<jobVars, doc, copies, rejected, cloud, tmp, announced, pc,
                   cur, att, src, crashes, faults>>

(* Mutant of EmbedJoin: errCount is not looked at.                         *)
EmbedJoinRegardless(w) ==
    /\ pc[w] = "embed"
    /\ todo[w] = {}
    /\ Goto(w, "publish")
    /\ UNCHANGED <<jobVars, docVars, cur, att, src, todo, bad, crashes, faults>>

(* wg.Wait() returns.                                                      *)
EmbedJoin(w) ==
    /\ pc[w] = "embed"
    /\ todo[w] = {}
    /\ Goto(w, IF bad[w] THEN "purge" ELSE "publish")
    /\ UNCHANGED <<jobVars, docVars, cur, att, src, todo, bad, crashes, faults>>

(* Mutant of PurgeChunks: the rows written so far stay.                    *)
PurgeNothing(w) ==
    /\ pc[w] = "purge"
    /\ RemoveLocal(w)
    /\ Publish(w, "error")
    /\ Goto(w, AfterFailure(w, TRUE))
    /\ UNCHANGED <<jobVars, doc, copies, rejected, cloud, announced, cur, att,
                   src, todo, bad, crashes, faults>>

(* errCount > 0: every chunk row of the document is deleted.               *)
PurgeChunks(w) ==
    /\ pc[w] = "purge"
    /\ \/ /\ copies' = [copies EXCEPT ![cur[w]] = [c \in Chunks |-> 0]]
          /\ UNCHANGED faults
       \/ Fault /\ UNCHANGED copies
    /\ RemoveLocal(w)
    /\ Publish(w, "error")
    /\ Goto(w, AfterFailure(w, TRUE))
    /\ UNCHANGED <<jobVars, doc, rejected, cloud, announced, cur, att, src,
                   todo, bad, crashes>>

PublishReady(w) ==
    /\ pc[w] = "publish"
    /\ Publish(w, "ready")
    /\ Goto(w, "ready")
    /\ UNCHANGED <<jobVars, doc, copies, rejected, cloud, tmp, announced, cur,
                   att, src, todo, bad, crashes, faults>>

(* Mutant of MarkReady: no deferred os.Remove.                             *)
MarkReadyKeepsFile(w) ==
    /\ pc[w] = "ready"
    /\ doc' = [doc EXCEPT ![cur[w]] = "ready"]
    /\ Goto(w, "succeed")
    /\ UNCHANGED <<jobVars, copies, rejected, progress, cloud, tmp, announced,
                   cur, att, src, todo, bad, crashes, faults>>

MarkReady(w) ==
    /\ pc[w] = "ready"
    /\ \/ doc' = [doc EXCEPT ![cur[w]] = "ready"] /\ UNCHANGED faults
       \/ Fault /\ UNCHANGED doc
    /\ RemoveLocal(w)
    /\ Goto(w, "succeed")
    /\ UNCHANGED <<jobVars, copies, rejected, progress, cloud, announced, cur,
                   att, src, todo, bad, crashes>>

-----------------------------------------------------------------------------
(* markUploadJobSucceeded and handleUploadJobFailure.                      *)

MarkSucceeded(w) ==
    /\ pc[w] = "succeed"
    /\ \/ status' = [status EXCEPT ![cur[w]] = "succeeded"] /\ UNCHANGED faults
       \/ Fault /\ UNCHANGED status
    /\ Release(w)
    /\ UNCHANGED <<attempts, due, leaseOver, docVars, crashes>>

(* Mutants of RetryJob: next_run_at is left in the past; the status is one *)
(* upload_jobs_status_check does not allow.                                *)
RetryJobAtOnce(w) ==
    /\ pc[w] = "retryJob"
    /\ status' = [status EXCEPT ![cur[w]] = "retrying"]
    /\ Goto(w, "retryDoc")
    /\ UNCHANGED <<attempts, due, leaseOver, docVars, cur, att, src, todo, bad,
                   crashes, faults>>
RetryJobMisspelt(w) ==
    /\ pc[w] = "retryJob"
    /\ status' = [status EXCEPT ![cur[w]] = "retry"]
    /\ due' = [due EXCEPT ![cur[w]] = FALSE]
    /\ Goto(w, "retryDoc")
    /\ UNCHANGED <<attempts, leaseOver, docVars, cur, att, src, todo, bad,
                   crashes, faults>>

RetryJob(w) ==
    /\ pc[w] = "retryJob"
    /\ \/ /\ status' = [status EXCEPT ![cur[w]] = "retrying"]
          /\ due' = [due EXCEPT ![cur[w]] = FALSE]
          /\ UNCHANGED faults
       \/ Fault /\ UNCHANGED <<status, due>>
    /\ Goto(w, "retryDoc")
    /\ UNCHANGED <<attempts, leaseOver, docVars, cur, att, src, todo, bad,
                   crashes>>

RetryDoc(w) ==
    /\ pc[w] = "retryDoc"
    /\ \/ doc' = [doc EXCEPT ![cur[w]] = "queued"] /\ UNCHANGED faults
       \/ Fault /\ UNCHANGED doc
    /\ Publish(w, "queued")
    /\ Release(w)
    /\ UNCHANGED <<jobVars, copies, rejected, cloud, tmp, announced, crashes>>

FailJob(w) ==
    /\ pc[w] = "failJob"
    /\ \/ status' = [status EXCEPT ![cur[w]] = "failed"] /\ UNCHANGED faults
       \/ Fault /\ UNCHANGED status
    /\ Goto(w, "failDoc")
    /\ UNCHANGED <<attempts, due, leaseOver, docVars, cur, att, src, todo, bad,
                   crashes>>

(* Mutant of FailDoc: only the message is sent.                            *)
FailDocSilently(w) ==
    /\ pc[w] = "failDoc"
    /\ Publish(w, "error")
    /\ Goto(w, "failCloud")
    /\ UNCHANGED <<jobVars, doc, copies, rejected, cloud, tmp, announced, cur,
                   att, src, todo, bad, crashes, faults>>

FailDoc(w) ==
    /\ pc[w] = "failDoc"
    /\ \/ doc' = [doc EXCEPT ![cur[w]] = "error"] /\ UNCHANGED faults
       \/ Fault /\ UNCHANGED doc
    /\ Publish(w, "error")
    /\ Goto(w, "failCloud")
    /\ UNCHANGED <<jobVars, copies, rejected, cloud, tmp, announced, cur, att,
                   src, todo, bad, crashes>>

(* DestroyRawFromCloudinary; its error is only logged.                     *)
FailCloud(w) ==
    /\ pc[w] = "failCloud"
    /\ \/ cloud' = [cloud EXCEPT ![cur[w]] = FALSE] /\ UNCHANGED faults
       \/ Fault /\ UNCHANGED cloud
    /\ Release(w)
    /\ UNCHANGED <<jobVars, doc, copies, rejected, progress, tmp, announced,
                   crashes>>

-----------------------------------------------------------------------------
(* Time and the server process.                                            *)

Held(j) == \E w \in Workers : cur[w] = j

DelayElapses(j) ==
    /\ status[j] = "retrying" /\ ~due[j]
    /\ Punctual => ~Held(j)
    /\ due' = [due EXCEPT ![j] = TRUE]
    /\ UNCHANGED <<status, attempts, leaseOver, docVars, workerVars, crashes,
                   faults>>

LeaseRunsOut(j) ==
    /\ status[j] = "running" /\ ~leaseOver[j]
    /\ Punctual => ~Held(j)
    /\ leaseOver' = [leaseOver EXCEPT ![j] = TRUE]
    /\ UNCHANGED <<status, attempts, due, docVars, workerVars, crashes, faults>>

(* The process dies and StartWorkerPool runs again.  The container may     *)
(* come back with an empty ./tmp/uploads.                                  *)
Restart ==
    /\ crashes < MaxCrashes
    /\ crashes' = crashes + 1
    /\ tmp' \in {tmp, [j \in Jobs |-> {}]}
    /\ announced' = [j \in Jobs |-> announced[j] \/ status[j] # "none"]
    /\ pc' = [w \in Workers |-> "idle"]
    /\ cur' = [w \in Workers |-> NoJob]
    /\ att' = [w \in Workers |-> 0]
    /\ src' = [w \in Workers |-> "none"]
    /\ todo' = [w \in Workers |-> {}]
    /\ bad' = [w \in Workers |-> FALSE]
    /\ UNCHANGED <<jobVars, doc, copies, rejected, progress, cloud, faults>>

-----------------------------------------------------------------------------
Work(w) ==
    \/ MarkProcessing(w)
    \/ FetchSource(w) \/ FetchFails(w)
    \/ ExtractText(w) \/ ExtractFails(w)
    \/ OcrImages(w)
    \/ ModeratePass(w) \/ ModerateReject(w) \/ ModerateUnavailable(w)
    \/ SaveRejectedHash(w)
    \/ \E c \in Chunks : EmbedChunk(w, c) \/ EmbedChunkFails(w, c)
    \/ EmbedJoin(w) \/ PurgeChunks(w)
    \/ PublishReady(w) \/ MarkReady(w)
    \/ MarkSucceeded(w)
    \/ RetryJob(w) \/ RetryDoc(w)
    \/ FailJob(w) \/ FailDoc(w) \/ FailCloud(w)

Next ==
    \/ \E j \in Jobs : CreateUploadJob(j) \/ AnnounceQueued(j)
    \/ \E w \in Workers : Work(w) \/ \E j \in Jobs : Claim(w, j)
    \/ \E j \in Jobs : DelayElapses(j) \/ LeaseRunsOut(j)
    \/ Restart

Spec == Init /\ [][Next]_vars

(* A worker goroutine keeps being scheduled and every call it makes        *)
(* returns (they all carry a timeout); an idle one keeps polling; the      *)
(* clock advances.  Uploads and restarts are owed to nobody.               *)
Fairness ==
    /\ \A w \in Workers : WF_vars(Work(w)) /\ WF_vars(\E j \in Jobs : Claim(w, j))
    /\ \A j \in Jobs : WF_vars(DelayElapses(j)) /\ WF_vars(LeaseRunsOut(j))

FairSpec == Spec /\ Fairness

-----------------------------------------------------------------------------
(* Properties.                                                             *)

(* Every column, counter and worker variable keeps its type.               *)
TypeOK ==
    /\ status \in [Jobs -> Statuses]
    /\ attempts \in [Jobs -> Nat]
    /\ due \in [Jobs -> BOOLEAN]
    /\ leaseOver \in [Jobs -> BOOLEAN]
    /\ doc \in [Jobs -> DocStatuses]
    /\ copies \in [Jobs -> [Chunks -> Nat]]
    /\ rejected \in [Jobs -> BOOLEAN]
    /\ progress \in [Jobs -> Progresses]
    /\ cloud \in [Jobs -> BOOLEAN]
    /\ tmp \in [Jobs -> SUBSET TmpFiles]
    /\ announced \in [Jobs -> BOOLEAN]
    /\ pc \in [Workers -> Handling \cup {"idle"}]
    /\ cur \in [Workers -> Jobs \cup {NoJob}]
    /\ att \in [Workers -> Nat]
    /\ src \in [Workers -> {"none", "upload", "retry"}]
    /\ todo \in [Workers -> SUBSET Chunks]
    /\ bad \in [Workers -> BOOLEAN]
    /\ crashes \in Nat
    /\ faults \in Nat

Settled(j) == status[j] \in {"succeeded", "failed"}

(* No document is embedded twice at the same time: as long as live workers *)
(* are punctual, the row lock, the 15-minute lease and next_run_at keep a  *)
(* job with one worker, through retries, restarts and lost statements.     *)
ExclusiveJob ==
    Punctual => \A v, w \in Workers :
                  v # w /\ cur[v] # NoJob => cur[v] # cur[w]

(* A job is not started more often than max_attempts allows: the claim     *)
(* counts in the row, handleUploadJobFailure decides on the number its own *)
(* claim returned.                                                         *)
AttemptsBounded ==
    Punctual => \A j \in Jobs : attempts[j] <= MaxAttempts

(* Without punctuality each worker whose job was taken from it can still   *)
(* put the row back to "retrying" from its old number, so that every other *)
(* worker buys the job one more attempt, and not more than one.            *)
AttemptsBoundedWhenLate ==
    \A j \in Jobs : attempts[j] <= MaxAttempts + Cardinality(Workers) - 1

(* A document called ready, in the database or on the progress stream, has *)
(* a row in document_chunks for every chunk of its text.  Chunks are       *)
(* inserted one by one and deleted together when one of them failed.       *)
ReadyIsComplete ==
    Punctual /\ faults = 0 =>
      \A j \in Jobs : doc[j] = "ready" \/ progress[j] = "ready" =>
        \A c \in TextChunks : copies[j][c] > 0

(* A chunk is duplicated only by a restart or a lost statement, once for   *)
(* each: the INSERT of embedChunks has no key to conflict on, and a        *)
(* reclaimed job does not delete what the interrupted attempt had written. *)
DuplicatesBounded ==
    Punctual => \A j \in Jobs : \A c \in Chunks :
                  copies[j][c] <= 1 + crashes + faults

(* The queue, the document and the last message a client can read agree on *)
(* the outcome once the worker has let go of the job.  The "queued" of     *)
(* InitiateUpload may come last of all.                                    *)
VerdictsAgree ==
    Punctual /\ faults = 0 /\ crashes = 0 =>
      \A j \in Jobs : ~Held(j) =>
        /\ status[j] = "succeeded" =>
             doc[j] = "ready" /\ cloud[j] /\ progress[j] \in {"ready", "queued"}
        /\ status[j] = "failed" =>
             doc[j] = "error" /\ ~cloud[j] /\ progress[j] \in {"error", "queued"}
        /\ status[j] = "retrying" => doc[j] = "queued" /\ cloud[j]

(* What a job leaves in ./tmp/uploads when it is over: nothing when it     *)
(* succeeded, at most the attached images when it failed, whatever was     *)
(* interrupted in between.                                                 *)
TempFilesReclaimed ==
    Punctual => \A j \in Jobs : Settled(j) /\ ~Held(j) =>
      tmp[j] \subseteq IF status[j] = "succeeded" THEN {} ELSE {"images"}

(* A file whose hash is in rejected_hashes never gets past moderation, so  *)
(* that a rejection survives the restart of the worker that was about to   *)
(* record the failure.                                                     *)
PastModeration == {"embed", "publish", "ready"}
RejectionHolds ==
    Punctual /\ faults = 0 =>
      \A w \in Workers : pc[w] \in PastModeration => ~rejected[cur[w]]

(* What is left of an upload agrees with what became of it: the queue, the *)
(* document and the message say the same, a rejection survives a restart,  *)
(* a chunk is stored twice only by an interruption, and of the temporary   *)
(* files only the images of a failed job stay (ProcessUploadJob, and the   *)
(* settling of a job in workers/worker.go).                                *)
OutcomesAgree ==
    TypeOK /\ RejectionHolds /\ VerdictsAgree /\ DuplicatesBounded /\ TempFilesReclaimed

(* "T1RuleBased performs deterministic moderation that must not fail open" *)
(* (utils/moderation.go:33), so whatever happens to the look-up.           *)
ModerationNeverFailsOpen ==
    \A w \in Workers : pc[w] \in PastModeration => ~rejected[cur[w]]

(* A job that succeeded or failed is never touched again.                  *)
SettledIsFinal ==
    [][Punctual => \A j \in Jobs : Settled(j) => status'[j] = status[j]]_vars

(* Every accepted upload is settled: no failure, restart or lost statement *)
(* leaves a job behind that nobody will claim.                             *)
EventuallySettles == \A j \in Jobs : status[j] = "queued" ~> Settled(j)

(* Even when workers overrun the lease and contradict each other, the      *)
(* queue comes to rest: an accepted job is settled for good.               *)
Converges ==
    <>[](\A j \in Jobs : status[j] # "none" => Settled(j) /\ ~Held(j))

(* The queue does what DocumentIntake promises the uploader.               *)
Intake == INSTANCE DocumentIntake WITH
    Docs <- Jobs,
    stage <- [j \in Jobs |-> CASE status[j] = "none" -> "absent"
                               [] status[j] = "succeeded" -> "ready"
                               [] status[j] = "failed" -> "failed"
                               [] OTHER -> "accepted"],
    content <- [j \in Jobs |-> {c \in Chunks : copies[j][c] > 0}]
ImplementsIntake == Intake!Spec

=============================================================================
