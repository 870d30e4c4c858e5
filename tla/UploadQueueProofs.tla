------------------------- MODULE UploadQueueProofs -------------------------
(***************************************************************************)
(* Proofs about UploadQueue, for any number of jobs, workers, chunks,      *)
(* attempts, restarts and lost statements: first what the queue promises,  *)
(* then what the uploader is told, and that the queue implements           *)
(* DocumentIntake.                                                         *)
(*                                                                         *)
(* ExclusiveJob, AttemptsBounded and SettledIsFinal are not inductive:     *)
(* none of them says why the row of a held job cannot be claimed, or that  *)
(* the number handleUploadJobFailure compares is the one in the row.       *)
(* QueueInv adds this.                                                     *)
(***************************************************************************)
EXTENDS UploadQueue, FiniteSetTheorems, TLAPS

(* The worker has not recorded an outcome yet.                             *)
Undecided == Pipeline \cup {"start", "succeed", "retryJob", "failJob"}

(* A worker that is not idle holds a job, and only then.                   *)
BusyHolds == \A w \in Workers : cur[w] = NoJob <=> pc[w] = "idle"

(* No two workers hold one job.                                            *)
OneHolder ==
    \A v, w \in Workers : v # w /\ cur[v] # NoJob => cur[v] # cur[w]

(* A held job has a row, which the claim statement does not find.          *)
HeldUnclaimable ==
    \A w \in Workers : cur[w] # NoJob =>
      status[cur[w]] # "none" /\ ~Abandoned(cur[w]) /\ ~Claimable(cur[w])

(* The row says "running" until the outcome is recorded.                   *)
UndecidedRunning ==
    \A w \in Workers : pc[w] \in Undecided => status[cur[w]] = "running"

(* The number a worker decides with is the one in the row.                 *)
Counted ==
    \A w \in Workers :
      /\ cur[w] # NoJob => att[w] = attempts[cur[w]]
      /\ pc[w] = "retryJob" => att[w] < MaxAttempts

(* A row that can be claimed has an attempt left.                          *)
AttemptsLeft ==
    \A j \in Jobs :
      /\ attempts[j] <= MaxAttempts
      /\ status[j] \in {"none", "queued", "retrying"} =>
           attempts[j] < MaxAttempts

QueueInv ==
    /\ TypeOK
    /\ BusyHolds
    /\ OneHolder
    /\ HeldUnclaimable
    /\ UndecidedRunning
    /\ Counted
    /\ AttemptsLeft

-----------------------------------------------------------------------------
(* Type correctness.                                                       *)

LEMMA TypeInit == Init => TypeOK
  BY NoJobAssumption DEF Init, TypeOK, Statuses, DocStatuses, Progresses,
     TmpFiles, Handling, Pipeline

LEMMA TypeWork ==
  ASSUME TypeOK, NEW w \in Workers, Work(w)
  PROVE  TypeOK'
  <1>1. CASE MarkProcessing(w)
    <2>1. doc' \in [Jobs -> DocStatuses]
      BY <1>1 DEF MarkProcessing, TypeOK, DocStatuses
    <2>2. progress' \in [Jobs -> Progresses]
      BY <1>1 DEF MarkProcessing, TypeOK, Publish, Progresses
    <2>3. pc' \in [Workers -> Handling \cup {"idle"}]
      BY <1>1 DEF MarkProcessing, TypeOK, Goto, Handling, Pipeline
    <2>4. faults' \in Nat
      BY <1>1 DEF MarkProcessing, TypeOK, Fault
    <2> QED
      BY <1>1, <2>1, <2>2, <2>3, <2>4 DEF MarkProcessing, TypeOK, jobVars,
         docVars, workerVars
  <1>2. CASE FetchSource(w)
    <2>1. progress' \in [Jobs -> Progresses]
      BY <1>2 DEF FetchSource, TypeOK, Publish, Progresses
    <2>2. tmp' \in [Jobs -> SUBSET TmpFiles]
      <3>1. tmp' = tmp \/ tmp' = [tmp EXCEPT ![cur[w]] = @ \cup {"retry"}]
        BY <1>2 DEF FetchSource
      <3>2. tmp \in [Jobs -> SUBSET TmpFiles] /\ "retry" \in TmpFiles
        BY DEF TypeOK, TmpFiles
      <3> QED
        BY <3>1, <3>2
    <2>3. pc' \in [Workers -> Handling \cup {"idle"}]
      BY <1>2 DEF FetchSource, TypeOK, Goto, Handling, Pipeline
    <2>4. src' \in [Workers -> {"none", "upload", "retry"}]
      BY <1>2 DEF FetchSource, TypeOK
    <2> QED
      BY <1>2, <2>1, <2>2, <2>3, <2>4 DEF FetchSource, TypeOK, jobVars,
         docVars, workerVars
  <1>3. CASE FetchFails(w)
    <2>1. progress' \in [Jobs -> Progresses]
      BY <1>3 DEF FetchFails, TypeOK, Publish, Progresses
    <2>2. tmp' \in [Jobs -> SUBSET TmpFiles]
      BY <1>3 DEF FetchFails, TypeOK, TmpFiles
    <2>3. pc' \in [Workers -> Handling \cup {"idle"}]
      BY <1>3 DEF FetchFails, TypeOK, Goto, AfterFailure, Handling, Pipeline
    <2> QED
      BY <1>3, <2>1, <2>2, <2>3 DEF FetchFails, TypeOK, jobVars, docVars,
         workerVars
  <1>4. CASE ExtractText(w)
    <2>1. pc' \in [Workers -> Handling \cup {"idle"}]
      BY <1>4 DEF ExtractText, TypeOK, Goto, Handling, Pipeline
    <2>2. todo' \in [Workers -> SUBSET Chunks]
      BY <1>4 DEF ExtractText, TypeOK, Chunks
    <2> QED
      BY <1>4, <2>1, <2>2 DEF ExtractText, TypeOK, jobVars, docVars,
         workerVars
  <1>5. CASE ExtractFails(w)
    <2>1. progress' \in [Jobs -> Progresses]
      BY <1>5 DEF ExtractFails, TypeOK, Publish, Progresses
    <2>2. tmp' \in [Jobs -> SUBSET TmpFiles]
      BY <1>5 DEF ExtractFails, TypeOK, RemoveLocal, TmpFiles
    <2>3. pc' \in [Workers -> Handling \cup {"idle"}]
      BY <1>5 DEF ExtractFails, TypeOK, Goto, AfterFailure, Handling, Pipeline
    <2> QED
      BY <1>5, <2>1, <2>2, <2>3 DEF ExtractFails, TypeOK, jobVars, docVars,
         workerVars
  <1>6. CASE OcrImages(w)
    <2>1. tmp' \in [Jobs -> SUBSET TmpFiles]
      BY <1>6 DEF OcrImages, TypeOK, TmpFiles
    <2>2. pc' \in [Workers -> Handling \cup {"idle"}]
      BY <1>6 DEF OcrImages, TypeOK, Goto, Handling, Pipeline
    <2>3. todo' \in [Workers -> SUBSET Chunks]
      BY <1>6 DEF OcrImages, TypeOK, Chunks
    <2> QED
      BY <1>6, <2>1, <2>2, <2>3 DEF OcrImages, TypeOK, jobVars, docVars,
         workerVars
  <1>7. CASE ModeratePass(w)
    <2>1. progress' \in [Jobs -> Progresses]
      BY <1>7 DEF ModeratePass, TypeOK, Publish, Progresses
    <2>2. pc' \in [Workers -> Handling \cup {"idle"}]
      BY <1>7 DEF ModeratePass, TypeOK, Goto, Handling, Pipeline
    <2>3. faults' \in Nat
      BY <1>7 DEF ModeratePass, TypeOK, Fault
    <2> QED
      BY <1>7, <2>1, <2>2, <2>3 DEF ModeratePass, TypeOK, jobVars, docVars,
         workerVars
  <1>8. CASE ModerateReject(w)
    <2>1. progress' \in [Jobs -> Progresses]
      BY <1>8 DEF ModerateReject, TypeOK, Publish, Progresses
    <2>2. pc' \in [Workers -> Handling \cup {"idle"}]
      BY <1>8 DEF ModerateReject, TypeOK, Goto, Handling, Pipeline
    <2> QED
      BY <1>8, <2>1, <2>2 DEF ModerateReject, TypeOK, jobVars, docVars,
         workerVars
  <1>9. CASE ModerateUnavailable(w)
    <2>1. progress' \in [Jobs -> Progresses]
      BY <1>9 DEF ModerateUnavailable, TypeOK, Publish, Progresses
    <2>2. tmp' \in [Jobs -> SUBSET TmpFiles]
      BY <1>9 DEF ModerateUnavailable, TypeOK, RemoveLocal, TmpFiles
    <2>3. pc' \in [Workers -> Handling \cup {"idle"}]
      BY <1>9 DEF ModerateUnavailable, TypeOK, Goto, AfterFailure, Handling,
         Pipeline
    <2> QED
      BY <1>9, <2>1, <2>2, <2>3 DEF ModerateUnavailable, TypeOK, jobVars,
         docVars, workerVars
  <1>10. CASE SaveRejectedHash(w)
    <2>1. rejected' \in [Jobs -> BOOLEAN]
      BY <1>10 DEF SaveRejectedHash, TypeOK
    <2>2. tmp' \in [Jobs -> SUBSET TmpFiles]
      BY <1>10 DEF SaveRejectedHash, TypeOK, RemoveLocal, TmpFiles
    <2>3. pc' \in [Workers -> Handling \cup {"idle"}]
      BY <1>10 DEF SaveRejectedHash, TypeOK, Goto, AfterFailure, Handling,
         Pipeline
    <2>4. faults' \in Nat
      BY <1>10 DEF SaveRejectedHash, TypeOK, Fault
    <2> QED
      BY <1>10, <2>1, <2>2, <2>3, <2>4 DEF SaveRejectedHash, TypeOK, jobVars,
         docVars, workerVars
  <1>11. CASE EmbedJoin(w)
    <2>1. pc' \in [Workers -> Handling \cup {"idle"}]
      BY <1>11 DEF EmbedJoin, TypeOK, Goto, Handling, Pipeline
    <2> QED
      BY <1>11, <2>1 DEF EmbedJoin, TypeOK, jobVars, docVars, workerVars
  <1>12. CASE PurgeChunks(w)
    <2>1. copies' \in [Jobs -> [Chunks -> Nat]]
      BY <1>12 DEF PurgeChunks, TypeOK
    <2>2. progress' \in [Jobs -> Progresses]
      BY <1>12 DEF PurgeChunks, TypeOK, Publish, Progresses
    <2>3. tmp' \in [Jobs -> SUBSET TmpFiles]
      BY <1>12 DEF PurgeChunks, TypeOK, RemoveLocal, TmpFiles
    <2>4. pc' \in [Workers -> Handling \cup {"idle"}]
      BY <1>12 DEF PurgeChunks, TypeOK, Goto, AfterFailure, Handling, Pipeline
    <2>5. faults' \in Nat
      BY <1>12 DEF PurgeChunks, TypeOK, Fault
    <2> QED
      BY <1>12, <2>1, <2>2, <2>3, <2>4, <2>5 DEF PurgeChunks, TypeOK, jobVars,
         docVars, workerVars
  <1>13. CASE PublishReady(w)
    <2>1. progress' \in [Jobs -> Progresses]
      BY <1>13 DEF PublishReady, TypeOK, Publish, Progresses
    <2>2. pc' \in [Workers -> Handling \cup {"idle"}]
      BY <1>13 DEF PublishReady, TypeOK, Goto, Handling, Pipeline
    <2> QED
      BY <1>13, <2>1, <2>2 DEF PublishReady, TypeOK, jobVars, docVars,
         workerVars
  <1>14. CASE MarkReady(w)
    <2>1. doc' \in [Jobs -> DocStatuses]
      BY <1>14 DEF MarkReady, TypeOK, DocStatuses
    <2>2. tmp' \in [Jobs -> SUBSET TmpFiles]
      BY <1>14 DEF MarkReady, TypeOK, RemoveLocal, TmpFiles
    <2>3. pc' \in [Workers -> Handling \cup {"idle"}]
      BY <1>14 DEF MarkReady, TypeOK, Goto, Handling, Pipeline
    <2>4. faults' \in Nat
      BY <1>14 DEF MarkReady, TypeOK, Fault
    <2> QED
      BY <1>14, <2>1, <2>2, <2>3, <2>4 DEF MarkReady, TypeOK, jobVars,
         docVars, workerVars
  <1>15. CASE MarkSucceeded(w)
    <2>1. status' \in [Jobs -> Statuses]
      BY <1>15 DEF MarkSucceeded, TypeOK, Statuses
    <2>2. pc' \in [Workers -> Handling \cup {"idle"}]
      BY <1>15 DEF MarkSucceeded, TypeOK, Release, Goto, Handling, Pipeline
    <2>3. cur' \in [Workers -> Jobs \cup {NoJob}]
      BY <1>15 DEF MarkSucceeded, TypeOK, Release
    <2>4. att' \in [Workers -> Nat]
      BY <1>15 DEF MarkSucceeded, TypeOK, Release
    <2>5. src' \in [Workers -> {"none", "upload", "retry"}]
      BY <1>15 DEF MarkSucceeded, TypeOK, Release
    <2>6. todo' \in [Workers -> SUBSET Chunks]
      BY <1>15 DEF MarkSucceeded, TypeOK, Release
    <2>7. bad' \in [Workers -> BOOLEAN]
      BY <1>15 DEF MarkSucceeded, TypeOK, Release
    <2>8. faults' \in Nat
      BY <1>15 DEF MarkSucceeded, TypeOK, Fault
    <2> QED
      BY <1>15, <2>1, <2>2, <2>3, <2>4, <2>5, <2>6, <2>7, <2>8 DEF
         MarkSucceeded, TypeOK, jobVars, docVars, workerVars
  <1>16. CASE RetryJob(w)
    <2>1. status' \in [Jobs -> Statuses]
      BY <1>16 DEF RetryJob, TypeOK, Statuses
    <2>2. due' \in [Jobs -> BOOLEAN]
      BY <1>16 DEF RetryJob, TypeOK
    <2>3. pc' \in [Workers -> Handling \cup {"idle"}]
      BY <1>16 DEF RetryJob, TypeOK, Goto, Handling, Pipeline
    <2>4. faults' \in Nat
      BY <1>16 DEF RetryJob, TypeOK, Fault
    <2> QED
      BY <1>16, <2>1, <2>2, <2>3, <2>4 DEF RetryJob, TypeOK, jobVars, docVars,
         workerVars
  <1>17. CASE RetryDoc(w)
    <2>1. doc' \in [Jobs -> DocStatuses]
      BY <1>17 DEF RetryDoc, TypeOK, DocStatuses
    <2>2. progress' \in [Jobs -> Progresses]
      BY <1>17 DEF RetryDoc, TypeOK, Publish, Progresses
    <2>3. pc' \in [Workers -> Handling \cup {"idle"}]
      BY <1>17 DEF RetryDoc, TypeOK, Release, Goto, Handling, Pipeline
    <2>4. cur' \in [Workers -> Jobs \cup {NoJob}]
      BY <1>17 DEF RetryDoc, TypeOK, Release
    <2>5. att' \in [Workers -> Nat]
      BY <1>17 DEF RetryDoc, TypeOK, Release
    <2>6. src' \in [Workers -> {"none", "upload", "retry"}]
      BY <1>17 DEF RetryDoc, TypeOK, Release
    <2>7. todo' \in [Workers -> SUBSET Chunks]
      BY <1>17 DEF RetryDoc, TypeOK, Release
    <2>8. bad' \in [Workers -> BOOLEAN]
      BY <1>17 DEF RetryDoc, TypeOK, Release
    <2>9. faults' \in Nat
      BY <1>17 DEF RetryDoc, TypeOK, Fault
    <2> QED
      BY <1>17, <2>1, <2>2, <2>3, <2>4, <2>5, <2>6, <2>7, <2>8, <2>9 DEF
         RetryDoc, TypeOK, jobVars, docVars, workerVars
  <1>18. CASE FailJob(w)
    <2>1. status' \in [Jobs -> Statuses]
      BY <1>18 DEF FailJob, TypeOK, Statuses
    <2>2. pc' \in [Workers -> Handling \cup {"idle"}]
      BY <1>18 DEF FailJob, TypeOK, Goto, Handling, Pipeline
    <2>3. faults' \in Nat
      BY <1>18 DEF FailJob, TypeOK, Fault
    <2> QED
      BY <1>18, <2>1, <2>2, <2>3 DEF FailJob, TypeOK, jobVars, docVars,
         workerVars
  <1>19. CASE FailDoc(w)
    <2>1. doc' \in [Jobs -> DocStatuses]
      BY <1>19 DEF FailDoc, TypeOK, DocStatuses
    <2>2. progress' \in [Jobs -> Progresses]
      BY <1>19 DEF FailDoc, TypeOK, Publish, Progresses
    <2>3. pc' \in [Workers -> Handling \cup {"idle"}]
      BY <1>19 DEF FailDoc, TypeOK, Goto, Handling, Pipeline
    <2>4. faults' \in Nat
      BY <1>19 DEF FailDoc, TypeOK, Fault
    <2> QED
      BY <1>19, <2>1, <2>2, <2>3, <2>4 DEF FailDoc, TypeOK, jobVars, docVars,
         workerVars
  <1>20. CASE FailCloud(w)
    <2>1. cloud' \in [Jobs -> BOOLEAN]
      BY <1>20 DEF FailCloud, TypeOK
    <2>2. pc' \in [Workers -> Handling \cup {"idle"}]
      BY <1>20 DEF FailCloud, TypeOK, Release, Goto, Handling, Pipeline
    <2>3. cur' \in [Workers -> Jobs \cup {NoJob}]
      BY <1>20 DEF FailCloud, TypeOK, Release
    <2>4. att' \in [Workers -> Nat]
      BY <1>20 DEF FailCloud, TypeOK, Release
    <2>5. src' \in [Workers -> {"none", "upload", "retry"}]
      BY <1>20 DEF FailCloud, TypeOK, Release
    <2>6. todo' \in [Workers -> SUBSET Chunks]
      BY <1>20 DEF FailCloud, TypeOK, Release
    <2>7. bad' \in [Workers -> BOOLEAN]
      BY <1>20 DEF FailCloud, TypeOK, Release
    <2>8. faults' \in Nat
      BY <1>20 DEF FailCloud, TypeOK, Fault
    <2> QED
      BY <1>20, <2>1, <2>2, <2>3, <2>4, <2>5, <2>6, <2>7, <2>8 DEF FailCloud,
         TypeOK, jobVars, docVars, workerVars
  <1>21. CASE \E c \in Chunks : EmbedChunk(w, c)
    <2> PICK c \in Chunks : EmbedChunk(w, c)
      BY <1>21
    <2>1. copies' \in [Jobs -> [Chunks -> Nat]]
      <3>1. copies \in [Jobs -> [Chunks -> Nat]]
        BY DEF TypeOK
      <3>2. ASSUME NEW j \in Jobs
            PROVE  Inserted(copies[j], c) \in [Chunks -> Nat]
        BY <3>1 DEF Inserted
      <3>3. copies' = [copies EXCEPT ![cur[w]] = Inserted(@, c)]
        BY DEF EmbedChunk
      <3> QED
        BY <3>1, <3>2, <3>3
    <2>2. progress' \in [Jobs -> Progresses]
      BY DEF EmbedChunk, TypeOK, Publish, Progresses
    <2>3. todo' \in [Workers -> SUBSET Chunks]
      BY DEF EmbedChunk, TypeOK
    <2> QED
      BY <2>1, <2>2, <2>3 DEF EmbedChunk, TypeOK, jobVars, docVars,
         workerVars
  <1>22. CASE \E c \in Chunks : EmbedChunkFails(w, c)
    <2> PICK c \in Chunks : EmbedChunkFails(w, c)
      BY <1>22
    <2>1. progress' \in [Jobs -> Progresses]
      BY DEF EmbedChunkFails, TypeOK, Publish, Progresses
    <2>2. todo' \in [Workers -> SUBSET Chunks]
      BY DEF EmbedChunkFails, TypeOK
    <2>3. bad' \in [Workers -> BOOLEAN]
      BY DEF EmbedChunkFails, TypeOK
    <2> QED
      BY <2>1, <2>2, <2>3 DEF EmbedChunkFails, TypeOK, jobVars,
         docVars, workerVars
  <1> QED
    BY <1>1, <1>2, <1>3, <1>4, <1>5, <1>6, <1>7, <1>8, <1>9, <1>10, <1>11,
       <1>12, <1>13, <1>14, <1>15, <1>16, <1>17, <1>18, <1>19, <1>20, <1>21,
       <1>22
       DEF Work

LEMMA TypeStep == TypeOK /\ [Next]_vars => TypeOK'
  <1> SUFFICES ASSUME TypeOK, [Next]_vars
               PROVE  TypeOK'
    OBVIOUS
  <1>1. CASE \E j \in Jobs : CreateUploadJob(j)
    <2> PICK j \in Jobs : CreateUploadJob(j)
      BY <1>1
    <2>1. status' \in [Jobs -> Statuses]
      BY DEF CreateUploadJob, TypeOK, Statuses
    <2>2. due' \in [Jobs -> BOOLEAN]
      BY DEF CreateUploadJob, TypeOK
    <2>3. doc' \in [Jobs -> DocStatuses]
      BY DEF CreateUploadJob, TypeOK, DocStatuses
    <2>4. cloud' \in [Jobs -> BOOLEAN]
      BY DEF CreateUploadJob, TypeOK
    <2>5. tmp' \in [Jobs -> SUBSET TmpFiles]
      BY DEF CreateUploadJob, TypeOK, TmpFiles
    <2> QED
      BY <2>1, <2>2, <2>3, <2>4, <2>5 DEF CreateUploadJob, TypeOK,
         jobVars, docVars, workerVars
  <1>2. CASE \E j \in Jobs : AnnounceQueued(j)
    <2> PICK j \in Jobs : AnnounceQueued(j)
      BY <1>2
    <2>1. progress' \in [Jobs -> Progresses]
      BY DEF AnnounceQueued, TypeOK, Progresses
    <2>2. announced' \in [Jobs -> BOOLEAN]
      BY DEF AnnounceQueued, TypeOK
    <2> QED
      BY <2>1, <2>2 DEF AnnounceQueued, TypeOK, jobVars, docVars,
         workerVars
  <1>3. CASE \E w \in Workers, j \in Jobs : Claim(w, j)
    <2> PICK w \in Workers, j \in Jobs : Claim(w, j)
      BY <1>3
    <2>1. status' \in [Jobs -> Statuses]
      BY DEF Claim, TypeOK, Statuses
    <2>2. attempts' \in [Jobs -> Nat]
      BY DEF Claim, TypeOK
    <2>3. leaseOver' \in [Jobs -> BOOLEAN]
      BY DEF Claim, TypeOK
    <2>4. pc' \in [Workers -> Handling \cup {"idle"}]
      BY DEF Claim, TypeOK, Goto, Handling, Pipeline
    <2>5. cur' \in [Workers -> Jobs \cup {NoJob}]
      BY DEF Claim, TypeOK
    <2>6. att' \in [Workers -> Nat]
      BY DEF Claim, TypeOK
    <2> QED
      BY <2>1, <2>2, <2>3, <2>4, <2>5, <2>6 DEF Claim, TypeOK, jobVars,
         docVars, workerVars
  <1>4. CASE \E j \in Jobs : DelayElapses(j)
    <2> PICK j \in Jobs : DelayElapses(j)
      BY <1>4
    <2>1. due' \in [Jobs -> BOOLEAN]
      BY DEF DelayElapses, TypeOK
    <2> QED
      BY <2>1 DEF DelayElapses, TypeOK, jobVars, docVars, workerVars
  <1>5. CASE \E j \in Jobs : LeaseRunsOut(j)
    <2> PICK j \in Jobs : LeaseRunsOut(j)
      BY <1>5
    <2>1. leaseOver' \in [Jobs -> BOOLEAN]
      BY DEF LeaseRunsOut, TypeOK
    <2> QED
      BY <2>1 DEF LeaseRunsOut, TypeOK, jobVars, docVars, workerVars
  <1>6. CASE Restart
    <2>1. tmp' \in [Jobs -> SUBSET TmpFiles]
      BY <1>6 DEF Restart, TypeOK, TmpFiles
    <2>2. announced' \in [Jobs -> BOOLEAN]
      BY <1>6 DEF Restart, TypeOK
    <2>3. pc' \in [Workers -> Handling \cup {"idle"}]
      BY <1>6 DEF Restart, TypeOK, Handling, Pipeline
    <2>4. cur' \in [Workers -> Jobs \cup {NoJob}]
      BY <1>6 DEF Restart, TypeOK
    <2>5. att' \in [Workers -> Nat]
      BY <1>6 DEF Restart, TypeOK
    <2>6. src' \in [Workers -> {"none", "upload", "retry"}]
      BY <1>6 DEF Restart, TypeOK
    <2>7. todo' \in [Workers -> SUBSET Chunks]
      BY <1>6 DEF Restart, TypeOK
    <2>8. bad' \in [Workers -> BOOLEAN]
      BY <1>6 DEF Restart, TypeOK
    <2>9. crashes' \in Nat
      BY <1>6 DEF Restart, TypeOK
    <2> QED
      BY <1>6, <2>1, <2>2, <2>3, <2>4, <2>5, <2>6, <2>7, <2>8, <2>9 DEF
         Restart, TypeOK, jobVars, docVars, workerVars
  <1>7. CASE \E w \in Workers : Work(w)
    BY <1>7, TypeWork
  <1>8. CASE UNCHANGED vars
    BY <1>8 DEF TypeOK, vars, jobVars, docVars, workerVars
  <1> QED
    BY <1>1, <1>2, <1>3, <1>4, <1>5, <1>6, <1>7, <1>8 DEF Next

(* Every variable keeps its type; for upload_jobs.status that is the       *)
(* constraint upload_jobs_status_check of the table.                       *)
THEOREM TypeCorrect == Spec => []TypeOK
  BY TypeInit, TypeStep, PTL DEF Spec

-----------------------------------------------------------------------------
(* The inductive invariant.                                                *)

(* What the queue sees of a step inside the pipeline: the worker moves on, *)
(* to "retryJob" only with an attempt left.                                *)
Inside(w) ==
    /\ pc[w] \in Pipeline \cup {"start"}
    /\ \E l \in Undecided :
         /\ pc' = [pc EXCEPT ![w] = l]
         /\ l = "retryJob" => att[w] < MaxAttempts
    /\ UNCHANGED <<status, attempts, due, leaseOver, cur, att>>

(* Where handleUploadJobFailure sends the worker.                          *)
LEMMA FailureLabel ==
  ASSUME NEW w \in Workers, NEW retryable
  PROVE  /\ AfterFailure(w, retryable) \in Undecided
         /\ AfterFailure(w, retryable) = "retryJob" => att[w] < MaxAttempts
  BY DEF AfterFailure, Undecided

LEMMA PipelineStaysInside ==
  ASSUME TypeOK, NEW w \in Workers, Work(w),
         pc[w] \in Pipeline \cup {"start"}
  PROVE  Inside(w)
  <1> USE DEF Inside, Pipeline, jobVars, docVars, workerVars, Goto
  <1>1. CASE MarkProcessing(w)
    BY <1>1 DEF Undecided, MarkProcessing
  <1>2. CASE FetchSource(w)
    BY <1>2 DEF Undecided, FetchSource
  <1>3. CASE FetchFails(w)
    BY <1>3, FailureLabel DEF FetchFails
  <1>4. CASE ExtractText(w)
    BY <1>4 DEF Undecided, ExtractText
  <1>5. CASE ExtractFails(w)
    BY <1>5, FailureLabel DEF ExtractFails
  <1>6. CASE OcrImages(w)
    BY <1>6 DEF Undecided, OcrImages
  <1>7. CASE ModeratePass(w)
    BY <1>7 DEF Undecided, ModeratePass
  <1>8. CASE ModerateReject(w)
    BY <1>8 DEF Undecided, ModerateReject
  <1>9. CASE ModerateUnavailable(w)
    BY <1>9, FailureLabel DEF ModerateUnavailable
  <1>10. CASE SaveRejectedHash(w)
    <2>1. /\ pc[w] = "reject"
          /\ pc' = [pc EXCEPT ![w] = AfterFailure(w, FALSE)]
          /\ UNCHANGED <<status, attempts, due, leaseOver, cur, att>>
      BY <1>10 DEF SaveRejectedHash
    <2> QED
      BY <2>1, FailureLabel
  <1>11. CASE EmbedJoin(w)
    <2>1. \E l \in {"purge", "publish"} :
             /\ pc[w] = "embed"
             /\ pc' = [pc EXCEPT ![w] = l]
             /\ UNCHANGED <<status, attempts, due, leaseOver, cur, att>>
      BY <1>11 DEF EmbedJoin
    <2> QED
      BY <2>1 DEF Undecided
  <1>12. CASE PurgeChunks(w)
    <2>1. /\ pc[w] = "purge"
          /\ pc' = [pc EXCEPT ![w] = AfterFailure(w, TRUE)]
          /\ UNCHANGED <<status, attempts, due, leaseOver, cur, att>>
      BY <1>12 DEF PurgeChunks
    <2> QED
      BY <2>1, FailureLabel
  <1>13. CASE PublishReady(w)
    BY <1>13 DEF Undecided, PublishReady
  <1>14. CASE MarkReady(w)
    BY <1>14 DEF Undecided, MarkReady
  <1>15. CASE \E c \in Chunks : EmbedChunk(w, c)
    BY <1>15 DEF Undecided, EmbedChunk, TypeOK
  <1>16. CASE \E c \in Chunks : EmbedChunkFails(w, c)
    BY <1>16 DEF Undecided, EmbedChunkFails, TypeOK
  <1> QED
    BY <1>1, <1>2, <1>3, <1>4, <1>5, <1>6, <1>7, <1>8, <1>9, <1>10, <1>11, <1>12, <1>13, <1>14, <1>15, <1>16
       DEF Work, MarkSucceeded, RetryJob, RetryDoc, FailJob, FailDoc, FailCloud

LEMMA InsideStep ==
  ASSUME QueueInv, NEW w \in Workers, Inside(w)
  PROVE  /\ BusyHolds' /\ OneHolder' /\ HeldUnclaimable'
         /\ UndecidedRunning' /\ Counted' /\ AttemptsLeft'
  <1> USE DEF QueueInv, Inside
  <1>0. PICK l \in Undecided : /\ pc' = [pc EXCEPT ![w] = l]
                               /\ l = "retryJob" => att[w] < MaxAttempts
    OBVIOUS
  <1>1. BusyHolds'
    BY <1>0 DEF BusyHolds, TypeOK, Undecided, Pipeline
  <1>2. OneHolder'
    BY DEF OneHolder
  <1>3. HeldUnclaimable'
    BY DEF HeldUnclaimable, Abandoned, Claimable
  <1>4. UndecidedRunning'
    BY <1>0 DEF UndecidedRunning, TypeOK, Undecided
  <1>5. Counted'
    BY <1>0 DEF Counted, TypeOK
  <1>6. AttemptsLeft'
    BY DEF AttemptsLeft
  <1> QED
    BY <1>1, <1>2, <1>3, <1>4, <1>5, <1>6

(* The steps of a worker after the pipeline.                               *)
LEMMA OutcomeStep ==
  ASSUME QueueInv, TypeOK', NEW w \in Workers,
         MarkSucceeded(w) \/ RetryJob(w) \/ RetryDoc(w) \/ FailJob(w)
           \/ FailDoc(w) \/ FailCloud(w)
  PROVE  QueueInv'
  <1> DEFINE j == cur[w]
  <1>1. /\ j \in Jobs
        /\ pc[w] # "idle"
        /\ \A v \in Workers : v # w => cur[v] # j
    BY NoJobAssumption DEF QueueInv, BusyHolds, OneHolder, TypeOK,
       MarkSucceeded, RetryJob, RetryDoc, FailJob, FailDoc, FailCloud
  <1>2. CASE MarkSucceeded(w)
    <2> USE <1>1, <1>2 DEF QueueInv, TypeOK, MarkSucceeded, Goto, Release,
              jobVars
    <2>1. BusyHolds'
      BY DEF BusyHolds
    <2>2. OneHolder'
      BY DEF OneHolder
    <2>3. HeldUnclaimable'
      BY DEF HeldUnclaimable, Abandoned, Claimable
    <2>4. UndecidedRunning'
      <3> SUFFICES ASSUME NEW v \in Workers, pc'[v] \in Undecided
                   PROVE  status'[cur'[v]] = "running"
        BY DEF UndecidedRunning
      <3>1. v # w
        BY DEF Undecided, Pipeline
      <3>2. status[cur[v]] = "running" /\ cur[v] \in Jobs \ {j}
        BY <3>1, NoJobAssumption DEF UndecidedRunning, BusyHolds, Undecided,
           Pipeline
      <3>3. cur'[v] = cur[v]
        BY <3>1
      <3>4. \A k \in Jobs \ {j} : status'[k] = status[k]
        OBVIOUS
      <3> HIDE DEF QueueInv, TypeOK, MarkSucceeded, j
      <3> QED
        BY <3>2, <3>3, <3>4
    <2>5. Counted'
      BY DEF Counted
    <2>6. AttemptsLeft'
      BY DEF AttemptsLeft
    <2> QED
      BY <2>1, <2>2, <2>3, <2>4, <2>5, <2>6
  <1>3. CASE RetryJob(w)
    <2> USE <1>1, <1>3 DEF QueueInv, TypeOK, RetryJob, Goto,
              jobVars
    <2>1. BusyHolds'
      BY DEF BusyHolds
    <2>2. OneHolder'
      BY DEF OneHolder
    <2>3. HeldUnclaimable'
      BY DEF HeldUnclaimable, Abandoned, Claimable
    <2>4. UndecidedRunning'
      <3> SUFFICES ASSUME NEW v \in Workers, pc'[v] \in Undecided
                   PROVE  status'[cur'[v]] = "running"
        BY DEF UndecidedRunning
      <3>1. v # w
        BY DEF Undecided, Pipeline
      <3>2. status[cur[v]] = "running" /\ cur[v] \in Jobs \ {j}
        BY <3>1, NoJobAssumption DEF UndecidedRunning, BusyHolds, Undecided,
           Pipeline
      <3>3. cur'[v] = cur[v]
        BY <3>1
      <3>4. \A k \in Jobs \ {j} : status'[k] = status[k]
        OBVIOUS
      <3> HIDE DEF QueueInv, TypeOK, RetryJob, j
      <3> QED
        BY <3>2, <3>3, <3>4
    <2>5. Counted'
      BY DEF Counted
    <2>6. AttemptsLeft'
      <3>1. att[w] = attempts[j] /\ att[w] < MaxAttempts
        BY NoJobAssumption DEF Counted
      <3> QED
        BY <3>1 DEF AttemptsLeft
    <2> QED
      BY <2>1, <2>2, <2>3, <2>4, <2>5, <2>6
  <1>4. CASE RetryDoc(w)
    <2> USE <1>1, <1>4 DEF QueueInv, TypeOK, RetryDoc, Goto, Release,
              jobVars
    <2>1. BusyHolds'
      BY DEF BusyHolds
    <2>2. OneHolder'
      BY DEF OneHolder
    <2>3. HeldUnclaimable'
      BY DEF HeldUnclaimable, Abandoned, Claimable
    <2>4. UndecidedRunning'
      BY DEF UndecidedRunning, Undecided, Pipeline
    <2>5. Counted'
      BY DEF Counted
    <2>6. AttemptsLeft'
      BY DEF AttemptsLeft
    <2> QED
      BY <2>1, <2>2, <2>3, <2>4, <2>5, <2>6
  <1>5. CASE FailJob(w)
    <2> USE <1>1, <1>5 DEF QueueInv, TypeOK, FailJob, Goto,
              jobVars
    <2>1. BusyHolds'
      BY DEF BusyHolds
    <2>2. OneHolder'
      BY DEF OneHolder
    <2>3. HeldUnclaimable'
      BY DEF HeldUnclaimable, Abandoned, Claimable
    <2>4. UndecidedRunning'
      <3> SUFFICES ASSUME NEW v \in Workers, pc'[v] \in Undecided
                   PROVE  status'[cur'[v]] = "running"
        BY DEF UndecidedRunning
      <3>1. v # w
        BY DEF Undecided, Pipeline
      <3>2. status[cur[v]] = "running" /\ cur[v] \in Jobs \ {j}
        BY <3>1, NoJobAssumption DEF UndecidedRunning, BusyHolds, Undecided,
           Pipeline
      <3>3. cur'[v] = cur[v]
        BY <3>1
      <3>4. \A k \in Jobs \ {j} : status'[k] = status[k]
        OBVIOUS
      <3> HIDE DEF QueueInv, TypeOK, FailJob, j
      <3> QED
        BY <3>2, <3>3, <3>4
    <2>5. Counted'
      BY DEF Counted
    <2>6. AttemptsLeft'
      BY DEF AttemptsLeft
    <2> QED
      BY <2>1, <2>2, <2>3, <2>4, <2>5, <2>6
  <1>6. CASE FailDoc(w)
    <2> USE <1>1, <1>6 DEF QueueInv, TypeOK, FailDoc, Goto,
              jobVars
    <2>1. BusyHolds'
      BY DEF BusyHolds
    <2>2. OneHolder'
      BY DEF OneHolder
    <2>3. HeldUnclaimable'
      BY DEF HeldUnclaimable, Abandoned, Claimable
    <2>4. UndecidedRunning'
      BY DEF UndecidedRunning, Undecided, Pipeline
    <2>5. Counted'
      BY DEF Counted
    <2>6. AttemptsLeft'
      BY DEF AttemptsLeft
    <2> QED
      BY <2>1, <2>2, <2>3, <2>4, <2>5, <2>6
  <1>7. CASE FailCloud(w)
    <2> USE <1>1, <1>7 DEF QueueInv, TypeOK, FailCloud, Goto, Release,
              jobVars
    <2>1. BusyHolds'
      BY DEF BusyHolds
    <2>2. OneHolder'
      BY DEF OneHolder
    <2>3. HeldUnclaimable'
      BY DEF HeldUnclaimable, Abandoned, Claimable
    <2>4. UndecidedRunning'
      BY DEF UndecidedRunning, Undecided, Pipeline
    <2>5. Counted'
      BY DEF Counted
    <2>6. AttemptsLeft'
      BY DEF AttemptsLeft
    <2> QED
      BY <2>1, <2>2, <2>3, <2>4, <2>5, <2>6
  <1> QED
    BY <1>2, <1>3, <1>4, <1>5, <1>6, <1>7

LEMMA ClaimStep ==
  ASSUME QueueInv, TypeOK', NEW w \in Workers, NEW j \in Jobs, Claim(w, j)
  PROVE  QueueInv'
  <1>1. \A v \in Workers : cur[v] # j
    BY NoJobAssumption DEF QueueInv, HeldUnclaimable, Claim
  <1>2. attempts'[j] <= MaxAttempts /\ attempts'[j] \in Nat
    BY MaxAttemptsAssumption
    DEF QueueInv, TypeOK, AttemptsLeft, Claim, Abandoned, Claimable
  <1> USE NoJobAssumption, <1>1, <1>2 DEF QueueInv, TypeOK, Claim, Goto
  <1>3. BusyHolds'
    BY DEF BusyHolds
  <1>4. OneHolder'
    BY DEF OneHolder
  <1>5. HeldUnclaimable'
    BY DEF HeldUnclaimable, Abandoned, Claimable
  <1>6. UndecidedRunning'
    BY DEF UndecidedRunning, Undecided, Pipeline
  <1>7. Counted'
    BY DEF Counted
  <1>8. AttemptsLeft'
    BY DEF AttemptsLeft
  <1> QED
    BY <1>3, <1>4, <1>5, <1>6, <1>7, <1>8

LEMMA CreateStep ==
  ASSUME QueueInv, TypeOK', NEW j \in Jobs, CreateUploadJob(j)
  PROVE  QueueInv'
  <1> USE NoJobAssumption DEF QueueInv, TypeOK, CreateUploadJob, workerVars
  <1>1. BusyHolds'
    BY DEF BusyHolds
  <1>2. OneHolder'
    BY DEF OneHolder
  <1>3. HeldUnclaimable'
    BY DEF HeldUnclaimable, Abandoned, Claimable
  <1>4. UndecidedRunning'
    BY DEF UndecidedRunning, Undecided, Pipeline
  <1>5. Counted'
    BY DEF Counted
  <1>6. AttemptsLeft'
    BY DEF AttemptsLeft
  <1> QED
    BY <1>1, <1>2, <1>3, <1>4, <1>5, <1>6

LEMMA ClockStep ==
  ASSUME Punctual, QueueInv, TypeOK', NEW j \in Jobs,
         DelayElapses(j) \/ LeaseRunsOut(j)
  PROVE  QueueInv'
  <1>1. \A w \in Workers : cur[w] # j
    BY DEF DelayElapses, LeaseRunsOut, Held
  <1> USE <1>1 DEF QueueInv, TypeOK, DelayElapses, LeaseRunsOut, workerVars
  <1>2. BusyHolds'
    BY DEF BusyHolds
  <1>3. OneHolder'
    BY DEF OneHolder
  <1>4. HeldUnclaimable'
    BY DEF HeldUnclaimable, Abandoned, Claimable
  <1>5. UndecidedRunning'
    BY DEF UndecidedRunning, Undecided, Pipeline
  <1>6. Counted'
    BY DEF Counted
  <1>7. AttemptsLeft'
    BY DEF AttemptsLeft
  <1> QED
    BY <1>2, <1>3, <1>4, <1>5, <1>6, <1>7

LEMMA RestartStep ==
  ASSUME QueueInv, TypeOK', Restart
  PROVE  QueueInv'
  <1> USE NoJobAssumption DEF QueueInv, TypeOK, Restart, jobVars
  <1>1. BusyHolds'
    BY DEF BusyHolds
  <1>2. OneHolder'
    BY DEF OneHolder
  <1>3. HeldUnclaimable'
    BY DEF HeldUnclaimable, Abandoned, Claimable
  <1>4. UndecidedRunning'
    BY DEF UndecidedRunning, Undecided, Pipeline
  <1>5. Counted'
    BY DEF Counted
  <1>6. AttemptsLeft'
    BY DEF AttemptsLeft
  <1> QED
    BY <1>1, <1>2, <1>3, <1>4, <1>5, <1>6

LEMMA StutterStep ==
  ASSUME QueueInv, TypeOK',
         UNCHANGED <<status, attempts, due, leaseOver, pc, cur, att>>
  PROVE  QueueInv'
  BY DEF QueueInv, BusyHolds, OneHolder, HeldUnclaimable, Abandoned, Claimable,
     UndecidedRunning, Counted, AttemptsLeft

LEMMA QueueInvInit == Init => QueueInv
  <1> SUFFICES ASSUME Init PROVE QueueInv
    OBVIOUS
  <1>1. BusyHolds /\ OneHolder /\ HeldUnclaimable
    BY DEF Init, BusyHolds, OneHolder, HeldUnclaimable
  <1>2. UndecidedRunning
    BY DEF Init, UndecidedRunning, Undecided, Pipeline
  <1>3. Counted
    BY DEF Init, Counted
  <1>4. AttemptsLeft
    BY MaxAttemptsAssumption DEF Init, AttemptsLeft
  <1> QED
    BY <1>1, <1>2, <1>3, <1>4, TypeInit DEF QueueInv

LEMMA QueueInvStep == Punctual /\ QueueInv /\ [Next]_vars => QueueInv'
  <1> SUFFICES ASSUME Punctual, QueueInv, [Next]_vars
               PROVE  QueueInv'
    OBVIOUS
  <1>0. TypeOK /\ TypeOK'
    BY TypeStep DEF QueueInv
  <1>1. CASE \E j \in Jobs : CreateUploadJob(j)
    BY <1>0, <1>1, CreateStep
  <1>2. CASE \E j \in Jobs : AnnounceQueued(j)
    BY <1>0, <1>2, StutterStep DEF AnnounceQueued, jobVars, workerVars
  <1>3. CASE \E w \in Workers : Work(w)
    <2> PICK w \in Workers : Work(w)
      BY <1>3
    <2>1. CASE pc[w] \in Pipeline \cup {"start"}
      BY <2>1, <1>0, PipelineStaysInside, InsideStep DEF QueueInv
    <2>2. CASE pc[w] \notin Pipeline \cup {"start"}
      <3>1. MarkSucceeded(w) \/ RetryJob(w) \/ RetryDoc(w) \/ FailJob(w)
              \/ FailDoc(w) \/ FailCloud(w)
        BY <2>2 DEF Work, Pipeline, MarkProcessing, FetchSource, FetchFails,
           ExtractText, ExtractFails, OcrImages, ModeratePass, ModerateReject,
           ModerateUnavailable, SaveRejectedHash, EmbedChunk, EmbedChunkFails,
           EmbedJoin, PurgeChunks, PublishReady, MarkReady
      <3> QED
        BY <3>1, <1>0, OutcomeStep
    <2> QED
      BY <2>1, <2>2
  <1>4. CASE \E w \in Workers, j \in Jobs : Claim(w, j)
    BY <1>0, <1>4, ClaimStep
  <1>5. CASE \E j \in Jobs : DelayElapses(j) \/ LeaseRunsOut(j)
    BY <1>0, <1>5, ClockStep
  <1>6. CASE Restart
    BY <1>0, <1>6, RestartStep
  <1>7. CASE UNCHANGED vars
    BY <1>0, <1>7, StutterStep DEF vars, jobVars, workerVars
  <1> QED
    BY <1>1, <1>2, <1>3, <1>4, <1>5, <1>6, <1>7 DEF Next

-----------------------------------------------------------------------------
(* The theorems.  Each of the properties assumes Punctual, a constant: where *)
(* it is FALSE they say nothing, and no invariant is needed.                *)

LEMMA QueueInvAlways == Punctual /\ Spec => []QueueInv
  <1>1. ASSUME Punctual PROVE Spec => []QueueInv
    <2>1. QueueInv /\ [Next]_vars => QueueInv'
      BY <1>1, QueueInvStep
    <2> QED
      BY QueueInvInit, <2>1, PTL DEF Spec
  <1> QED
    BY <1>1

(* No two workers ever hold the same job: the claim statement, the lease   *)
(* and next_run_at exclude it, whatever fails or restarts.                 *)
THEOREM JobsAreExclusive == Spec => []ExclusiveJob
  <1>1. ASSUME Punctual PROVE Spec => []ExclusiveJob
    <2>1. QueueInv => ExclusiveJob
      BY DEF QueueInv, OneHolder, ExclusiveJob
    <2> QED
      BY <1>1, QueueInvAlways, <2>1, PTL
  <1>2. ASSUME ~Punctual PROVE Spec => []ExclusiveJob
    <2>1. ExclusiveJob
      BY <1>2 DEF ExclusiveJob
    <2> QED
      BY <2>1, PTL
  <1> QED
    BY <1>1, <1>2

(* upload_jobs.attempts never exceeds max_attempts.                        *)
THEOREM AttemptsAreBounded == Spec => []AttemptsBounded
  <1>1. ASSUME Punctual PROVE Spec => []AttemptsBounded
    <2>1. QueueInv => AttemptsBounded
      BY DEF QueueInv, AttemptsLeft, AttemptsBounded
    <2> QED
      BY <1>1, QueueInvAlways, <2>1, PTL
  <1>2. ASSUME ~Punctual PROVE Spec => []AttemptsBounded
    <2>1. AttemptsBounded
      BY <1>2 DEF AttemptsBounded
    <2> QED
      BY <2>1, PTL
  <1> QED
    BY <1>1, <1>2

(* A succeeded or failed job keeps its status: no claim finds it and no    *)
(* worker still has an outcome to record for it.                           *)
LEMMA SettledStep ==
  ASSUME QueueInv, [Next]_vars, NEW j \in Jobs, Settled(j)
  PROVE  status'[j] = status[j]
  <1> USE DEF Settled, QueueInv
  <1>1. CASE \E k \in Jobs : CreateUploadJob(k) \/ AnnounceQueued(k)
    BY <1>1 DEF CreateUploadJob, AnnounceQueued, jobVars, TypeOK
  <1>2. CASE \E w \in Workers : Work(w)
    <2> PICK w \in Workers : Work(w)
      BY <1>2
    <2>1. CASE pc[w] \in Undecided
      <3>1. cur[w] # j
        BY <2>1 DEF UndecidedRunning
      <3> QED
        BY <3>1 DEF Work, MarkProcessing, FetchSource, FetchFails,
           ExtractText, ExtractFails, OcrImages, ModeratePass, ModerateReject,
           ModerateUnavailable, SaveRejectedHash, EmbedChunk, EmbedChunkFails,
           EmbedJoin, PurgeChunks, PublishReady, MarkReady, MarkSucceeded,
           RetryJob, RetryDoc, FailJob, FailDoc, FailCloud, jobVars, TypeOK
    <2>2. CASE pc[w] \notin Undecided
      <3>1. RetryDoc(w) \/ FailDoc(w) \/ FailCloud(w)
        BY <2>2 DEF Work, Undecided, Pipeline, MarkProcessing, FetchSource,
           FetchFails, ExtractText, ExtractFails, OcrImages, ModeratePass,
           ModerateReject, ModerateUnavailable, SaveRejectedHash, EmbedChunk,
           EmbedChunkFails, EmbedJoin, PurgeChunks, PublishReady, MarkReady,
           MarkSucceeded, RetryJob, FailJob
      <3> QED
        BY <3>1 DEF RetryDoc, FailDoc, FailCloud, jobVars
    <2> QED
      BY <2>1, <2>2
  <1>3. CASE \E w \in Workers, k \in Jobs : Claim(w, k)
    BY <1>3 DEF Claim, Abandoned, Claimable, TypeOK
  <1>4. CASE \E k \in Jobs : DelayElapses(k) \/ LeaseRunsOut(k)
    BY <1>4 DEF DelayElapses, LeaseRunsOut
  <1>5. CASE Restart
    BY <1>5 DEF Restart, jobVars
  <1>6. CASE UNCHANGED vars
    BY <1>6 DEF vars, jobVars
  <1> QED
    BY <1>1, <1>2, <1>3, <1>4, <1>5, <1>6 DEF Next

(* What a job has come to is never revised.                                *)
THEOREM SettlementIsFinal == Spec => SettledIsFinal
  <1>1. ASSUME Punctual PROVE Spec => SettledIsFinal
    <2>1. QueueInv /\ [Next]_vars =>
            [Punctual => \A j \in Jobs : Settled(j) => status'[j] = status[j]]_vars
      BY SettledStep
    <2> QED
      BY <1>1, QueueInvAlways, <2>1, PTL DEF Spec, SettledIsFinal
  <1>2. ASSUME ~Punctual PROVE Spec => SettledIsFinal
    <2>1. [Punctual => \A j \in Jobs : Settled(j) => status'[j] = status[j]]_vars
      BY <1>2
    <2> QED
      BY <2>1, PTL DEF SettledIsFinal
  <1> QED
    BY <1>1, <1>2

-----------------------------------------------------------------------------
(* The attempts when workers are late.  The row and the number a worker    *)
(* decides with drift apart: once attempts has reached MaxAttempts, what   *)
(* can still put the row back to "retrying" are the workers that claimed   *)
(* it before (LowHolders), each of them once, and a row that was put back  *)
(* buys one attempt.  LateInv counts both.                                 *)

LowHolders(j) ==
    {w \in Workers : cur[w] = j /\ att[w] < MaxAttempts /\ pc[w] # "retryDoc"}

Waiting(j) == status[j] \in {"queued", "retrying"}

Spent(j) ==
    attempts[j] >= MaxAttempts =>
      attempts[j] + Cardinality(LowHolders(j)) + (IF Waiting(j) THEN 1 ELSE 0)
        <= MaxAttempts + Cardinality(Workers) - 1

LateInv ==
    /\ TypeOK
    /\ \A w \in Workers : pc[w] = "retryJob" => att[w] < MaxAttempts
    /\ \A j \in Jobs : status[j] = "none" => attempts[j] = 0
    /\ \A j \in Jobs : Spent(j)

LEMMA LowFinite ==
  ASSUME NEW j \in Jobs
  PROVE  /\ IsFiniteSet(LowHolders(j)) /\ Cardinality(LowHolders(j)) \in Nat
         /\ IsFiniteSet(Workers) /\ Cardinality(Workers) \in Nat
  <1>1. IsFiniteSet(Workers) /\ Cardinality(Workers) \in Nat
    BY WorkersAssumption, FS_CardinalityType
  <1>2. LowHolders(j) \in SUBSET Workers
    BY DEF LowHolders
  <1>3. IsFiniteSet(LowHolders(j))
    BY <1>1, <1>2, FS_Subset
  <1> QED
    BY <1>1, <1>3, FS_CardinalityType

(* What the count sees of a step that buys nothing.                        *)
LEMMA NothingBought ==
  ASSUME NEW j \in Jobs, TypeOK, Spent(j), attempts'[j] = attempts[j],
         Waiting(j)' => Waiting(j), LowHolders(j)' \subseteq LowHolders(j)
  PROVE  Spent(j)'
  <1>1. /\ IsFiniteSet(LowHolders(j)) /\ Cardinality(LowHolders(j)) \in Nat
        /\ Cardinality(Workers) \in Nat
    BY LowFinite
  <1>2. /\ IsFiniteSet(LowHolders(j)')
        /\ Cardinality(LowHolders(j)') <= Cardinality(LowHolders(j))
    BY <1>1, FS_Subset
  <1>3. Cardinality(LowHolders(j)') \in Nat
    BY <1>2, FS_CardinalityType
  <1>4. attempts[j] \in Nat /\ MaxAttempts \in Nat
    BY MaxAttemptsAssumption DEF TypeOK
  <1>5. CASE attempts[j] >= MaxAttempts
    <2>1. attempts[j] + Cardinality(LowHolders(j)) + (IF Waiting(j) THEN 1 ELSE 0)
            <= MaxAttempts + Cardinality(Workers) - 1
      BY <1>5 DEF Spent
    <2> DEFINE was == IF Waiting(j) THEN 1 ELSE 0
               is == IF Waiting(j)' THEN 1 ELSE 0
               m == Cardinality(LowHolders(j))
               n == Cardinality(LowHolders(j)')
    <2>2. was \in {0, 1} /\ is \in {0, 1} /\ is <= was
      OBVIOUS
    <2>3. attempts[j] + m + was <= MaxAttempts + Cardinality(Workers) - 1
      BY <2>1
    <2> HIDE DEF was, is, m, n
    <2>4. m \in Nat /\ n \in Nat /\ n <= m
      BY <1>1, <1>2, <1>3 DEF m, n
    <2>5. attempts[j] + n + is <= MaxAttempts + Cardinality(Workers) - 1
      BY <1>1, <1>4, <2>2, <2>3, <2>4
    <2> QED
      BY <2>5 DEF Spent, is, n
  <1>6. CASE ~(attempts[j] >= MaxAttempts)
    BY <1>6 DEF Spent
  <1> QED
    BY <1>5, <1>6

(* Every step of a worker but RetryJob buys nothing.                       *)
LEMMA WorkBuysNothing ==
  ASSUME TypeOK, NEW w \in Workers, Work(w), ~RetryJob(w),
         \A v \in Workers : pc[v] = "retryJob" => att[v] < MaxAttempts
  PROVE  /\ UNCHANGED attempts
         /\ \A j \in Jobs : /\ Waiting(j)' => Waiting(j)
                            /\ status'[j] = "none" => status[j] = "none"
         /\ \A v \in Workers :
              \/ cur'[v] = NoJob /\ pc'[v] = "idle"
              \/ /\ cur'[v] = cur[v] /\ att'[v] = att[v]
                 /\ pc[v] = "retryDoc" => pc'[v] = "retryDoc"
                 /\ pc'[v] = "retryJob" => att[v] < MaxAttempts
  <1>1. CASE pc[w] \in Pipeline \cup {"start"}
    <2>1. PICK l \in Undecided : /\ pc' = [pc EXCEPT ![w] = l]
                                 /\ l = "retryJob" => att[w] < MaxAttempts
      BY <1>1, PipelineStaysInside DEF Inside
    <2>2. UNCHANGED <<status, attempts, cur, att>>
      BY <1>1, PipelineStaysInside DEF Inside
    <2> QED
      BY <1>1, <2>1, <2>2 DEF Waiting, TypeOK, Pipeline
  <1>2. CASE MarkSucceeded(w) \/ RetryDoc(w) \/ FailJob(w) \/ FailDoc(w) \/ FailCloud(w)
    BY <1>2 DEF MarkSucceeded, RetryDoc, FailJob, FailDoc, FailCloud, Release, Goto,
       Waiting, TypeOK, jobVars
  <1> QED
    BY <1>1, <1>2 DEF Work, Pipeline, MarkProcessing, FetchSource, FetchFails,
       ExtractText, ExtractFails, OcrImages, ModeratePass, ModerateReject,
       ModerateUnavailable, SaveRejectedHash, EmbedChunk, EmbedChunkFails,
       EmbedJoin, PurgeChunks, PublishReady, MarkReady

LEMMA LateWork ==
  ASSUME LateInv, TypeOK', NEW w \in Workers, Work(w), ~RetryJob(w)
  PROVE  LateInv'
  <1>1. /\ UNCHANGED attempts
        /\ \A j \in Jobs : /\ Waiting(j)' => Waiting(j)
                           /\ status'[j] = "none" => status[j] = "none"
        /\ \A v \in Workers :
              \/ cur'[v] = NoJob /\ pc'[v] = "idle"
              \/ /\ cur'[v] = cur[v] /\ att'[v] = att[v]
                 /\ pc[v] = "retryDoc" => pc'[v] = "retryDoc"
                 /\ pc'[v] = "retryJob" => att[v] < MaxAttempts
    BY WorkBuysNothing DEF LateInv
  <1>2. \A v \in Workers : pc'[v] = "retryJob" => att'[v] < MaxAttempts
    BY <1>1
  <1>3. ASSUME NEW j \in Jobs PROVE Spent(j)'
    <2>1. LowHolders(j)' \subseteq LowHolders(j)
      BY <1>1, NoJobAssumption DEF LowHolders
    <2>2. attempts'[j] = attempts[j] /\ (Waiting(j)' => Waiting(j)) /\ TypeOK /\ Spent(j)
      BY <1>1 DEF Waiting, LateInv
    <2> QED
      BY <2>1, <2>2, NothingBought
  <1>4. \A j \in Jobs : status'[j] = "none" => attempts'[j] = 0
    BY <1>1 DEF LateInv
  <1> QED
    BY <1>2, <1>3, <1>4 DEF LateInv

(* A worker that claimed the job before buys one more attempt, and is then *)
(* none of these any more.                                                 *)
LEMMA LateRetry ==
  ASSUME LateInv, TypeOK', NEW w \in Workers, RetryJob(w)
  PROVE  LateInv'
  <1>1. /\ pc[w] = "retryJob" /\ att[w] < MaxAttempts
        /\ pc' = [pc EXCEPT ![w] = "retryDoc"]
        /\ UNCHANGED <<attempts, cur, att>>
        /\ status' = status \/ status' = [status EXCEPT ![cur[w]] = "retrying"]
        /\ TypeOK
    BY DEF RetryJob, Goto, LateInv
  <1>2. \A v \in Workers : pc'[v] = "retryJob" => att'[v] < MaxAttempts
    BY <1>1 DEF LateInv, TypeOK
  <1>3. ASSUME NEW j \in Jobs, status'[j] = "none" PROVE attempts'[j] = 0
    BY <1>1, <1>3 DEF LateInv, TypeOK
  <1>4. ASSUME NEW j \in Jobs PROVE Spent(j)'
    <2>1. CASE cur[w] # j
      <3>1. LowHolders(j)' \subseteq LowHolders(j)
        BY <1>1, <2>1 DEF LowHolders, TypeOK
      <3>2. Waiting(j)' => Waiting(j)
        BY <1>1, <2>1 DEF Waiting, TypeOK
      <3> QED
        BY <1>1, <3>1, <3>2, NothingBought DEF LateInv
    <2>2. CASE cur[w] = j
      <3>1. w \in LowHolders(j) /\ LowHolders(j)' = LowHolders(j) \ {w}
        BY <1>1, <2>2 DEF LowHolders, TypeOK
      <3>2. /\ IsFiniteSet(LowHolders(j)) /\ Cardinality(LowHolders(j)) \in Nat
            /\ Cardinality(Workers) \in Nat
        BY LowFinite
      <3>3. /\ Cardinality(LowHolders(j)') = Cardinality(LowHolders(j)) - 1
            /\ IsFiniteSet(LowHolders(j)')
        BY <3>1, <3>2, FS_RemoveElement
      <3>4. Cardinality(LowHolders(j)') \in Nat
        BY <3>3, FS_CardinalityType
      <3>5. attempts[j] \in Nat /\ MaxAttempts \in Nat
        BY <1>1, MaxAttemptsAssumption DEF TypeOK
      <3> SUFFICES ASSUME attempts[j] >= MaxAttempts
                   PROVE  attempts[j] + Cardinality(LowHolders(j)')
                            + (IF Waiting(j)' THEN 1 ELSE 0)
                            <= MaxAttempts + Cardinality(Workers) - 1
        BY <1>1 DEF Spent
      <3>6. attempts[j] + Cardinality(LowHolders(j)) + (IF Waiting(j) THEN 1 ELSE 0)
              <= MaxAttempts + Cardinality(Workers) - 1
        BY DEF LateInv, Spent
      <3> DEFINE was == IF Waiting(j) THEN 1 ELSE 0
                 is == IF Waiting(j)' THEN 1 ELSE 0
                 m == Cardinality(LowHolders(j))
                 n == Cardinality(LowHolders(j)')
      <3>7. was \in {0, 1} /\ is \in {0, 1}
        OBVIOUS
      <3>8. attempts[j] + m + was <= MaxAttempts + Cardinality(Workers) - 1
        BY <3>6
      <3>9. m \in Nat /\ n \in Nat /\ n = m - 1
        BY <3>2, <3>3, <3>4
      <3> HIDE DEF was, is, m, n
      <3>10. attempts[j] + n + is <= MaxAttempts + Cardinality(Workers) - 1
        BY <3>2, <3>5, <3>7, <3>8, <3>9
      <3> QED
        BY <3>10 DEF is, n
    <2> QED
      BY <2>1, <2>2
  <1> QED
    BY <1>2, <1>3, <1>4 DEF LateInv

(* A claim spends what was bought.  The claim that reaches MaxAttempts is  *)
(* made by a worker that will not retry.                                   *)
LEMMA LateClaim ==
  ASSUME LateInv, TypeOK', NEW w \in Workers, NEW j \in Jobs, Claim(w, j)
  PROVE  LateInv'
  <1>1. /\ TypeOK /\ pc[w] = "idle" /\ pc' = [pc EXCEPT ![w] = "start"]
        /\ cur' = [cur EXCEPT ![w] = j] /\ att' = [att EXCEPT ![w] = attempts'[j]]
        /\ status' = [status EXCEPT ![j] = "running"]
        /\ \/ status[j] = "running" /\ attempts' = attempts
           \/ Waiting(j) /\ attempts' = [attempts EXCEPT ![j] = @ + 1]
    BY DEF Claim, Goto, Abandoned, Claimable, Waiting, LateInv, TypeOK
  <1>2. \A v \in Workers : pc'[v] = "retryJob" => att'[v] < MaxAttempts
    BY <1>1 DEF LateInv, TypeOK
  <1>3. ASSUME NEW k \in Jobs, status'[k] = "none" PROVE attempts'[k] = 0
    <2>1. k # j /\ status[k] = "none"
      BY <1>1, <1>3 DEF TypeOK
    <2> QED
      BY <1>1, <2>1 DEF LateInv, TypeOK
  <1>4. ASSUME NEW k \in Jobs \ {j} PROVE Spent(k)'
    <2>1. attempts'[k] = attempts[k] /\ (Waiting(k)' => Waiting(k))
      BY <1>1 DEF TypeOK, Waiting
    <2>2. LowHolders(k)' \subseteq LowHolders(k)
      BY <1>1 DEF LowHolders, TypeOK
    <2> QED
      BY <1>1, <2>1, <2>2, NothingBought DEF LateInv
  <1>5. Spent(j)'
    <2> SUFFICES ASSUME attempts'[j] >= MaxAttempts
                 PROVE  attempts'[j] + Cardinality(LowHolders(j)')
                          + (IF Waiting(j)' THEN 1 ELSE 0)
                          <= MaxAttempts + Cardinality(Workers) - 1
      BY DEF Spent
    <2>0. /\ attempts[j] \in Nat /\ attempts'[j] \in Nat /\ MaxAttempts \in Nat
          /\ ~Waiting(j)'
      BY <1>1, MaxAttemptsAssumption DEF TypeOK, Waiting
    <2>1. /\ IsFiniteSet(LowHolders(j)) /\ Cardinality(LowHolders(j)) \in Nat
          /\ IsFiniteSet(Workers) /\ Cardinality(Workers) \in Nat
      BY LowFinite
    <2>2. LowHolders(j)' \subseteq LowHolders(j) \ {w}
      BY <1>1, <2>0 DEF LowHolders, TypeOK
    <2>3. /\ IsFiniteSet(LowHolders(j)')
          /\ Cardinality(LowHolders(j)') <= Cardinality(LowHolders(j))
      BY <2>1, <2>2, FS_Subset
    <2>4. Cardinality(LowHolders(j)') \in Nat
      BY <2>3, FS_CardinalityType
    <2> DEFINE n == Cardinality(LowHolders(j)')
               m == Cardinality(LowHolders(j))
               W == Cardinality(Workers)
    <2>5. n \in Nat /\ m \in Nat /\ W \in Nat /\ n <= m
      BY <2>1, <2>3, <2>4
    <2>6. n <= W - 1
      <3>1. LowHolders(j)' \in SUBSET (Workers \ {w})
        BY <2>2 DEF LowHolders
      <3>2. IsFiniteSet(Workers \ {w}) /\ Cardinality(Workers \ {w}) = W - 1
        BY <2>1, FS_RemoveElement
      <3> QED
        BY <3>1, <3>2, FS_Subset
    <2>7. CASE attempts[j] >= MaxAttempts
      <3>1. attempts[j] + m + (IF Waiting(j) THEN 1 ELSE 0) <= MaxAttempts + W - 1
        BY <2>7 DEF LateInv, Spent
      <3> HIDE DEF n, m, W
      <3>2. CASE attempts'[j] = attempts[j]
        <4> DEFINE was == IF Waiting(j) THEN 1 ELSE 0
        <4>1. was \in {0, 1} /\ attempts[j] + m + was <= MaxAttempts + W - 1
          BY <3>1
        <4> HIDE DEF was
        <4>2. attempts'[j] + n <= MaxAttempts + W - 1
          BY <2>0, <2>5, <3>2, <4>1
        <4> QED
          BY <2>0, <2>5, <4>2 DEF n, W
      <3>3. CASE Waiting(j) /\ attempts'[j] = attempts[j] + 1
        <4>1. attempts[j] + m + 1 <= MaxAttempts + W - 1
          BY <3>1, <3>3
        <4>2. attempts'[j] + n <= MaxAttempts + W - 1
          BY <2>0, <2>5, <3>3, <4>1
        <4> QED
          BY <2>0, <2>5, <4>2 DEF n, W
      <3> QED
        BY <1>1, <3>2, <3>3 DEF TypeOK
    <2>8. CASE ~(attempts[j] >= MaxAttempts)
      <3>1. attempts'[j] = MaxAttempts
        BY <1>1, <2>0, <2>8 DEF TypeOK
      <3> HIDE DEF n, m, W
      <3>2. attempts'[j] + n <= MaxAttempts + W - 1
        BY <2>0, <2>5, <2>6, <3>1
      <3> QED
        BY <2>0, <2>5, <3>2 DEF n, W
    <2> QED
      BY <2>7, <2>8
  <1> QED
    BY <1>2, <1>3, <1>4, <1>5 DEF LateInv

(* The other steps: no attempt is counted, and no worker is taken on.      *)
LEMMA LateOther ==
  ASSUME LateInv, TypeOK',
         \/ \E j \in Jobs : \/ CreateUploadJob(j) \/ AnnounceQueued(j)
                            \/ DelayElapses(j) \/ LeaseRunsOut(j)
         \/ Restart \/ UNCHANGED vars
  PROVE  LateInv'
  <1>0. TypeOK /\ MaxAttempts \in Nat \ {0}
    BY MaxAttemptsAssumption DEF LateInv
  <1>1. /\ UNCHANGED attempts
        /\ \A w \in Workers :
              \/ pc'[w] = pc[w] /\ cur'[w] = cur[w] /\ att'[w] = att[w]
              \/ pc'[w] = "idle" /\ cur'[w] = NoJob
    BY DEF CreateUploadJob, AnnounceQueued, DelayElapses, LeaseRunsOut, Restart, vars,
       jobVars, workerVars
  <1>2. \A j \in Jobs : \/ status'[j] = status[j]
                        \/ status[j] = "none" /\ status'[j] = "queued"
    <2>1. CASE \E k \in Jobs : CreateUploadJob(k)
      BY <1>0, <2>1 DEF CreateUploadJob, TypeOK
    <2>2. CASE ~ \E k \in Jobs : CreateUploadJob(k)
      BY <2>2 DEF AnnounceQueued, DelayElapses, LeaseRunsOut, Restart, vars, jobVars
    <2> QED
      BY <2>1, <2>2
  <1>3. ASSUME NEW j \in Jobs PROVE Spent(j)'
    <2>1. LowHolders(j)' \subseteq LowHolders(j)
      BY <1>1, NoJobAssumption DEF LowHolders
    <2>2. CASE status'[j] = status[j]
      BY <1>0, <1>1, <2>1, <2>2, NothingBought DEF LateInv, Waiting
    <2>3. CASE status[j] = "none"
      BY <1>0, <1>1, <2>3 DEF LateInv, Spent
    <2> QED
      BY <1>2, <2>2, <2>3
  <1> QED
    BY <1>1, <1>2, <1>3 DEF LateInv

LEMMA LateInvInit == Init => LateInv
  <1> SUFFICES ASSUME Init PROVE LateInv
    OBVIOUS
  <1>1. \A j \in Jobs : attempts[j] = 0
    BY DEF Init
  <1>2. ASSUME NEW j \in Jobs PROVE Spent(j)
    BY <1>1, MaxAttemptsAssumption DEF Spent
  <1>3. \A w \in Workers : pc[w] = "idle"
    BY DEF Init
  <1> QED
    BY <1>1, <1>2, <1>3, TypeInit DEF LateInv

LEMMA LateInvStep == LateInv /\ [Next]_vars => LateInv'
  <1> SUFFICES ASSUME LateInv, [Next]_vars PROVE LateInv'
    OBVIOUS
  <1>0. TypeOK'
    BY TypeStep DEF LateInv
  <1>1. CASE \E w \in Workers : Work(w)
    BY <1>0, <1>1, LateWork, LateRetry
  <1>2. CASE \E w \in Workers, j \in Jobs : Claim(w, j)
    BY <1>0, <1>2, LateClaim
  <1>3. CASE \/ \E j \in Jobs : \/ CreateUploadJob(j) \/ AnnounceQueued(j)
                                \/ DelayElapses(j) \/ LeaseRunsOut(j)
             \/ Restart \/ UNCHANGED vars
    BY <1>0, <1>3, LateOther
  <1> QED
    BY <1>1, <1>2, <1>3 DEF Next

(* Workers that overrun the lease and decide with old numbers make a job   *)
(* start more often than max_attempts says, but once for every other       *)
(* worker at most (claimNextUploadJob, handleUploadJobFailure).            *)
THEOREM LateAttemptsAreBounded == Spec => []AttemptsBoundedWhenLate
  <1>1. LateInv => AttemptsBoundedWhenLate
    <2> SUFFICES ASSUME LateInv, NEW j \in Jobs
                 PROVE  attempts[j] <= MaxAttempts + Cardinality(Workers) - 1
      BY DEF AttemptsBoundedWhenLate
    <2>1. /\ Cardinality(LowHolders(j)) \in Nat /\ Cardinality(Workers) \in Nat
          /\ attempts[j] \in Nat /\ MaxAttempts \in Nat
      BY LowFinite, MaxAttemptsAssumption DEF LateInv, TypeOK
    <2>2. CASE attempts[j] >= MaxAttempts
      <3> DEFINE waits == IF Waiting(j) THEN 1 ELSE 0
      <3>1. waits \in {0, 1}
        OBVIOUS
      <3>2. attempts[j] + Cardinality(LowHolders(j)) + waits
              <= MaxAttempts + Cardinality(Workers) - 1
        BY <2>2 DEF LateInv, Spent
      <3> HIDE DEF waits
      <3> QED
        BY <2>1, <3>1, <3>2
    <2>3. CASE ~(attempts[j] >= MaxAttempts)
      BY <2>1, <2>3
    <2> QED
      BY <2>2, <2>3
  <1> QED
    BY LateInvInit, LateInvStep, <1>1, PTL DEF Spec

-----------------------------------------------------------------------------
(* What the uploader is promised: ready means complete, a rejection holds. *)
(* QueueInv says that a job has one worker.  ReadyInv adds what this       *)
(* worker knows of its document at each point of the pipeline, so that a   *)
(* "ready" that an interrupted attempt has left behind is gone before the  *)
(* next attempt may delete a chunk.                                        *)


Complete(j) == \A c \in TextChunks : copies[j][c] > 0

(* The pipeline has the text, and will embed every chunk of it.            *)
HasText(w) == pc[w] \in {"ocr", "moderate"} => TextChunks \subseteq todo[w]

(* A chunk that is no longer to be embedded has its row, or has failed.    *)
EmbedsAll(w) ==
    pc[w] = "embed" /\ ~bad[w] =>
        \A c \in TextChunks \ todo[w] : copies[cur[w]][c] > 0

Embedded(w) == pc[w] \in {"publish", "ready", "succeed"} => Complete(cur[w])

(* The worker has withdrawn what an earlier attempt said of the document.  *)
Withdrawn(w) ==
    /\ pc[w] \notin {"idle", "start", "ready", "succeed"} => progress[cur[w]] # "ready"
    /\ faults = 0 /\ pc[w] \notin {"idle", "start", "succeed"} => doc[cur[w]] # "ready"

Moderated(w) == faults = 0 /\ pc[w] \in PastModeration => ~rejected[cur[w]]

WorkerOK(w) == HasText(w) /\ EmbedsAll(w) /\ Embedded(w) /\ Withdrawn(w) /\ Moderated(w)

CalledReady(j) ==
    status[j] = "succeeded" \/ progress[j] = "ready" \/ (faults = 0 /\ doc[j] = "ready")

JobOK(j) == CalledReady(j) => Complete(j)

ReadyInv ==
    /\ QueueInv
    /\ \A w \in Workers : WorkerOK(w)
    /\ \A j \in Jobs : JobOK(j)

-----------------------------------------------------------------------------
(* Where one worker is at work, on one job.                                *)

(* Nothing else changes but what worker w and job j have.                  *)
Only(w, j) ==
    /\ \A v \in Workers \ {w} : /\ pc'[v] = pc[v] /\ cur'[v] = cur[v]
                                /\ todo'[v] = todo[v] /\ bad'[v] = bad[v]
    /\ \A k \in Jobs \ {j} : /\ status'[k] = status[k] /\ doc'[k] = doc[k]
                             /\ progress'[k] = progress[k]
                             /\ rejected'[k] = rejected[k] /\ copies'[k] = copies[k]
    /\ faults' = 0 => faults = 0

LEMMA OthersKeep ==
  ASSUME ReadyInv, QueueInv', NEW w \in Workers, NEW j \in Jobs,
         \A v \in Workers \ {w} : cur[v] # j,
         Only(w, j), WorkerOK(w)', JobOK(j)'
  PROVE  ReadyInv'
  <1>1. ASSUME NEW v \in Workers \ {w} PROVE WorkerOK(v)'
    <2>1. CASE pc[v] = "idle"
      BY <2>1 DEF Only, WorkerOK, HasText, EmbedsAll, Embedded, Withdrawn, Moderated,
         PastModeration
    <2>2. CASE pc[v] # "idle"
      <3>1. PICK k \in Jobs \ {j} : cur[v] = k
        BY <2>2 DEF ReadyInv, QueueInv, BusyHolds, TypeOK
      <3>2. /\ cur'[v] = k /\ pc'[v] = pc[v] /\ todo'[v] = todo[v] /\ bad'[v] = bad[v]
            /\ doc'[k] = doc[k] /\ progress'[k] = progress[k]
            /\ rejected'[k] = rejected[k] /\ copies'[k] = copies[k]
            /\ (faults' = 0 => faults = 0)
        BY <3>1 DEF Only
      <3>3. WorkerOK(v)
        BY DEF ReadyInv
      <3> QED
        BY <3>1, <3>2, <3>3 DEF WorkerOK, HasText, EmbedsAll, Embedded, Withdrawn,
           Moderated, Complete
    <2> QED
      BY <2>1, <2>2
  <1>2. ASSUME NEW k \in Jobs \ {j} PROVE JobOK(k)'
    <2>1. JobOK(k)
      BY DEF ReadyInv
    <2> QED
      BY <2>1 DEF Only, JobOK, CalledReady, Complete
  <1> QED
    BY <1>1, <1>2 DEF ReadyInv

(* A worker at a step that has nothing to know, whose job is what it was.  *)
LEMMA FaultCount ==
  ASSUME TypeOK
  PROVE  (Fault \/ UNCHANGED faults) => (faults' = 0 => faults = 0 /\ UNCHANGED faults)
  BY DEF TypeOK, Fault

(* What a worker at step l on job j has to know, step by step.             *)
LEMMA WorkOK ==
  ASSUME ReadyInv, NEW w \in Workers, NEW j \in Jobs, cur[w] = j, Work(w)
  PROVE  Only(w, j) /\ WorkerOK(w)' /\ JobOK(j)'
  <1>0. /\ TypeOK /\ WorkerOK(w) /\ JobOK(j)
        /\ (pc[w] \in Undecided => status[j] = "running")
    BY DEF ReadyInv, QueueInv, UndecidedRunning
  <1> USE <1>0, FaultCount DEF Goto, Publish, RemoveLocal, Release,
          Only, WorkerOK, JobOK, HasText, EmbedsAll, Embedded, Withdrawn, Moderated,
          PastModeration, CalledReady, Complete, TypeOK, jobVars, docVars,
          workerVars, Undecided, Pipeline
  <1>1. CASE MarkProcessing(w)
    <2>1. /\ pc' = [pc EXCEPT ![w] = "fetch"]
          /\ progress' = [progress EXCEPT ![j] = "working"]
          /\ UNCHANGED <<status, copies, rejected, cur, todo, bad>>
      BY <1>1 DEF MarkProcessing
    <2>2. doc' = [doc EXCEPT ![j] = "processing"] \/ (doc' = doc /\ faults' # 0)
      BY <1>1 DEF MarkProcessing, Fault
    <2>3. faults' = 0 => faults = 0
      BY <1>1, FaultCount DEF MarkProcessing
    <2> QED
      BY <2>1, <2>2, <2>3
  <1>2. CASE FetchSource(w)
    BY <1>2 DEF FetchSource
  <1>3. CASE FetchFails(w)
    BY <1>3 DEF FetchFails, AfterFailure
  <1>4. CASE ExtractText(w)
    BY <1>4 DEF ExtractText
  <1>5. CASE ExtractFails(w)
    BY <1>5 DEF ExtractFails, AfterFailure
  <1>6. CASE OcrImages(w)
    BY <1>6 DEF OcrImages
  <1>7. CASE ModeratePass(w)
    <2>1. /\ pc[w] = "moderate" /\ pc' = [pc EXCEPT ![w] = "embed"]
          /\ progress' = [progress EXCEPT ![j] = "working"]
          /\ UNCHANGED <<status, doc, copies, rejected, cur, todo, bad>>
      BY <1>7 DEF ModeratePass
    <2>2. faults' = 0 => faults = 0 /\ ~rejected[j]
      BY <1>7 DEF ModeratePass, Fault
    <2> QED
      BY <2>1, <2>2
  <1>8. CASE ModerateReject(w)
    BY <1>8 DEF ModerateReject
  <1>9. CASE ModerateUnavailable(w)
    BY <1>9 DEF ModerateUnavailable, AfterFailure
  <1>10. CASE SaveRejectedHash(w)
    BY <1>10 DEF SaveRejectedHash, AfterFailure
  <1>11. CASE EmbedJoin(w)
    BY <1>11 DEF EmbedJoin
  <1>12. CASE PurgeChunks(w)
    BY <1>12 DEF PurgeChunks, AfterFailure
  <1>13. CASE PublishReady(w)
    BY <1>13 DEF PublishReady
  <1>14. CASE MarkReady(w)
    BY <1>14 DEF MarkReady
  <1>15. CASE MarkSucceeded(w)
    BY <1>15 DEF MarkSucceeded
  <1>16. CASE RetryJob(w)
    BY <1>16 DEF RetryJob
  <1>17. CASE RetryDoc(w)
    BY <1>17 DEF RetryDoc
  <1>18. CASE FailJob(w)
    BY <1>18 DEF FailJob
  <1>19. CASE FailDoc(w)
    BY <1>19 DEF FailDoc
  <1>20. CASE FailCloud(w)
    BY <1>20 DEF FailCloud
  <1>21. CASE \E c \in Chunks : EmbedChunk(w, c)
    BY <1>21 DEF EmbedChunk, Inserted
  <1>22. CASE \E c \in Chunks : EmbedChunkFails(w, c)
    BY <1>22 DEF EmbedChunkFails
  <1> QED
    BY <1>1, <1>2, <1>3, <1>4, <1>5, <1>6, <1>7, <1>8, <1>9, <1>10, <1>11,
       <1>12, <1>13, <1>14, <1>15, <1>16, <1>17, <1>18, <1>19, <1>20, <1>21,
       <1>22
       DEF Work

LEMMA WorkStep ==
  ASSUME ReadyInv, QueueInv', NEW w \in Workers, Work(w)
  PROVE  ReadyInv'
  <1>1. pc[w] # "idle"
    BY DEF Work, MarkProcessing, FetchSource, FetchFails, ExtractText, ExtractFails,
       OcrImages, ModeratePass, ModerateReject, ModerateUnavailable, SaveRejectedHash,
       EmbedChunk, EmbedChunkFails, EmbedJoin, PurgeChunks, PublishReady, MarkReady,
       MarkSucceeded, RetryJob, RetryDoc, FailJob, FailDoc, FailCloud
  <1>2. PICK j \in Jobs : cur[w] = j
    BY <1>1 DEF ReadyInv, QueueInv, BusyHolds, TypeOK
  <1>3. \A v \in Workers \ {w} : cur[v] # j
    BY <1>2, NoJobAssumption DEF ReadyInv, QueueInv, OneHolder
  <1> QED
    BY <1>2, <1>3, WorkOK, OthersKeep

-----------------------------------------------------------------------------
(* The other steps.                                                        *)

LEMMA ClaimReady ==
  ASSUME ReadyInv, QueueInv', NEW w \in Workers, NEW j \in Jobs, Claim(w, j)
  PROVE  ReadyInv'
  <1>0. TypeOK /\ JobOK(j)
    BY DEF ReadyInv, QueueInv
  <1>1. \A v \in Workers \ {w} : cur[v] # j
    BY NoJobAssumption DEF ReadyInv, QueueInv, HeldUnclaimable, Claim
  <1>2. Only(w, j)
    BY <1>0 DEF Claim, Goto, Only, TypeOK, docVars
  <1>3. WorkerOK(w)'
    BY <1>0 DEF Claim, Goto, TypeOK, WorkerOK, HasText, EmbedsAll, Embedded, Withdrawn,
       Moderated, PastModeration
  <1>4. JobOK(j)'
    BY <1>0 DEF Claim, JobOK, CalledReady, Complete, TypeOK, docVars
  <1> QED
    BY <1>1, <1>2, <1>3, <1>4, OthersKeep

(* A row that no worker holds changes, without a "ready" that was not      *)
(* there.                                                                  *)
LEMMA UnheldStep ==
  ASSUME ReadyInv, QueueInv', NEW j \in Jobs,
         UNCHANGED <<pc, cur, todo, bad, copies, rejected, faults>>,
         \A k \in Jobs \ {j} : doc'[k] = doc[k] /\ status'[k] = status[k],
         \A k \in Jobs : progress'[k] = "ready" => progress[k] = "ready",
         status'[j] = "succeeded" => status[j] = "succeeded",
         doc'[j] = "ready" => doc[j] = "ready"
  PROVE  ReadyInv'
  <1>1. ASSUME NEW w \in Workers PROVE WorkerOK(w)'
    <2>1. WorkerOK(w) /\ cur[w] \in Jobs \cup {NoJob} /\ (pc[w] # "idle" => cur[w] \in Jobs)
      BY DEF ReadyInv, QueueInv, TypeOK, BusyHolds
    <2> QED
      BY <2>1 DEF WorkerOK, HasText, EmbedsAll, Embedded, Withdrawn, Moderated,
         Complete, PastModeration
  <1>2. ASSUME NEW k \in Jobs PROVE JobOK(k)'
    <2>1. JobOK(k)
      BY DEF ReadyInv
    <2> QED
      BY <2>1 DEF JobOK, CalledReady, Complete
  <1> QED
    BY <1>1, <1>2 DEF ReadyInv

LEMMA RestartReady ==
  ASSUME ReadyInv, QueueInv', Restart
  PROVE  ReadyInv'
  <1>1. ASSUME NEW w \in Workers PROVE WorkerOK(w)'
    BY DEF Restart, WorkerOK, HasText, EmbedsAll, Embedded, Withdrawn, Moderated,
       PastModeration
  <1>2. ASSUME NEW k \in Jobs PROVE JobOK(k)'
    BY DEF ReadyInv, Restart, JobOK, CalledReady, Complete, jobVars
  <1> QED
    BY <1>1, <1>2 DEF ReadyInv

LEMMA ReadyInvInit == Init => ReadyInv
  <1> SUFFICES ASSUME Init PROVE ReadyInv
    OBVIOUS
  <1>1. ASSUME NEW w \in Workers PROVE WorkerOK(w)
    BY DEF Init, WorkerOK, HasText, EmbedsAll, Embedded, Withdrawn, Moderated,
       PastModeration
  <1>2. ASSUME NEW k \in Jobs PROVE JobOK(k)
    BY DEF Init, JobOK, CalledReady
  <1> QED
    BY <1>1, <1>2, QueueInvInit DEF ReadyInv

LEMMA ReadyInvStep == Punctual /\ ReadyInv /\ [Next]_vars => ReadyInv'
  <1> SUFFICES ASSUME Punctual, ReadyInv, [Next]_vars
               PROVE  ReadyInv'
    OBVIOUS
  <1>0. QueueInv' /\ TypeOK
    BY QueueInvStep DEF ReadyInv, QueueInv
  <1>1. CASE \E j \in Jobs : CreateUploadJob(j)
    <2> PICK j \in Jobs : CreateUploadJob(j)
      BY <1>1
    <2>1. /\ UNCHANGED <<pc, cur, todo, bad, copies, rejected, faults, progress>>
          /\ \A k \in Jobs \ {j} : doc'[k] = doc[k] /\ status'[k] = status[k]
          /\ status'[j] = "queued" /\ doc'[j] = "queued"
      BY <1>0 DEF CreateUploadJob, workerVars, TypeOK
    <2> QED
      BY <1>0, <2>1, UnheldStep
  <1>2. CASE \E j \in Jobs : AnnounceQueued(j)
    <2> PICK j \in Jobs : AnnounceQueued(j)
      BY <1>2
    <2>1. /\ UNCHANGED <<pc, cur, todo, bad, copies, rejected, faults, doc, status>>
          /\ \A k \in Jobs : progress'[k] = "ready" => progress[k] = "ready"
      BY <1>0 DEF AnnounceQueued, workerVars, jobVars, TypeOK
    <2> QED
      BY <1>0, <2>1, UnheldStep
  <1>3. CASE \E w \in Workers : Work(w)
    BY <1>0, <1>3, WorkStep
  <1>4. CASE \E w \in Workers, j \in Jobs : Claim(w, j)
    BY <1>0, <1>4, ClaimReady
  <1>5. CASE \E j \in Jobs : DelayElapses(j) \/ LeaseRunsOut(j)
    <2>1. UNCHANGED <<pc, cur, todo, bad, copies, rejected, faults, progress, doc, status>>
      BY <1>5 DEF DelayElapses, LeaseRunsOut, workerVars, docVars
    <2> QED
      BY <1>0, <1>5, <2>1, UnheldStep
  <1>6. CASE Restart
    BY <1>0, <1>6, RestartReady
  <1>7. CASE UNCHANGED vars
    <2>1. UNCHANGED <<pc, cur, todo, bad, copies, rejected, faults, progress, doc, status>>
      BY <1>7 DEF vars, jobVars, docVars, workerVars
    <2>2. ASSUME NEW w \in Workers PROVE WorkerOK(w)'
      BY <2>1 DEF ReadyInv, WorkerOK, HasText, EmbedsAll, Embedded, Withdrawn, Moderated,
         Complete
    <2>3. ASSUME NEW k \in Jobs PROVE JobOK(k)'
      BY <2>1 DEF ReadyInv, JobOK, CalledReady, Complete
    <2> QED
      BY <1>0, <2>2, <2>3 DEF ReadyInv
  <1> QED
    BY <1>1, <1>2, <1>3, <1>4, <1>5, <1>6, <1>7 DEF Next

LEMMA ReadyInvAlways == Punctual /\ Spec => []ReadyInv
  <1>1. ASSUME Punctual PROVE Spec => []ReadyInv
    <2>1. ReadyInv /\ [Next]_vars => ReadyInv'
      BY <1>1, ReadyInvStep
    <2> QED
      BY ReadyInvInit, <2>1, PTL DEF Spec
  <1> QED
    BY <1>1

-----------------------------------------------------------------------------

(* A document that the database or the progress stream calls ready has a   *)
(* row for every chunk of its text, through retries and restarts           *)
(* (embedChunks, RunEmbeddingPipeline, processUploadJob).                  *)
THEOREM ReadyMeansComplete == Spec => []ReadyIsComplete
  <1>1. ASSUME Punctual PROVE Spec => []ReadyIsComplete
    <2>1. ReadyInv => ReadyIsComplete
      BY DEF ReadyInv, JobOK, CalledReady, Complete, ReadyIsComplete
    <2> QED
      BY <1>1, ReadyInvAlways, <2>1, PTL
  <1>2. ASSUME ~Punctual PROVE Spec => []ReadyIsComplete
    <2>1. ReadyIsComplete
      BY <1>2 DEF ReadyIsComplete
    <2> QED
      BY <2>1, PTL
  <1> QED
    BY <1>1, <1>2

(* A file whose hash was rejected never gets past moderation, as long as   *)
(* no statement is lost (T1RuleBased, SaveRejectedHash).                   *)
THEOREM RejectionIsKept == Spec => []RejectionHolds
  <1>1. ASSUME Punctual PROVE Spec => []RejectionHolds
    <2>1. ReadyInv => RejectionHolds
      BY DEF ReadyInv, WorkerOK, Moderated, RejectionHolds
    <2> QED
      BY <1>1, ReadyInvAlways, <2>1, PTL
  <1>2. ASSUME ~Punctual PROVE Spec => []RejectionHolds
    <2>1. RejectionHolds
      BY <1>2 DEF RejectionHolds
    <2> QED
      BY <2>1, PTL
  <1> QED
    BY <1>1, <1>2

-----------------------------------------------------------------------------
(* What is left of an upload.  OutcomesAgree speaks of jobs that nobody    *)
(* holds; OutcomeInv adds, for the three things it says of them, what the  *)
(* worker on the way there has already made true, and what an interrupted  *)
(* or repeated attempt finds.                                              *)

Undisturbed == faults = 0 /\ crashes = 0

(* No statement was lost: the row, the document and the file on Cloudinary *)
(* are where the worker has put them, and the message may lag as "queued". *)
VerdictKnown(w) ==
    Undisturbed /\ cur[w] # NoJob =>
      /\ cloud[cur[w]]
      /\ pc[w] = "retryDoc" => status[cur[w]] = "retrying"
      /\ pc[w] \in {"failDoc", "failCloud"} => status[cur[w]] = "failed"
      /\ pc[w] = "failCloud" =>
           doc[cur[w]] = "error" /\ progress[cur[w]] \in {"error", "queued"}
      /\ pc[w] = "ready" => progress[cur[w]] \in {"ready", "queued"}
      /\ pc[w] = "succeed" =>
           doc[cur[w]] = "ready" /\ progress[cur[w]] \in {"ready", "queued"}

VerdictGiven(j) ==
    Undisturbed /\ ~Held(j) =>
      /\ status[j] # "running"
      /\ status[j] = "queued" => cloud[j]
      /\ status[j] = "succeeded" =>
           doc[j] = "ready" /\ cloud[j] /\ progress[j] \in {"ready", "queued"}
      /\ status[j] = "failed" =>
           doc[j] = "error" /\ ~cloud[j] /\ progress[j] \in {"error", "queued"}
      /\ status[j] = "retrying" => doc[j] = "queued" /\ cloud[j]

(* Every interruption so far may have cost a second row of each chunk; the *)
(* attempt under way adds one, to the chunks it has embedded.              *)
Interruptions == crashes + faults

NotYet(w, c) ==
    \/ pc[w] \notin {"embed", "purge", "publish", "ready", "succeed"}
    \/ pc[w] = "embed" /\ c \in todo[w]

Once(w) ==
    cur[w] # NoJob =>
      \A c \in Chunks :
        /\ copies[cur[w]][c] <= 1 + Interruptions
        /\ NotYet(w, c) => copies[cur[w]][c] <= Interruptions

OnceEach(j) ==
    ~Held(j) =>
      \A c \in Chunks :
        /\ copies[j][c] <= 1 + Interruptions
        /\ status[j] # "succeeded" => copies[j][c] <= Interruptions

(* The files of the job, as the worker goes along.                         *)
FilesKnown(w) ==
    cur[w] # NoJob =>
      /\ status[cur[w]] # "succeeded"
      /\ pc[w] \in Pipeline \ {"fetch"} => tmp[cur[w]] \subseteq {src[w], "images"}
      /\ pc[w] \in Pipeline \ {"fetch", "extract", "ocr"} => "images" \notin tmp[cur[w]]
      /\ pc[w] = "succeed" => tmp[cur[w]] = {}
      /\ pc[w] \in {"retryJob", "retryDoc", "failJob", "failDoc", "failCloud"} =>
           tmp[cur[w]] \subseteq {"images"}

FilesLeft(j) ==
    /\ ~({"upload", "retry"} \subseteq tmp[j])
    /\ Settled(j) /\ ~Held(j) =>
         tmp[j] \subseteq IF status[j] = "succeeded" THEN {} ELSE {"images"}

OutcomeInv ==
    /\ QueueInv
    /\ \A w \in Workers : VerdictKnown(w) /\ Once(w) /\ FilesKnown(w)
    /\ \A j \in Jobs : VerdictGiven(j) /\ OnceEach(j) /\ FilesLeft(j)

(* Nothing else changes but what worker w and job j have.                  *)
Local(w, j) ==
    /\ cur[w] \in {j, NoJob} /\ cur'[w] \in {j, NoJob}
    /\ \A v \in Workers \ {w} : /\ pc'[v] = pc[v] /\ cur'[v] = cur[v]
                                /\ src'[v] = src[v] /\ todo'[v] = todo[v]
    /\ \A k \in Jobs \ {j} : /\ status'[k] = status[k] /\ doc'[k] = doc[k]
                             /\ progress'[k] = progress[k]
                             /\ copies'[k] = copies[k] /\ cloud'[k] = cloud[k]
                             /\ tmp'[k] = tmp[k]
    /\ crashes' = crashes /\ faults' \in Nat /\ faults <= faults'

LEMMA SumIsNat ==
  ASSUME NEW a \in Nat, NEW b \in Nat
  PROVE  a + b \in Nat
  OBVIOUS

LEMMA SumGrows ==
  ASSUME NEW a \in Nat, NEW b \in Nat, NEW c \in Nat, b <= c
  PROVE  a + b \in Nat /\ a + c \in Nat /\ a + b <= a + c
  OBVIOUS

LEMMA OthersOutcome ==
  ASSUME OutcomeInv, QueueInv', NEW w \in Workers, NEW j \in Jobs,
         \A v \in Workers \ {w} : cur[v] # j,
         Local(w, j),
         VerdictKnown(w)', Once(w)', FilesKnown(w)',
         VerdictGiven(j)', OnceEach(j)', FilesLeft(j)'
  PROVE  OutcomeInv'
  <1>0. TypeOK /\ NoJob \notin Jobs
    BY NoJobAssumption DEF OutcomeInv, QueueInv
  <1>1. /\ crashes' = crashes /\ crashes \in Nat
        /\ faults \in Nat /\ faults' \in Nat /\ faults <= faults'
        /\ copies \in [Jobs -> [Chunks -> Nat]]
    BY <1>0 DEF Local, TypeOK
  <1>2. Undisturbed' => Undisturbed
    BY <1>1 DEF Undisturbed
  <1>3. /\ Interruptions \in Nat /\ Interruptions' \in Nat
        /\ Interruptions <= Interruptions'
    <2>1. crashes \in Nat /\ faults \in Nat /\ faults' \in Nat /\ faults <= faults'
      BY <1>1
    <2>2. /\ crashes + faults \in Nat /\ crashes + faults' \in Nat
          /\ crashes + faults <= crashes + faults'
      BY <2>1, SumGrows
    <2> QED
      BY <1>1, <2>2 DEF Interruptions
  <1>4. ASSUME NEW v \in Workers \ {w}
        PROVE  VerdictKnown(v)' /\ Once(v)' /\ FilesKnown(v)'
    <2>1. CASE cur[v] = NoJob
      BY <2>1 DEF Local, VerdictKnown, Once, FilesKnown
    <2>2. CASE cur[v] # NoJob
      <3>1. PICK k \in Jobs \ {j} : cur[v] = k
        BY <2>2, <1>0 DEF TypeOK
      <3>2. /\ cur'[v] = k /\ pc'[v] = pc[v] /\ src'[v] = src[v] /\ todo'[v] = todo[v]
            /\ status'[k] = status[k] /\ doc'[k] = doc[k] /\ progress'[k] = progress[k]
            /\ copies'[k] = copies[k] /\ cloud'[k] = cloud[k] /\ tmp'[k] = tmp[k]
        BY <3>1 DEF Local
      <3>3. VerdictKnown(v) /\ Once(v) /\ FilesKnown(v)
        BY DEF OutcomeInv
      <3>4. VerdictKnown(v)'
        BY <1>2, <3>1, <3>2, <3>3, <2>2 DEF VerdictKnown
      <3>5. Once(v)'
        <4> SUFFICES ASSUME NEW c \in Chunks
                     PROVE  /\ copies[k][c] <= 1 + Interruptions'
                            /\ NotYet(v, c) => copies[k][c] <= Interruptions'
          BY <3>1, <3>2 DEF Once, NotYet
        <4>1. /\ copies[k][c] <= 1 + Interruptions
              /\ NotYet(v, c) => copies[k][c] <= Interruptions
          BY <3>1, <3>3, <2>2 DEF Once
        <4>2. copies[k][c] \in Nat
          BY <1>1
        <4> QED
          BY <1>3, <4>1, <4>2
      <3>6. FilesKnown(v)'
        BY <3>1, <3>2, <3>3, <2>2 DEF FilesKnown
      <3> QED
        BY <3>4, <3>5, <3>6
    <2> QED
      BY <2>1, <2>2
  <1>5. ASSUME NEW k \in Jobs \ {j}
        PROVE  VerdictGiven(k)' /\ OnceEach(k)' /\ FilesLeft(k)'
    <2>1. VerdictGiven(k) /\ OnceEach(k) /\ FilesLeft(k)
      BY DEF OutcomeInv
    <2>2. /\ status'[k] = status[k] /\ doc'[k] = doc[k] /\ progress'[k] = progress[k]
          /\ copies'[k] = copies[k] /\ cloud'[k] = cloud[k] /\ tmp'[k] = tmp[k]
      BY DEF Local
    <2>3. Held(k)' <=> Held(k)
      BY <1>0 DEF Held, Local
    <2>4. VerdictGiven(k)'
      BY <1>2, <2>1, <2>2, <2>3 DEF VerdictGiven
    <2>5. OnceEach(k)'
      <3> SUFFICES ASSUME ~Held(k), NEW c \in Chunks
                   PROVE  /\ copies[k][c] <= 1 + Interruptions'
                          /\ status[k] # "succeeded" => copies[k][c] <= Interruptions'
        BY <2>2, <2>3 DEF OnceEach
      <3>1. /\ copies[k][c] <= 1 + Interruptions
            /\ status[k] # "succeeded" => copies[k][c] <= Interruptions
        BY <2>1 DEF OnceEach
      <3>2. copies[k][c] \in Nat
        BY <1>1
      <3> QED
        BY <1>3, <3>1, <3>2
    <2>6. FilesLeft(k)'
      BY <2>1, <2>2, <2>3 DEF FilesLeft, Settled
    <2> QED
      BY <2>4, <2>5, <2>6
  <1> QED
    BY <1>4, <1>5 DEF OutcomeInv

LEMMA FaultsGrow ==
  ASSUME TypeOK, Fault \/ UNCHANGED faults
  PROVE  faults' \in Nat /\ faults <= faults'
  BY DEF TypeOK, Fault

LEMMA WorkIsLocal ==
  ASSUME OutcomeInv, NEW w \in Workers, NEW j \in Jobs, cur[w] = j, Work(w)
  PROVE  Local(w, j)
  <1>0. TypeOK
    BY DEF OutcomeInv, QueueInv
  <1> USE <1>0, FaultsGrow, NoJobAssumption DEF Goto, Publish, RemoveLocal, Release,
          Local, TypeOK, jobVars, docVars, workerVars
  <1>1. CASE MarkProcessing(w)
    BY <1>1 DEF MarkProcessing
  <1>2. CASE FetchSource(w)
    BY <1>2 DEF FetchSource
  <1>3. CASE FetchFails(w)
    BY <1>3 DEF FetchFails, AfterFailure
  <1>4. CASE ExtractText(w)
    BY <1>4 DEF ExtractText
  <1>5. CASE ExtractFails(w)
    BY <1>5 DEF ExtractFails, AfterFailure
  <1>6. CASE OcrImages(w)
    BY <1>6 DEF OcrImages
  <1>7. CASE ModeratePass(w)
    BY <1>7 DEF ModeratePass
  <1>8. CASE ModerateReject(w)
    BY <1>8 DEF ModerateReject
  <1>9. CASE ModerateUnavailable(w)
    BY <1>9 DEF ModerateUnavailable, AfterFailure
  <1>10. CASE SaveRejectedHash(w)
    BY <1>10 DEF SaveRejectedHash, AfterFailure
  <1>11. CASE EmbedJoin(w)
    BY <1>11 DEF EmbedJoin
  <1>12. CASE PurgeChunks(w)
    BY <1>12 DEF PurgeChunks, AfterFailure
  <1>13. CASE PublishReady(w)
    BY <1>13 DEF PublishReady
  <1>14. CASE MarkReady(w)
    BY <1>14 DEF MarkReady
  <1>15. CASE MarkSucceeded(w)
    BY <1>15 DEF MarkSucceeded
  <1>16. CASE RetryJob(w)
    BY <1>16 DEF RetryJob
  <1>17. CASE RetryDoc(w)
    BY <1>17 DEF RetryDoc
  <1>18. CASE FailJob(w)
    BY <1>18 DEF FailJob
  <1>19. CASE FailDoc(w)
    BY <1>19 DEF FailDoc
  <1>20. CASE FailCloud(w)
    BY <1>20 DEF FailCloud
  <1>21. CASE \E c \in Chunks : EmbedChunk(w, c)
    BY <1>21 DEF EmbedChunk, Inserted
  <1>22. CASE \E c \in Chunks : EmbedChunkFails(w, c)
    BY <1>22 DEF EmbedChunkFails
  <1> QED
    BY <1>1, <1>2, <1>3, <1>4, <1>5, <1>6, <1>7, <1>8, <1>9, <1>10, <1>11,
       <1>12, <1>13, <1>14, <1>15, <1>16, <1>17, <1>18, <1>19, <1>20, <1>21,
       <1>22
       DEF Work

(* What the worker has made true of the verdict, step by step.             *)
LEMMA WorkVerdict ==
  ASSUME OutcomeInv, NEW w \in Workers, NEW j \in Jobs, cur[w] = j, Work(w)
  PROVE  VerdictKnown(w)' /\ VerdictGiven(j)'
  <1> SUFFICES ASSUME Undisturbed'
               PROVE  VerdictKnown(w)' /\ VerdictGiven(j)'
    BY DEF VerdictKnown, VerdictGiven
  <1>0. /\ TypeOK /\ VerdictKnown(w)
        /\ (pc[w] \in Undecided => status[j] = "running")
        /\ Undisturbed /\ ~Fault
    BY WorkIsLocal DEF OutcomeInv, QueueInv, UndecidedRunning, Undisturbed, Local, Fault, TypeOK
  <1> USE <1>0, NoJobAssumption DEF Goto, Publish, RemoveLocal, Release,
          VerdictKnown, VerdictGiven, Held, TypeOK,
          Undecided, Pipeline, jobVars, docVars, workerVars
  <1>1. CASE MarkProcessing(w)
    BY <1>1 DEF MarkProcessing
  <1>2. CASE FetchSource(w)
    BY <1>2 DEF FetchSource
  <1>3. CASE FetchFails(w)
    BY <1>3 DEF FetchFails, AfterFailure
  <1>4. CASE ExtractText(w)
    BY <1>4 DEF ExtractText
  <1>5. CASE ExtractFails(w)
    BY <1>5 DEF ExtractFails, AfterFailure
  <1>6. CASE OcrImages(w)
    BY <1>6 DEF OcrImages
  <1>7. CASE ModeratePass(w)
    BY <1>7 DEF ModeratePass
  <1>8. CASE ModerateReject(w)
    BY <1>8 DEF ModerateReject
  <1>9. CASE ModerateUnavailable(w)
    BY <1>9 DEF ModerateUnavailable, AfterFailure
  <1>10. CASE SaveRejectedHash(w)
    BY <1>10 DEF SaveRejectedHash, AfterFailure
  <1>11. CASE EmbedJoin(w)
    BY <1>11 DEF EmbedJoin
  <1>12. CASE PurgeChunks(w)
    BY <1>12 DEF PurgeChunks, AfterFailure
  <1>13. CASE PublishReady(w)
    BY <1>13 DEF PublishReady
  <1>14. CASE MarkReady(w)
    BY <1>14 DEF MarkReady
  <1>15. CASE MarkSucceeded(w)
    BY <1>15 DEF MarkSucceeded
  <1>16. CASE RetryJob(w)
    BY <1>16 DEF RetryJob
  <1>17. CASE RetryDoc(w)
    BY <1>17 DEF RetryDoc
  <1>18. CASE FailJob(w)
    BY <1>18 DEF FailJob
  <1>19. CASE FailDoc(w)
    BY <1>19 DEF FailDoc
  <1>20. CASE FailCloud(w)
    BY <1>20 DEF FailCloud
  <1>21. CASE \E c \in Chunks : EmbedChunk(w, c)
    BY <1>21 DEF EmbedChunk, Inserted
  <1>22. CASE \E c \in Chunks : EmbedChunkFails(w, c)
    BY <1>22 DEF EmbedChunkFails
  <1> QED
    BY <1>1, <1>2, <1>3, <1>4, <1>5, <1>6, <1>7, <1>8, <1>9, <1>10, <1>11,
       <1>12, <1>13, <1>14, <1>15, <1>16, <1>17, <1>18, <1>19, <1>20, <1>21,
       <1>22
       DEF Work

(* ... of the rows of its chunks.                                          *)
LEMMA WorkOnce ==
  ASSUME OutcomeInv, NEW w \in Workers, NEW j \in Jobs, cur[w] = j, Work(w)
  PROVE  Once(w)' /\ OnceEach(j)'
  <1>0. /\ TypeOK /\ Once(w)
        /\ (pc[w] \in Undecided => status[j] = "running")
    BY DEF OutcomeInv, QueueInv, UndecidedRunning
  <1> USE <1>0, FaultsGrow, NoJobAssumption DEF Goto, Publish, RemoveLocal, Release,
          Once, OnceEach, NotYet, Interruptions, Held, TypeOK,
          Undecided, Pipeline, jobVars, docVars, workerVars
  <1>1. CASE MarkProcessing(w)
    BY <1>1 DEF MarkProcessing
  <1>2. CASE FetchSource(w)
    BY <1>2 DEF FetchSource
  <1>3. CASE FetchFails(w)
    BY <1>3 DEF FetchFails, AfterFailure
  <1>4. CASE ExtractText(w)
    BY <1>4 DEF ExtractText
  <1>5. CASE ExtractFails(w)
    BY <1>5 DEF ExtractFails, AfterFailure
  <1>6. CASE OcrImages(w)
    BY <1>6 DEF OcrImages
  <1>7. CASE ModeratePass(w)
    BY <1>7 DEF ModeratePass
  <1>8. CASE ModerateReject(w)
    BY <1>8 DEF ModerateReject
  <1>9. CASE ModerateUnavailable(w)
    BY <1>9 DEF ModerateUnavailable, AfterFailure
  <1>10. CASE SaveRejectedHash(w)
    BY <1>10 DEF SaveRejectedHash, AfterFailure
  <1>11. CASE EmbedJoin(w)
    BY <1>11 DEF EmbedJoin
  <1>12. CASE PurgeChunks(w)
    <2>1. /\ pc[w] = "purge" /\ pc'[w] \in {"retryJob", "failJob"} /\ cur' = cur
          /\ crashes' = crashes /\ TypeOK'
          /\ \/ copies'[j] = [c \in Chunks |-> 0] /\ faults' = faults
             \/ copies' = copies /\ faults' = faults + 1
      BY <1>12, TypeStep DEF PurgeChunks, AfterFailure, Next, Fault
    <2>2. ASSUME NEW c \in Chunks
          PROVE  copies'[j][c] <= Interruptions' /\ copies'[j][c] <= 1 + Interruptions'
      <3>1. copies[j][c] \in Nat /\ copies[j][c] <= 1 + Interruptions
        OBVIOUS
      <3>2. CASE copies'[j] = [d \in Chunks |-> 0]
        <4>1. copies'[j][c] = 0
          BY <3>2
        <4>2. crashes' \in Nat /\ faults' \in Nat
          BY <2>1
        <4>3. Interruptions' \in Nat
          BY <4>2, SumIsNat DEF Interruptions
        <4> QED
          BY <4>1, <4>3
      <3>3. CASE copies' = copies /\ faults' = faults + 1
        BY <2>1, <3>1, <3>3
      <3> QED
        BY <2>1, <3>2, <3>3
    <2> QED
      BY <2>1, <2>2
  <1>13. CASE PublishReady(w)
    BY <1>13 DEF PublishReady
  <1>14. CASE MarkReady(w)
    BY <1>14 DEF MarkReady
  <1>15. CASE MarkSucceeded(w)
    <2>1. /\ pc[w] = "succeed" /\ pc'[w] = "idle" /\ cur'[w] = NoJob
          /\ crashes' = crashes /\ copies' = copies /\ TypeOK'
          /\ \/ status'[j] = "succeeded" /\ faults' = faults
             \/ faults' = faults + 1
      BY <1>15, TypeStep DEF MarkSucceeded, Next, Fault
    <2>2. ASSUME NEW c \in Chunks
          PROVE  /\ copies[j][c] <= 1 + Interruptions'
                 /\ status'[j] # "succeeded" => copies[j][c] <= Interruptions'
      <3>1. copies[j][c] \in Nat /\ copies[j][c] <= 1 + Interruptions
        OBVIOUS
      <3> QED
        BY <2>1, <3>1
    <2> QED
      BY <2>1, <2>2
  <1>16. CASE RetryJob(w)
    BY <1>16 DEF RetryJob
  <1>17. CASE RetryDoc(w)
    BY <1>17 DEF RetryDoc
  <1>18. CASE FailJob(w)
    BY <1>18 DEF FailJob
  <1>19. CASE FailDoc(w)
    BY <1>19 DEF FailDoc
  <1>20. CASE FailCloud(w)
    BY <1>20 DEF FailCloud
  <1>21. CASE \E c \in Chunks : EmbedChunk(w, c)
    BY <1>21 DEF EmbedChunk, Inserted
  <1>22. CASE \E c \in Chunks : EmbedChunkFails(w, c)
    BY <1>22 DEF EmbedChunkFails
  <1> QED
    BY <1>1, <1>2, <1>3, <1>4, <1>5, <1>6, <1>7, <1>8, <1>9, <1>10, <1>11,
       <1>12, <1>13, <1>14, <1>15, <1>16, <1>17, <1>18, <1>19, <1>20, <1>21,
       <1>22
       DEF Work

(* ... and of the files.                                                   *)
LEMMA WorkFiles ==
  ASSUME OutcomeInv, NEW w \in Workers, NEW j \in Jobs, cur[w] = j, Work(w)
  PROVE  FilesKnown(w)' /\ FilesLeft(j)'
  <1>0. /\ TypeOK /\ FilesKnown(w) /\ FilesLeft(j)
        /\ (pc[w] \in Undecided => status[j] = "running")
    BY DEF OutcomeInv, QueueInv, UndecidedRunning
  <1> USE <1>0, FaultsGrow, NoJobAssumption DEF Goto, Publish, RemoveLocal, Release,
          FilesKnown, FilesLeft, Settled, Held, TypeOK, TmpFiles,
          Undecided, Pipeline, jobVars, docVars, workerVars
  <1>1. CASE MarkProcessing(w)
    BY <1>1 DEF MarkProcessing
  <1>2. CASE FetchSource(w)
    BY <1>2 DEF FetchSource
  <1>3. CASE FetchFails(w)
    BY <1>3 DEF FetchFails, AfterFailure
  <1>4. CASE ExtractText(w)
    BY <1>4 DEF ExtractText
  <1>5. CASE ExtractFails(w)
    BY <1>5 DEF ExtractFails, AfterFailure
  <1>6. CASE OcrImages(w)
    BY <1>6 DEF OcrImages
  <1>7. CASE ModeratePass(w)
    BY <1>7 DEF ModeratePass
  <1>8. CASE ModerateReject(w)
    BY <1>8 DEF ModerateReject
  <1>9. CASE ModerateUnavailable(w)
    BY <1>9 DEF ModerateUnavailable, AfterFailure
  <1>10. CASE SaveRejectedHash(w)
    BY <1>10 DEF SaveRejectedHash, AfterFailure
  <1>11. CASE EmbedJoin(w)
    BY <1>11 DEF EmbedJoin
  <1>12. CASE PurgeChunks(w)
    BY <1>12 DEF PurgeChunks, AfterFailure
  <1>13. CASE PublishReady(w)
    BY <1>13 DEF PublishReady
  <1>14. CASE MarkReady(w)
    BY <1>14 DEF MarkReady
  <1>15. CASE MarkSucceeded(w)
    BY <1>15 DEF MarkSucceeded
  <1>16. CASE RetryJob(w)
    BY <1>16 DEF RetryJob
  <1>17. CASE RetryDoc(w)
    BY <1>17 DEF RetryDoc
  <1>18. CASE FailJob(w)
    BY <1>18 DEF FailJob
  <1>19. CASE FailDoc(w)
    BY <1>19 DEF FailDoc
  <1>20. CASE FailCloud(w)
    BY <1>20 DEF FailCloud
  <1>21. CASE \E c \in Chunks : EmbedChunk(w, c)
    BY <1>21 DEF EmbedChunk, Inserted
  <1>22. CASE \E c \in Chunks : EmbedChunkFails(w, c)
    BY <1>22 DEF EmbedChunkFails
  <1> QED
    BY <1>1, <1>2, <1>3, <1>4, <1>5, <1>6, <1>7, <1>8, <1>9, <1>10, <1>11,
       <1>12, <1>13, <1>14, <1>15, <1>16, <1>17, <1>18, <1>19, <1>20, <1>21,
       <1>22
       DEF Work

LEMMA WorkOutcome ==
  ASSUME OutcomeInv, QueueInv', NEW w \in Workers, Work(w)
  PROVE  OutcomeInv'
  <1>1. pc[w] # "idle"
    BY DEF Work, MarkProcessing, FetchSource, FetchFails, ExtractText, ExtractFails,
       OcrImages, ModeratePass, ModerateReject, ModerateUnavailable, SaveRejectedHash,
       EmbedChunk, EmbedChunkFails, EmbedJoin, PurgeChunks, PublishReady, MarkReady,
       MarkSucceeded, RetryJob, RetryDoc, FailJob, FailDoc, FailCloud
  <1>2. PICK j \in Jobs : cur[w] = j
    BY <1>1 DEF OutcomeInv, QueueInv, BusyHolds, TypeOK
  <1>3. \A v \in Workers \ {w} : cur[v] # j
    BY <1>2, NoJobAssumption DEF OutcomeInv, QueueInv, OneHolder
  <1>4. /\ Local(w, j)
        /\ VerdictKnown(w)' /\ VerdictGiven(j)'
        /\ Once(w)' /\ OnceEach(j)'
        /\ FilesKnown(w)' /\ FilesLeft(j)'
    BY <1>2, WorkIsLocal, WorkVerdict, WorkOnce, WorkFiles
  <1> QED
    BY <1>3, <1>4, OthersOutcome

(* A worker takes a job up: what it finds is what nobody holding it means. *)
LEMMA ClaimOutcome ==
  ASSUME OutcomeInv, QueueInv', NEW w \in Workers, NEW j \in Jobs, Claim(w, j)
  PROVE  OutcomeInv'
  <1>1. \A v \in Workers : cur[v] # j
    BY NoJobAssumption DEF OutcomeInv, QueueInv, HeldUnclaimable, Claim
  <1>2. /\ TypeOK /\ VerdictGiven(j) /\ OnceEach(j) /\ FilesLeft(j)
        /\ cur[w] = NoJob /\ ~Held(j)
    BY <1>1 DEF OutcomeInv, QueueInv, BusyHolds, Claim, Held
  <1>3. /\ pc'[w] = "start" /\ cur'[w] = j /\ status'[j] = "running"
        /\ status[j] \in {"queued", "retrying", "running"}
        /\ UNCHANGED <<docVars, src, todo, crashes, faults>>
    BY <1>2 DEF Claim, Goto, Abandoned, Claimable, TypeOK
  <1>4. Held(j)'
    BY <1>3 DEF Held
  <1>5. Local(w, j)
    BY <1>2 DEF Claim, Goto, Local, TypeOK, docVars
  <1>6. VerdictKnown(w)' /\ VerdictGiven(j)'
    BY <1>2, <1>3, <1>4 DEF VerdictKnown, VerdictGiven, Undisturbed, docVars
  <1>7. Once(w)' /\ OnceEach(j)'
    BY <1>2, <1>3, <1>4 DEF Once, NotYet, OnceEach, Interruptions, docVars
  <1>8. FilesKnown(w)' /\ FilesLeft(j)'
    BY <1>2, <1>3, <1>4 DEF FilesKnown, FilesLeft, Settled, Pipeline, docVars
  <1> QED
    BY <1>1, <1>5, <1>6, <1>7, <1>8, OthersOutcome

(* The steps that touch no worker: a new row, the handler's message, the   *)
(* clock.                                                                  *)
LEMMA UnheldOutcome ==
  ASSUME OutcomeInv, QueueInv', NEW j \in Jobs,
         CreateUploadJob(j) \/ AnnounceQueued(j) \/ DelayElapses(j) \/ LeaseRunsOut(j)
  PROVE  OutcomeInv'
  <1>0. TypeOK /\ HeldUnclaimable /\ NoJob \notin Jobs
    BY NoJobAssumption DEF OutcomeInv, QueueInv
  <1>1. /\ UNCHANGED <<pc, cur, src, todo, crashes, faults, copies>>
        /\ \A k \in Jobs : Held(k)' <=> Held(k)
    BY DEF CreateUploadJob, AnnounceQueued, DelayElapses, LeaseRunsOut, docVars,
       workerVars, Held
  <1>2. CASE CreateUploadJob(j)
    <2>1. /\ status[j] = "none" /\ ~Held(j)
          /\ status'[j] = "queued" /\ cloud'[j] /\ tmp'[j] = {"upload", "images"}
          /\ \A k \in Jobs \ {j} : status'[k] = status[k] /\ doc'[k] = doc[k]
                                  /\ cloud'[k] = cloud[k] /\ tmp'[k] = tmp[k]
          /\ UNCHANGED progress
      BY <1>0, <1>2 DEF CreateUploadJob, TypeOK, HeldUnclaimable, Held
    <2>2. ASSUME NEW w \in Workers
          PROVE  VerdictKnown(w)' /\ Once(w)' /\ FilesKnown(w)'
      <3>1. VerdictKnown(w) /\ Once(w) /\ FilesKnown(w)
        BY DEF OutcomeInv
      <3>2. cur[w] = NoJob \/ cur[w] \in Jobs \ {j}
        BY <1>0, <2>1 DEF TypeOK, Held
      <3> QED
        BY <1>1, <2>1, <3>1, <3>2
           DEF VerdictKnown, Once, NotYet, FilesKnown, Undisturbed, Interruptions
    <2>3. ASSUME NEW k \in Jobs
          PROVE  VerdictGiven(k)' /\ OnceEach(k)' /\ FilesLeft(k)'
      <3>1. VerdictGiven(k) /\ OnceEach(k) /\ FilesLeft(k)
        BY DEF OutcomeInv
      <3> QED
        BY <1>1, <2>1, <3>1
           DEF VerdictGiven, OnceEach, FilesLeft, Settled, Undisturbed, Interruptions
    <2> QED
      BY <2>2, <2>3 DEF OutcomeInv
  <1>3. CASE AnnounceQueued(j) \/ DelayElapses(j) \/ LeaseRunsOut(j)
    <2>1. /\ UNCHANGED <<status, doc, cloud, tmp>>
          /\ \A k \in Jobs : progress'[k] \in {progress[k], "queued"}
      BY <1>0, <1>3 DEF AnnounceQueued, DelayElapses, LeaseRunsOut, TypeOK, jobVars,
         docVars
    <2>2. ASSUME NEW w \in Workers
          PROVE  VerdictKnown(w)' /\ Once(w)' /\ FilesKnown(w)'
      <3>1. VerdictKnown(w) /\ Once(w) /\ FilesKnown(w)
        BY DEF OutcomeInv
      <3>2. cur[w] = NoJob \/ cur[w] \in Jobs
        BY <1>0 DEF TypeOK
      <3> QED
        BY <1>1, <2>1, <3>1, <3>2
           DEF VerdictKnown, Once, NotYet, FilesKnown, Undisturbed, Interruptions
    <2>3. ASSUME NEW k \in Jobs
          PROVE  VerdictGiven(k)' /\ OnceEach(k)' /\ FilesLeft(k)'
      <3>1. VerdictGiven(k) /\ OnceEach(k) /\ FilesLeft(k)
        BY DEF OutcomeInv
      <3> QED
        BY <1>1, <2>1, <3>1
           DEF VerdictGiven, OnceEach, FilesLeft, Settled, Undisturbed, Interruptions
    <2> QED
      BY <2>2, <2>3 DEF OutcomeInv
  <1> QED
    BY <1>2, <1>3

(* A restart counts as an interruption, and pays for what it interrupted.  *)
LEMMA RestartOutcome ==
  ASSUME OutcomeInv, QueueInv', Restart
  PROVE  OutcomeInv'
  <1>0. TypeOK /\ NoJob \notin Jobs
    BY NoJobAssumption DEF OutcomeInv, QueueInv
  <1>1. /\ \A w \in Workers : cur'[w] = NoJob
        /\ crashes' = crashes + 1 /\ faults' = faults
        /\ UNCHANGED <<status, copies>>
        /\ \A j \in Jobs : tmp'[j] = tmp[j] \/ tmp'[j] = {}
        /\ crashes \in Nat /\ faults \in Nat
    BY <1>0 DEF Restart, TypeOK, jobVars
  <1>2. ~Undisturbed'
    BY <1>1 DEF Undisturbed
  <1>3. Interruptions' = Interruptions + 1 /\ Interruptions \in Nat
    BY <1>1 DEF Interruptions
  <1>4. ASSUME NEW w \in Workers
        PROVE  VerdictKnown(w)' /\ Once(w)' /\ FilesKnown(w)'
    BY <1>1 DEF VerdictKnown, Once, FilesKnown
  <1>5. ASSUME NEW j \in Jobs
        PROVE  VerdictGiven(j)' /\ OnceEach(j)' /\ FilesLeft(j)'
    <2>1. VerdictGiven(j)'
      BY <1>2 DEF VerdictGiven
    <2>2. ASSUME NEW c \in Chunks
          PROVE  copies[j][c] \in Nat /\ copies[j][c] <= 1 + Interruptions
      <3>1. copies[j][c] \in Nat
        BY <1>0 DEF TypeOK
      <3>2. CASE Held(j)
        <4>1. PICK w \in Workers : cur[w] = j
          BY <3>2 DEF Held
        <4> QED
          BY <1>0, <3>1, <4>1 DEF OutcomeInv, Once
      <3>3. CASE ~Held(j)
        BY <3>1, <3>3 DEF OutcomeInv, OnceEach
      <3> QED
        BY <3>2, <3>3
    <2>3. OnceEach(j)'
      <3> SUFFICES ASSUME NEW c \in Chunks
                   PROVE  /\ copies[j][c] <= 1 + Interruptions'
                          /\ copies[j][c] <= Interruptions'
        BY <1>1 DEF OnceEach
      <3> QED
        BY <1>3, <2>2
    <2>4. Settled(j) =>
            tmp[j] \subseteq IF status[j] = "succeeded" THEN {} ELSE {"images"}
      <3>1. CASE Held(j)
        <4>1. PICK w \in Workers : cur[w] = j
          BY <3>1 DEF Held
        <4>2. /\ FilesKnown(w) /\ pc[w] \in Handling /\ cur[w] # NoJob
              /\ (pc[w] \in Undecided => status[j] = "running")
          BY <1>0, <4>1 DEF OutcomeInv, QueueInv, UndecidedRunning, BusyHolds, TypeOK
        <4> QED
          BY <4>1, <4>2 DEF FilesKnown, Settled, Undecided, Handling
      <3>2. CASE ~Held(j)
        BY <3>2 DEF OutcomeInv, FilesLeft
      <3> QED
        BY <3>1, <3>2
    <2>5. FilesLeft(j)'
      BY <1>1, <2>4 DEF OutcomeInv, FilesLeft, Settled
    <2> QED
      BY <2>1, <2>3, <2>5
  <1> QED
    BY <1>4, <1>5 DEF OutcomeInv

LEMMA OutcomeInvInit == Init => OutcomeInv
  <1> SUFFICES ASSUME Init PROVE OutcomeInv
    OBVIOUS
  <1>1. ASSUME NEW w \in Workers
        PROVE  VerdictKnown(w) /\ Once(w) /\ FilesKnown(w)
    BY DEF Init, VerdictKnown, Once, FilesKnown
  <1>2. ASSUME NEW j \in Jobs
        PROVE  VerdictGiven(j) /\ OnceEach(j) /\ FilesLeft(j)
    <2>1. status[j] = "none" /\ tmp[j] = {} /\ crashes = 0 /\ faults = 0
          /\ \A c \in Chunks : copies[j][c] = 0
      BY DEF Init
    <2> QED
      BY <2>1 DEF VerdictGiven, OnceEach, FilesLeft, Settled, Interruptions
  <1> QED
    BY <1>1, <1>2, QueueInvInit DEF OutcomeInv

LEMMA OutcomeInvStep == Punctual /\ OutcomeInv /\ [Next]_vars => OutcomeInv'
  <1> SUFFICES ASSUME Punctual, OutcomeInv, [Next]_vars
               PROVE  OutcomeInv'
    OBVIOUS
  <1>0. QueueInv'
    BY QueueInvStep DEF OutcomeInv
  <1>1. CASE \E w \in Workers : Work(w)
    BY <1>0, <1>1, WorkOutcome
  <1>2. CASE \E w \in Workers, j \in Jobs : Claim(w, j)
    BY <1>0, <1>2, ClaimOutcome
  <1>3. CASE \E j \in Jobs : \/ CreateUploadJob(j) \/ AnnounceQueued(j)
                             \/ DelayElapses(j) \/ LeaseRunsOut(j)
    BY <1>0, <1>3, UnheldOutcome
  <1>4. CASE Restart
    BY <1>0, <1>4, RestartOutcome
  <1>5. CASE UNCHANGED vars
    BY <1>0, <1>5 DEF vars, jobVars, docVars, workerVars, OutcomeInv, VerdictKnown,
       VerdictGiven, Once, OnceEach, NotYet, FilesKnown, FilesLeft, Settled, Held,
       Undisturbed, Interruptions
  <1> QED
    BY <1>1, <1>2, <1>3, <1>4, <1>5 DEF Next

(* What is left of an upload agrees with what became of it, whatever was   *)
(* interrupted or lost on the way: the row, the document, the file on      *)
(* Cloudinary and the message agree when nothing was, a chunk has at most  *)
(* one row more than there were interruptions, and of the temporary files  *)
(* at most the images of a failed job stay (RunEmbeddingPipeline,          *)
(* markUploadJobSucceeded, handleUploadJobFailure).                        *)
THEOREM OutcomesAlwaysAgree == Spec => []OutcomesAgree
  <1>1. ASSUME Punctual PROVE Spec => []OutcomesAgree
    <2>1. ReadyInv /\ OutcomeInv => OutcomesAgree
      <3> SUFFICES ASSUME ReadyInv, OutcomeInv PROVE OutcomesAgree
        OBVIOUS
      <3>1. TypeOK
        BY DEF ReadyInv, QueueInv
      <3>2. RejectionHolds
        BY DEF ReadyInv, WorkerOK, Moderated, RejectionHolds
      <3>3. VerdictsAgree
        BY DEF OutcomeInv, VerdictGiven, Undisturbed, VerdictsAgree
      <3>4. DuplicatesBounded
        <4> SUFFICES ASSUME NEW j \in Jobs, NEW c \in Chunks
                     PROVE  copies[j][c] <= 1 + crashes + faults
          BY DEF DuplicatesBounded
        <4>1. copies[j][c] <= 1 + Interruptions
          <5>1. CASE Held(j)
            <6>1. PICK w \in Workers : cur[w] = j
              BY <5>1 DEF Held
            <6> QED
              BY <6>1, NoJobAssumption DEF OutcomeInv, Once
          <5>2. CASE ~Held(j)
            BY <5>2 DEF OutcomeInv, OnceEach
          <5> QED
            BY <5>1, <5>2
        <4>2. copies[j][c] \in Nat /\ crashes \in Nat /\ faults \in Nat
          BY <3>1 DEF TypeOK
        <4> QED
          BY <4>1, <4>2 DEF Interruptions
      <3>5. TempFilesReclaimed
        BY DEF OutcomeInv, FilesLeft, TempFilesReclaimed
      <3> QED
        BY <3>1, <3>2, <3>3, <3>4, <3>5 DEF OutcomesAgree
    <2>2. OutcomeInv /\ [Next]_vars => OutcomeInv'
      BY <1>1, OutcomeInvStep
    <2> QED
      BY <1>1, ReadyInvAlways, OutcomeInvInit, <2>1, <2>2, PTL DEF Spec
  <1>2. ASSUME ~Punctual PROVE Spec => []OutcomesAgree
    <2>1. TypeOK => OutcomesAgree
      BY <1>2 DEF OutcomesAgree, RejectionHolds, VerdictsAgree, DuplicatesBounded,
         TempFilesReclaimed
    <2> QED
      BY TypeCorrect, <2>1, PTL
  <1> QED
    BY <1>1, <1>2

-----------------------------------------------------------------------------
(* The refinement.                                                         *)

StageOf(j) == CASE status[j] = "none" -> "absent"
                [] status[j] = "succeeded" -> "ready"
                [] status[j] = "failed" -> "failed"
                [] OTHER -> "accepted"
Stage == [j \in Jobs |-> StageOf(j)]
Content == [j \in Jobs |-> {c \in Chunks : copies[j][c] > 0}]

AcceptStep(j) ==
    /\ Stage[j] = "absent" /\ Stage' = [Stage EXCEPT ![j] = "accepted"]
    /\ UNCHANGED Content
ProcessStep(j) ==
    /\ Stage[j] = "accepted" /\ UNCHANGED Stage
    /\ \E chunks \in SUBSET Chunks : Content' = [Content EXCEPT ![j] = chunks]
CompleteStep(j) ==
    /\ Stage[j] = "accepted" /\ TextChunks \subseteq Content[j]
    /\ Stage' = [Stage EXCEPT ![j] = "ready"]
    /\ UNCHANGED Content
RefuseStep(j) ==
    /\ Stage[j] = "accepted" /\ Stage' = [Stage EXCEPT ![j] = "failed"]
    /\ UNCHANGED Content

IntakeStep ==
    \/ \E j \in Jobs : AcceptStep(j) \/ ProcessStep(j) \/ CompleteStep(j) \/ RefuseStep(j)
    \/ UNCHANGED <<Stage, Content>>

(* The status of one row changes, and so does the stage of its document.   *)
LEMMA StageChanges ==
  ASSUME NEW j \in Jobs, \A k \in Jobs \ {j} : status'[k] = status[k]
  PROVE  Stage' = [Stage EXCEPT ![j] = StageOf(j)']
  BY DEF Stage, StageOf

LEMMA StageStays ==
  ASSUME NEW j \in Jobs, \A k \in Jobs \ {j} : status'[k] = status[k],
         StageOf(j)' = StageOf(j)
  PROVE  UNCHANGED Stage
  BY DEF Stage, StageOf

LEMMA ContentStays == UNCHANGED copies => UNCHANGED Content
  BY DEF Content

(* The chunks of one document change.                                      *)
LEMMA ContentChanges ==
  ASSUME NEW j \in Jobs, \A k \in Jobs \ {j} : copies'[k] = copies[k]
  PROVE  \E chunks \in SUBSET Chunks : Content' = [Content EXCEPT ![j] = chunks]
  <1> DEFINE chunks == {c \in Chunks : copies'[j][c] > 0}
  <1>1. Content' = [Content EXCEPT ![j] = chunks]
    BY DEF Content
  <1> QED
    BY <1>1

LEMMA WorkIsIntake ==
  ASSUME ReadyInv, NEW w \in Workers, Work(w)
  PROVE  IntakeStep
  <1>1. pc[w] # "idle"
    BY DEF Work, MarkProcessing, FetchSource, FetchFails, ExtractText, ExtractFails,
       OcrImages, ModeratePass, ModerateReject, ModerateUnavailable, SaveRejectedHash,
       EmbedChunk, EmbedChunkFails, EmbedJoin, PurgeChunks, PublishReady, MarkReady,
       MarkSucceeded, RetryJob, RetryDoc, FailJob, FailDoc, FailCloud
  <1>2. PICK j \in Jobs : cur[w] = j
    BY <1>1 DEF ReadyInv, QueueInv, BusyHolds, TypeOK
  <1>3. TypeOK /\ WorkerOK(w) /\ (pc[w] \in Undecided => status[j] = "running")
    BY <1>2 DEF ReadyInv, QueueInv, UndecidedRunning
  <1>4. status[j] = "running" => Stage[j] = "accepted"
    BY DEF Stage, StageOf
  <1>5. Only(w, j)
    BY <1>2, WorkOK
  <1>6. CASE \/ \E c \in Chunks : EmbedChunk(w, c)
             \/ PurgeChunks(w)
    <2>1. UNCHANGED status /\ pc[w] \in Undecided
      BY <1>6 DEF EmbedChunk, PurgeChunks, jobVars, Undecided, Pipeline
    <2>2. UNCHANGED Stage
      BY <2>1 DEF Stage, StageOf
    <2>3. ProcessStep(j)
      BY <1>3, <1>4, <1>5, <2>1, <2>2, ContentChanges DEF ProcessStep, Only
    <2> QED
      BY <2>3 DEF IntakeStep
  <1>7. CASE MarkSucceeded(w)
    <2>1. UNCHANGED copies /\ pc[w] = "succeed"
      BY <1>7 DEF MarkSucceeded, docVars
    <2>2. CASE UNCHANGED status
      BY <2>1, <2>2, ContentStays DEF IntakeStep, Stage, StageOf
    <2>3. CASE status' = [status EXCEPT ![cur[w]] = "succeeded"]
      <3>1. status'[j] = "succeeded" /\ StageOf(j)' = "ready"
        BY <1>2, <1>3, <2>3 DEF TypeOK, StageOf
      <3>2. Stage' = [Stage EXCEPT ![j] = "ready"]
        BY <1>5, <3>1, StageChanges DEF Only
      <3>3. TextChunks \subseteq Content[j]
        BY <1>2, <1>3, <2>1 DEF WorkerOK, Embedded, Complete, Content, Chunks
      <3>4. CompleteStep(j)
        BY <1>3, <1>4, <2>1, <3>2, <3>3, ContentStays DEF CompleteStep, Undecided
      <3> QED
        BY <3>4 DEF IntakeStep
    <2> QED
      BY <1>7, <2>2, <2>3 DEF MarkSucceeded
  <1>8. CASE FailJob(w)
    <2>1. UNCHANGED copies /\ pc[w] = "failJob"
      BY <1>8 DEF FailJob, docVars
    <2>2. CASE UNCHANGED status
      BY <2>1, <2>2, ContentStays DEF IntakeStep, Stage, StageOf
    <2>3. CASE status' = [status EXCEPT ![cur[w]] = "failed"]
      <3>1. status'[j] = "failed" /\ StageOf(j)' = "failed"
        BY <1>2, <1>3, <2>3 DEF TypeOK, StageOf
      <3>2. Stage' = [Stage EXCEPT ![j] = "failed"]
        BY <1>5, <3>1, StageChanges DEF Only
      <3>3. RefuseStep(j)
        BY <1>3, <1>4, <2>1, <3>2, ContentStays DEF RefuseStep, Undecided
      <3> QED
        BY <3>3 DEF IntakeStep
    <2> QED
      BY <1>8, <2>2, <2>3 DEF FailJob
  <1>9. CASE RetryJob(w)
    <2>1. UNCHANGED copies /\ status[j] = "running"
      BY <1>3, <1>9 DEF RetryJob, docVars, Undecided
    <2>2. status'[j] \in {"running", "retrying"}
      BY <1>2, <1>3, <1>9, <2>1 DEF RetryJob, TypeOK
    <2>3. StageOf(j)' = StageOf(j)
      BY <2>1, <2>2 DEF StageOf
    <2> QED
      BY <1>5, <2>1, <2>3, StageStays, ContentStays DEF IntakeStep, Only
  <1>10. CASE \/ MarkProcessing(w) \/ FetchSource(w) \/ FetchFails(w)
              \/ ExtractText(w) \/ ExtractFails(w) \/ OcrImages(w)
              \/ ModeratePass(w) \/ ModerateReject(w) \/ ModerateUnavailable(w)
              \/ SaveRejectedHash(w) \/ EmbedJoin(w) \/ PublishReady(w)
              \/ MarkReady(w) \/ RetryDoc(w) \/ FailDoc(w) \/ FailCloud(w)
              \/ \E c \in Chunks : EmbedChunkFails(w, c)
    <2>1. UNCHANGED <<status, copies>>
      BY <1>10 DEF MarkProcessing, FetchSource, FetchFails, ExtractText, ExtractFails,
         OcrImages, ModeratePass, ModerateReject, ModerateUnavailable, SaveRejectedHash,
         EmbedJoin, PublishReady, MarkReady, RetryDoc, FailDoc, FailCloud,
         EmbedChunkFails, jobVars, docVars
    <2> QED
      BY <2>1, ContentStays DEF IntakeStep, Stage, StageOf
  <1> QED
    BY <1>6, <1>7, <1>8, <1>9, <1>10 DEF Work

LEMMA NextIsIntake == ReadyInv /\ [Next]_vars => IntakeStep
  <1> SUFFICES ASSUME ReadyInv, [Next]_vars PROVE IntakeStep
    OBVIOUS
  <1>0. TypeOK
    BY DEF ReadyInv, QueueInv
  <1>1. CASE \E j \in Jobs : CreateUploadJob(j)
    <2> PICK j \in Jobs : CreateUploadJob(j)
      BY <1>1
    <2>1. /\ status[j] = "none" /\ status'[j] = "queued" /\ UNCHANGED copies
          /\ \A k \in Jobs \ {j} : status'[k] = status[k]
      BY <1>0 DEF CreateUploadJob, TypeOK
    <2>2. Stage[j] = "absent" /\ StageOf(j)' = "accepted"
      BY <2>1 DEF Stage, StageOf
    <2>3. AcceptStep(j)
      BY <2>1, <2>2, StageChanges, ContentStays DEF AcceptStep
    <2> QED
      BY <2>3 DEF IntakeStep
  <1>2. CASE \E w \in Workers : Work(w)
    BY <1>2, WorkIsIntake
  <1>3. CASE \E w \in Workers, j \in Jobs : Claim(w, j)
    <2> PICK w \in Workers, j \in Jobs : Claim(w, j)
      BY <1>3
    <2>1. /\ status[j] \in {"queued", "retrying", "running"} /\ status'[j] = "running"
          /\ \A k \in Jobs \ {j} : status'[k] = status[k]
          /\ UNCHANGED copies
      BY <1>0 DEF Claim, Abandoned, Claimable, TypeOK, docVars
    <2>2. StageOf(j)' = StageOf(j)
      BY <2>1 DEF StageOf
    <2> QED
      BY <2>1, <2>2, StageStays, ContentStays DEF IntakeStep
  <1>4. CASE \/ \E j \in Jobs : AnnounceQueued(j) \/ DelayElapses(j) \/ LeaseRunsOut(j)
             \/ Restart \/ UNCHANGED vars
    <2>1. UNCHANGED <<status, copies>>
      BY <1>4 DEF AnnounceQueued, DelayElapses, LeaseRunsOut, Restart, vars, jobVars,
         docVars
    <2> QED
      BY <2>1, ContentStays DEF IntakeStep, Stage, StageOf
  <1> QED
    BY <1>1, <1>2, <1>3, <1>4 DEF Next

(* The promise of DocumentIntake, with its variables read off the tables.  *)
LEMMA IntakeNext == IntakeStep => [Intake!Next]_<<Stage, Content>>
  <1> SUFFICES ASSUME IntakeStep
               PROVE  [Intake!Next]_<<Stage, Content>>
    OBVIOUS
  <1> QED
    BY DEF IntakeStep, AcceptStep, ProcessStep, CompleteStep, RefuseStep, Chunks,
       Stage, StageOf, Content,
       Intake!Next, Intake!Accept, Intake!Process, Intake!Complete, Intake!Refuse

LEMMA IntakeInit == Init => Intake!Init
  <1> SUFFICES ASSUME Init PROVE Intake!Init
    OBVIOUS
  <1> QED
    BY DEF Init, Intake!Init

(* The queue does what the uploader is promised: as long as live workers   *)
(* are punctual, a document that is accepted is refused or has all of its  *)
(* text when it is ready, and its chunks then stay (workers/worker.go,     *)
(* workers/pipeline.go).                                                   *)
THEOREM QueueImplementsIntake == Punctual /\ Spec => ImplementsIntake
  <1> SUFFICES ASSUME Punctual PROVE Spec => ImplementsIntake
    OBVIOUS
  <1>1. Init => Intake!Init
    BY IntakeInit
  <1>2. ReadyInv /\ [Next]_vars => [Intake!Next]_<<Stage, Content>>
    BY NextIsIntake, IntakeNext
  <1> QED
    BY <1>1, <1>2, ReadyInvAlways, PTL
       DEF Spec, ImplementsIntake, Intake!Spec, Stage, StageOf, Content
=============================================================================
