------------------------ MODULE DocumentLifecycle ------------------------
(***************************************************************************)
(* An uploaded document across the five places it lives in: the upload     *)
(* directory, Postgres, the arq queue in Redis, the Qdrant collection of   *)
(* document vectors, and the three handlers that move it between them:     *)
(*                                                                         *)
(*   upload_document   backend/app/api/v1/documents.py                     *)
(*   ingest_document   backend/app/workers/tasks.py                        *)
(*   delete_document   backend/app/api/v1/documents.py                     *)
(*                                                                         *)
(* One action is one stretch of a handler between two awaits that another  *)
(* handler can observe.  A faulty outcome of a stretch (an exception, a    *)
(* cancelled job, a dead process) is an action of its own and consumes     *)
(* one unit of the budget of its kind, so FaultBudget bounds the faults of *)
(* a behaviour and nothing else.                                           *)
(***************************************************************************)
EXTENDS Integers, FiniteSets

CONSTANTS
    Documents,    \* the uploads of a behaviour, one document id each
    Digest,       \* Digest[d]: the sha256 of d's bytes, which names its file
    MaxJobs,      \* WorkerSettings.max_jobs
    MaxTries,     \* arq's max_tries: executions of one job
    FaultBudget   \* FaultBudget[k]: how many faults of kind k may happen

(***************************************************************************)
(* Kinds of faults:                                                        *)
(*   api      the API process dies, or a handler raises, mid-request       *)
(*   outage   Postgres or Redis refuses one call                           *)
(*   error    a call of the worker's pipeline raises an Exception          *)
(*   timeout  arq cancels a job that ran for job_timeout seconds           *)
(*   crash    the worker process stops and is started again                *)
(***************************************************************************)
FaultKinds == {"api", "outage", "error", "timeout", "crash"}

ASSUME ConstantsAssumption ==
    /\ MaxJobs \in Nat \ {0}
    /\ MaxTries \in Nat \ {0}
    /\ FaultBudget \in [FaultKinds -> Nat]
    /\ Digest \in [Documents -> {Digest[d] : d \in Documents}]

Digests == {Digest[d] : d \in Documents}

Progress == {"queued", "parsing", "chunking", "embedding"}
Terminal == {"ready", "failed"}

(***************************************************************************)
(* Where ingest_document stands for a document: the name of its next step. *)
(* "return" has only the bookkeeping of arq left.                          *)
(***************************************************************************)
JobSteps == {"find", "locate", "parse", "chunk", "embed", "create",
             "index", "publish", "fail", "return"}

VARIABLES
    upload,      \* upload[d]: stage of the upload request
    files,       \* digests whose file is in the upload directory
    row,         \* row[d]: status of the committed row, or "absent"
    job,         \* job[d]: the arq job: not there, queued, a step, or gone
    tries,       \* tries[d]: how often arq has started the job
    collection,  \* the Qdrant collection of document vectors exists
    vectors,     \* documents whose points are in the collection
    delete,      \* delete[d]: stage of the delete request
    purge,       \* history: what the last purge of d's vectors met
    budget       \* faults that may still happen, per kind

vars == <<upload, files, row, job, tries, collection, vectors, delete, purge,
          budget>>

apiVars    == <<upload, delete, purge>>
workerVars == <<job, tries, collection>>

TypeOK ==
    /\ upload \in [Documents ->
         {"none", "stored", "flushed", "handed", "committed", "lost"}]
    /\ files \subseteq Digests
    /\ row \in [Documents -> {"absent"} \cup Progress \cup Terminal]
    /\ job \in [Documents -> {"none", "queued", "gone"} \cup JobSteps]
    /\ tries \in [Documents -> 0 .. MaxTries]
    /\ collection \in BOOLEAN
    /\ vectors \subseteq Documents
    /\ delete \in [Documents -> {"none", "owned", "purged", "unlinked"}]
    /\ purge \in [Documents -> {"never", "settled", "overlapping"}]
    /\ budget \in [FaultKinds -> Nat]

Init ==
    /\ upload = [d \in Documents |-> "none"]
    /\ files = {}
    /\ row = [d \in Documents |-> "absent"]
    /\ job = [d \in Documents |-> "none"]
    /\ tries = [d \in Documents |-> 0]
    /\ collection = FALSE
    /\ vectors = {}
    /\ delete = [d \in Documents |-> "none"]
    /\ purge = [d \in Documents |-> "never"]
    /\ budget = FaultBudget

-----------------------------------------------------------------------------
(* Helpers.                                                                *)

Running(d) == job[d] \in JobSteps

\* The job may still run some step of ingest_document.
JobPending(d) == job[d] \in {"queued"} \cup JobSteps

\* Mutated form: the row is written without being looked up.
WriteStatusBlindly(d, status) ==
    row' = [row EXCEPT ![d] = status]

\* Every session_scope of the worker re-reads the rows and writes only those
\* it finds, so a status is never written to a row that is not there.
WriteStatus(d, status) ==
    row' = [row EXCEPT ![d] = IF @ = "absent" THEN @ ELSE status]

Goto(d, step) == job' = [job EXCEPT ![d] = step]

Fault(kind) ==
    /\ budget[kind] > 0
    /\ budget' = [budget EXCEPT ![kind] = @ - 1]

-----------------------------------------------------------------------------
(* POST /documents/upload.  The rows are flushed, the job is enqueued, the *)
(* 202 is sent, and only then does the get_session dependency commit.      *)

UploadStore(d) ==
    /\ upload[d] = "none"
    /\ upload' = [upload EXCEPT ![d] = "stored"]
    /\ files' = files \cup {Digest[d]}
    /\ UNCHANGED <<row, workerVars, vectors, delete, purge, budget>>

UploadFlush(d) ==
    /\ upload[d] = "stored"
    /\ upload' = [upload EXCEPT ![d] = "flushed"]
    /\ UNCHANGED <<files, row, workerVars, vectors, delete, purge, budget>>

\* The outer except: the client is told 202 and nothing will be committed.
UploadFlushFails(d) ==
    /\ upload[d] = "stored"
    /\ Fault("outage")
    /\ upload' = [upload EXCEPT ![d] = "lost"]
    /\ UNCHANGED <<files, row, workerVars, vectors, delete, purge>>

UploadEnqueue(d) ==
    /\ upload[d] = "flushed"
    /\ upload' = [upload EXCEPT ![d] = "handed"]
    /\ Goto(d, "queued")
    /\ UNCHANGED <<files, row, tries, collection, vectors, delete, purge,
                   budget>>

\* The inner except: logged, and the upload goes on without a job.
UploadEnqueueFails(d) ==
    /\ upload[d] = "flushed"
    /\ Fault("outage")
    /\ upload' = [upload EXCEPT ![d] = "handed"]
    /\ UNCHANGED <<files, row, workerVars, vectors, delete, purge>>

UploadCommit(d) ==
    /\ upload[d] = "handed"
    /\ upload' = [upload EXCEPT ![d] = "committed"]
    /\ row' = [row EXCEPT ![d] = "queued"]
    /\ UNCHANGED <<files, workerVars, vectors, delete, purge, budget>>

UploadCommitFails(d) ==
    /\ upload[d] = "handed"
    /\ Fault("outage")
    /\ upload' = [upload EXCEPT ![d] = "lost"]
    /\ UNCHANGED <<files, row, workerVars, vectors, delete, purge>>

\* Mutated form: a failed upload cleans up the file it has stored.
UploadAbortUnlinks(d) ==
    /\ upload[d] \in {"stored", "flushed", "handed"}
    /\ Fault("api")
    /\ upload' = [upload EXCEPT ![d] = "lost"]
    /\ files' = files \ {Digest[d]}
    /\ UNCHANGED <<row, workerVars, vectors, delete, purge>>

UploadAbort(d) ==
    /\ upload[d] \in {"stored", "flushed", "handed"}
    /\ Fault("api")
    /\ upload' = [upload EXCEPT ![d] = "lost"]
    /\ UNCHANGED <<files, row, workerVars, vectors, delete, purge>>

-----------------------------------------------------------------------------
(* ingest_document and arq's delivery of it.                               *)

\* Mutated forms: a job may start once too often, and a start is not counted.
JobStartOnceMore(d) ==
    /\ job[d] = "queued"
    /\ Cardinality({e \in Documents : Running(e)}) < MaxJobs
    /\ tries[d] <= MaxTries
    /\ Goto(d, "find")
    /\ tries' = [tries EXCEPT ![d] = @ + 1]
    /\ UNCHANGED <<apiVars, files, row, collection, vectors, budget>>

JobStartUncounted(d) ==
    /\ job[d] = "queued"
    /\ Cardinality({e \in Documents : Running(e)}) < MaxJobs
    /\ tries[d] < MaxTries
    /\ Goto(d, "find")
    /\ UNCHANGED <<apiVars, files, row, tries, collection, vectors, budget>>

JobStart(d) ==
    /\ job[d] = "queued"
    /\ Cardinality({e \in Documents : Running(e)}) < MaxJobs
    /\ tries[d] < MaxTries
    /\ Goto(d, "find")
    /\ tries' = [tries EXCEPT ![d] = @ + 1]
    /\ UNCHANGED <<apiVars, files, row, collection, vectors, budget>>

\* arq drops a job that has used up its tries without calling the function.
JobDropped(d) ==
    /\ job[d] = "queued"
    /\ tries[d] = MaxTries
    /\ Goto(d, "gone")
    /\ UNCHANGED <<apiVars, files, row, tries, collection, vectors, budget>>

\* "document vanished" ends the job like any other result.
FindDocument(d) ==
    /\ job[d] = "find"
    /\ Goto(d, IF row[d] = "absent" THEN "return" ELSE "locate")
    /\ UNCHANGED <<apiVars, files, row, tries, collection, vectors, budget>>

\* This read is outside the try: its exception ends the job unrecorded.
FindDocumentFails(d) ==
    /\ job[d] = "find"
    /\ Fault("outage")
    /\ Goto(d, "return")
    /\ UNCHANGED <<apiVars, files, row, tries, collection, vectors>>

LocateFile(d) ==
    /\ job[d] = "locate"
    /\ \/ /\ Digest[d] \in files
          /\ WriteStatus(d, "parsing")
          /\ Goto(d, "parse")
       \/ /\ Digest[d] \notin files
          /\ Goto(d, "fail")
          /\ UNCHANGED row
    /\ UNCHANGED <<apiVars, files, tries, collection, vectors, budget>>

Parse(d) ==
    /\ job[d] = "parse"
    /\ Digest[d] \in files
    /\ WriteStatus(d, "chunking")
    /\ Goto(d, "chunk")
    /\ UNCHANGED <<apiVars, files, tries, collection, vectors, budget>>

\* Mutated form: a document without text ends the job unrecorded.
ParseFailsSilently(d) ==
    /\ job[d] = "parse"
    /\ Goto(d, "return")
    /\ UNCHANGED <<apiVars, files, row, tries, collection, vectors, budget>>

\* No chunk, a parser exception, or a file that is gone since LocateFile.
ParseFails(d) ==
    /\ job[d] = "parse"
    /\ Goto(d, "fail")
    /\ UNCHANGED <<apiVars, files, row, tries, collection, vectors, budget>>

BeginEmbedding(d) ==
    /\ job[d] = "chunk"
    /\ WriteStatus(d, "embedding")
    /\ Goto(d, "embed")
    /\ UNCHANGED <<apiVars, files, tries, collection, vectors, budget>>

CheckCollection(d) ==
    /\ job[d] = "embed"
    /\ Goto(d, IF collection THEN "index" ELSE "create")
    /\ UNCHANGED <<apiVars, files, row, tries, collection, vectors, budget>>

\* Mutated form: check again instead of creating.
CreateCollectionRechecks(d) ==
    /\ job[d] = "create"
    /\ Goto(d, "embed")
    /\ UNCHANGED <<apiVars, files, row, tries, collection, vectors, budget>>

\* Creating a collection that another job has created since the check raises.
CreateCollection(d) ==
    /\ job[d] = "create"
    /\ collection' = TRUE
    /\ Goto(d, IF collection THEN "fail" ELSE "index")
    /\ UNCHANGED <<apiVars, files, row, tries, vectors, budget>>

\* Mutated form: the last batch of points is never sent.
UpsertDropsBatch(d) ==
    /\ job[d] = "index"
    /\ Goto(d, "publish")
    /\ UNCHANGED <<apiVars, files, row, tries, collection, vectors, budget>>

Upsert(d) ==
    /\ job[d] = "index"
    /\ vectors' = vectors \cup {d}
    /\ Goto(d, "publish")
    /\ UNCHANGED <<apiVars, files, row, tries, collection, budget>>

Publish(d) ==
    /\ job[d] = "publish"
    /\ WriteStatus(d, "ready")
    /\ Goto(d, "return")
    /\ UNCHANGED <<apiVars, files, tries, collection, vectors, budget>>

\* Mutated form: the except block also covers what follows the publication.
StepFailsLate(d) ==
    /\ job[d] \in JobSteps \ {"find", "fail"}
    /\ Fault("error")
    /\ Goto(d, "fail")
    /\ UNCHANGED <<apiVars, files, row, tries, collection, vectors>>

\* except Exception around the pipeline.
StepFails(d) ==
    /\ job[d] \in JobSteps \ {"find", "fail", "return"}
    /\ Fault("error")
    /\ Goto(d, "fail")
    /\ UNCHANGED <<apiVars, files, row, tries, collection, vectors>>

RecordFailure(d) ==
    /\ job[d] = "fail"
    /\ WriteStatus(d, "failed")
    /\ Goto(d, "return")
    /\ UNCHANGED <<apiVars, files, tries, collection, vectors, budget>>

RecordFailureFails(d) ==
    /\ job[d] = "fail"
    /\ Fault("outage")
    /\ Goto(d, "return")
    /\ UNCHANGED <<apiVars, files, row, tries, collection, vectors>>

JobFinish(d) ==
    /\ job[d] = "return"
    /\ Goto(d, "gone")
    /\ UNCHANGED <<apiVars, files, row, tries, collection, vectors, budget>>

\* job_timeout cancels the coroutine where it stands.  CancelledError is not
\* an Exception, so no handler of ingest_document runs; arq does not retry.
JobTimeout(d) ==
    /\ Running(d)
    /\ job[d] # "return"
    /\ Fault("timeout")
    /\ Goto(d, "gone")
    /\ UNCHANGED <<apiVars, files, row, tries, collection, vectors>>

\* A stopped worker's jobs are delivered again from their first step.
WorkerCrash ==
    /\ \E d \in Documents : Running(d)
    /\ Fault("crash")
    /\ job' = [d \in Documents |-> IF Running(d) THEN "queued" ELSE job[d]]
    /\ UNCHANGED <<apiVars, files, row, tries, collection, vectors>>

-----------------------------------------------------------------------------
(* DELETE /documents/{id} from the session that owns d; any other session  *)
(* gets a 404 and changes nothing.                                         *)

DeleteBegin(d) ==
    /\ delete[d] = "none"
    /\ row[d] # "absent"
    /\ delete' = [delete EXCEPT ![d] = "owned"]
    /\ UNCHANGED <<upload, files, row, workerVars, vectors, purge, budget>>

\* Mutated form: the filter of the purge matches no point.
DeletePurgeMisses(d) ==
    /\ delete[d] = "owned"
    /\ collection
    /\ purge' = [purge EXCEPT ![d] =
                    IF JobPending(d) THEN "overlapping" ELSE "settled"]
    /\ delete' = [delete EXCEPT ![d] = "purged"]
    /\ UNCHANGED <<upload, files, row, workerVars, vectors, budget>>

DeletePurge(d) ==
    /\ delete[d] = "owned"
    /\ collection
    /\ vectors' = vectors \ {d}
    /\ purge' = [purge EXCEPT ![d] =
                    IF JobPending(d) THEN "overlapping" ELSE "settled"]
    /\ delete' = [delete EXCEPT ![d] = "purged"]
    /\ UNCHANGED <<upload, files, row, workerVars, budget>>

\* Mutated form: a failed purge is swallowed and the delete goes on.
DeleteRefusedGoesOn(d) ==
    /\ delete[d] = "owned"
    /\ ~collection
    /\ delete' = [delete EXCEPT ![d] = "purged"]
    /\ UNCHANGED <<upload, files, row, workerVars, vectors, purge, budget>>

\* count() on a collection that no worker has created yet raises.
DeleteRefused(d) ==
    /\ delete[d] = "owned"
    /\ ~collection
    /\ delete' = [delete EXCEPT ![d] = "none"]
    /\ UNCHANGED <<upload, files, row, workerVars, vectors, purge, budget>>

\* Mutated form: a file that is already gone is an error.
DeleteUnlinkNeedsFile(d) ==
    /\ delete[d] = "purged"
    /\ Digest[d] \in files
    /\ files' = files \ {Digest[d]}
    /\ delete' = [delete EXCEPT ![d] = "unlinked"]
    /\ UNCHANGED <<upload, row, workerVars, vectors, purge, budget>>

\* Every file named after the digest, whichever document stored it.
DeleteUnlink(d) ==
    /\ delete[d] = "purged"
    /\ files' = files \ {Digest[d]}
    /\ delete' = [delete EXCEPT ![d] = "unlinked"]
    /\ UNCHANGED <<upload, row, workerVars, vectors, purge, budget>>

DeleteCommit(d) ==
    /\ delete[d] = "unlinked"
    /\ row' = [row EXCEPT ![d] = "absent"]
    /\ delete' = [delete EXCEPT ![d] = "none"]
    /\ UNCHANGED <<upload, files, workerVars, vectors, purge, budget>>

DeleteAbort(d) ==
    /\ delete[d] # "none"
    /\ Fault("api")
    /\ delete' = [delete EXCEPT ![d] = "none"]
    /\ UNCHANGED <<upload, files, row, workerVars, vectors, purge>>

-----------------------------------------------------------------------------
(* The system.  A step of a handler that has begun is fair: nothing in the *)
(* code waits for another request.  Requests, parser verdicts and faults   *)
(* are not.  JobStart is strongly fair: arq reads its queue in order of    *)
(* enqueueing whenever a slot is free, so a job is not overtaken for ever. *)

UploadStep(d) == UploadFlush(d) \/ UploadEnqueue(d) \/ UploadCommit(d)

UploadFault(d) ==
    \/ UploadFlushFails(d) \/ UploadEnqueueFails(d)
    \/ UploadCommitFails(d) \/ UploadAbort(d)

JobStep(d) ==
    \/ JobDropped(d) \/ FindDocument(d) \/ LocateFile(d)
    \/ Parse(d) \/ ParseFails(d) \/ BeginEmbedding(d)
    \/ CheckCollection(d) \/ CreateCollection(d) \/ Upsert(d)
    \/ Publish(d) \/ RecordFailure(d) \/ JobFinish(d)

JobFault(d) ==
    \/ FindDocumentFails(d) \/ StepFails(d)
    \/ RecordFailureFails(d) \/ JobTimeout(d)

DeleteStep(d) ==
    DeletePurge(d) \/ DeleteRefused(d) \/ DeleteUnlink(d) \/ DeleteCommit(d)

Next ==
    \/ \E d \in Documents :
         \/ UploadStore(d) \/ UploadStep(d) \/ UploadFault(d)
         \/ JobStart(d) \/ JobStep(d) \/ JobFault(d)
         \/ DeleteBegin(d) \/ DeleteStep(d) \/ DeleteAbort(d)
    \/ WorkerCrash

Fairness ==
    \A d \in Documents :
        /\ WF_vars(UploadStep(d))
        /\ WF_vars(JobStep(d))
        /\ SF_vars(JobStart(d))
        /\ WF_vars(DeleteStep(d))

Spec == Init /\ [][Next]_vars /\ Fairness

-----------------------------------------------------------------------------
(* Safety.                                                                 *)

Used(kind) == FaultBudget[kind] - budget[kind]

\* Vectors survive their row only when a delete purged them while the job of
\* the same document was still queued or running: an interrupted delete, a
\* lost upload, a crash or a redelivery never orphans vectors by itself.
\* (delete_document's ordering; what the docstring promises without the
\* exception is NoVectorsWithoutRow below.)
OrphanNeedsOverlap ==
    \A d \in Documents :
        d \in vectors /\ row[d] = "absent" => purge[d] = "overlapping"

\* A document shown as ready has its vectors in the collection until a
\* delete has removed them, whatever is retried, redelivered or interrupted
\* (ingest_document upserts before it publishes).
ReadyIsQueryable ==
    \A d \in Documents :
        row[d] = "ready" /\ d \notin vectors => purge[d] # "never"

\* A document left in the middle of the pipeline with no job to move it is
\* explained by a timeout, by an outage that swallowed _fail, or by a worker
\* that died on every try: no path through ingest_document itself ends
\* without recording ready or failed.
StrandedNeedsFault ==
    \A d \in Documents :
        job[d] = "gone" /\ row[d] \in {"parsing", "chunking", "embedding"} =>
            \/ Used("timeout") > 0
            \/ Used("outage") > 0
            \/ Used("crash") >= MaxTries

\* The file of an accepted upload disappears only through a delete of a
\* document with the same bytes (delete_document unlinks by digest).
FileLostByDelete ==
    \A d \in Documents :
        upload[d] # "none" /\ Digest[d] \notin files =>
            \E e \in Documents : Digest[e] = Digest[d] /\ purge[e] # "never"

\* ready and failed are final: only a delete, or a second delivery of the
\* job by arq, moves a document out of them.
TerminalIsFinal ==
    [][\A d \in Documents :
         row[d] \in Terminal /\ row'[d] # row[d] =>
             row'[d] = "absent" \/ tries[d] > 1]_vars

\* A deleted document never reappears, whatever the worker still does for it.
NoResurrection ==
    [][\A d \in Documents :
         upload[d] = "committed" /\ row[d] = "absent" =>
             row'[d] = "absent"]_vars

-----------------------------------------------------------------------------
(* The inductive invariant, by the question each part answers.             *)

\* What the upload has not committed nobody can have touched yet.
UploadOrder(d) ==
    /\ upload[d] \in {"none", "stored", "flushed"} => job[d] = "none"
    /\ upload[d] # "committed" =>
         /\ row[d] = "absent" /\ d \notin vectors
         /\ delete[d] = "none" /\ purge[d] = "never"
         /\ job[d] \in {"none", "queued", "find", "return", "gone"}

\* How far a delete has come, and what a purge leaves behind.
DeleteOrder(d) ==
    /\ delete[d] # "none" => row[d] # "absent"
    /\ delete[d] \in {"purged", "unlinked"} => purge[d] # "never"
    /\ upload[d] = "committed" /\ row[d] = "absent" => purge[d] # "never"
    /\ purge[d] = "settled" => ~JobPending(d) /\ d \notin vectors

\* Vectors first, status second.
PublishOrder(d) ==
    job[d] = "publish" \/ row[d] = "ready" =>
        d \in vectors \/ purge[d] # "never"

\* Each try but the last has been ended by a crash of its own.
TriesOrder(d) ==
    /\ job[d] = "none" => tries[d] = 0
    /\ job[d] = "queued" => tries[d] <= Used("crash")
    /\ Running(d) => tries[d] \in 1 .. Used("crash") + 1

\* A status that is not terminal when a try ends.
StrandOrder(d) ==
    row[d] \in {"parsing", "chunking", "embedding"} =>
        /\ job[d] = "return" => Used("outage") > 0
        /\ job[d] = "gone" =>
             \/ Used("timeout") > 0
             \/ Used("outage") > 0
             \/ Used("crash") >= MaxTries

\* A status that is terminal while a try is under way.
TerminalOrder(d) ==
    row[d] \in Terminal =>
        \/ job[d] \in {"return", "gone"}
        \/ job[d] = "queued" /\ tries[d] >= 1
        \/ tries[d] > 1

FileOrder(d) ==
    upload[d] # "none" /\ Digest[d] \notin files =>
        \E e \in Documents : Digest[e] = Digest[d] /\ purge[e] # "never"

\* The conjunction the proofs of DocumentLifecycleProofs carry through every
\* step of the three handlers.
LifecycleInv ==
    /\ \A k \in FaultKinds : budget[k] <= FaultBudget[k]
    /\ \A d \in Documents :
         /\ UploadOrder(d) /\ DeleteOrder(d) /\ PublishOrder(d)
         /\ TriesOrder(d) /\ StrandOrder(d) /\ TerminalOrder(d)
         /\ FileOrder(d)

-----------------------------------------------------------------------------
(* Refinement.                                                             *)

Shown ==
    [d \in Documents |->
        IF row[d] \in Progress THEN "pending"
        ELSE IF row[d] \in Terminal THEN row[d]
        ELSE IF upload[d] = "committed" THEN "deleted"
        ELSE "unseen"]

Cleared == {d \in Documents : purge[d] # "never"}

Catalog == INSTANCE DocumentCatalog
           WITH shown <- Shown, quotable <- vectors, cleared <- Cleared

\* The three handlers together, under every fault, implement DocumentCatalog.
ImplementsCatalog == Catalog!CatalogSpec

-----------------------------------------------------------------------------
(* Liveness.                                                               *)

\* Every enqueued job is eventually finished or dropped by arq.
JobsDrain ==
    \A d \in Documents : job[d] = "queued" ~> job[d] = "gone"

\* Once the worker has found the row of a document, the document is
\* eventually shown as ready or failed, or is deleted: the upload indicator
\* does not hang, unless one of the faults of StrandedNeedsFault happens.
DocumentSettles ==
    \A d \in Documents :
        job[d] = "locate" ~>
            \/ row[d] \in Terminal \cup {"absent"}
            \/ Used("timeout") > 0
            \/ Used("outage") > 0
            \/ Used("crash") >= MaxTries

\* A delete that has purged the vectors removes the row, unless the request
\* itself is interrupted: it waits for no job and for no other delete.
DeleteCompletes ==
    \A d \in Documents :
        delete[d] = "purged" ~> row[d] = "absent" \/ Used("api") > 0

-----------------------------------------------------------------------------
(* What the repository says of the program and the program does not do.    *)

\* documents.py:229-235: a partial failure leaves rows without vectors
\* rather than vectors without rows.
NoVectorsWithoutRow ==
    \A d \in Documents : d \in vectors => row[d] # "absent"

\* tasks.py:4-8 and documents.py:3-6: an accepted upload is enqueued and its
\* progress ends in ready or failed (or it is deleted).
AcceptedUploadSettles ==
    \A d \in Documents :
        row[d] = "queued" ~> row[d] \in Terminal \cup {"absent"}

=============================================================================
