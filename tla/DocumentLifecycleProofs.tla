--------------------- MODULE DocumentLifecycleProofs ---------------------
(***************************************************************************)
(* Proofs about DocumentLifecycle, for every set of documents, every       *)
(* assignment of digests and every fault budget.                           *)
(***************************************************************************)
EXTENDS DocumentLifecycle, TLAPS

\* Every reachable state is well typed.
THEOREM LifecycleTypeCorrect == Spec => []TypeOK
<1>1. Init => TypeOK
  <2> SUFFICES ASSUME Init PROVE TypeOK
    OBVIOUS
  <2>1. /\ upload \in [Documents ->
              {"none", "stored", "flushed", "handed", "committed", "lost"}]
        /\ row \in [Documents -> {"absent"} \cup Progress \cup Terminal]
        /\ job \in [Documents -> {"none", "queued", "gone"} \cup JobSteps]
        /\ delete \in [Documents -> {"none", "owned", "purged", "unlinked"}]
        /\ purge \in [Documents -> {"never", "settled", "overlapping"}]
    BY DEF Init
  <2>2. tries \in [Documents -> 0 .. MaxTries]
    BY ConstantsAssumption DEF Init
  <2>3. /\ files \subseteq Digests /\ vectors \subseteq Documents
        /\ collection \in BOOLEAN
    BY DEF Init
  <2>4. budget \in [FaultKinds -> Nat]
    BY ConstantsAssumption DEF Init
  <2> QED BY <2>1, <2>2, <2>3, <2>4 DEF TypeOK
<1>2. TypeOK /\ [Next]_vars => TypeOK'
  <2> SUFFICES ASSUME TypeOK, [Next]_vars PROVE TypeOK'
    OBVIOUS
  <2> USE ConstantsAssumption DEF TypeOK, Digests, Goto, Fault, WriteStatus,
          FaultKinds, JobSteps, Progress, Terminal, apiVars, workerVars,
          Running, JobPending
  <2>1. ASSUME NEW d \in Documents,
               UploadStore(d) \/ UploadStep(d) \/ UploadFault(d)
        PROVE  TypeOK'
    <3>1. CASE UploadStore(d) BY <3>1 DEF UploadStore
    <3>2. CASE UploadStep(d)
      BY <3>2 DEF UploadStep, UploadFlush, UploadEnqueue, UploadCommit
    <3>3. CASE UploadFault(d)
      BY <3>3 DEF UploadFault, UploadFlushFails, UploadEnqueueFails,
                  UploadCommitFails, UploadAbort
    <3> QED BY <2>1, <3>1, <3>2, <3>3
  <2>2. ASSUME NEW d \in Documents, JobStart(d) PROVE TypeOK'
    BY <2>2 DEF JobStart
  <2>3. ASSUME NEW d \in Documents, JobStep(d) PROVE TypeOK'
    <3>1. CASE JobDropped(d) \/ FindDocument(d) \/ JobFinish(d)
      BY <3>1 DEF JobDropped, FindDocument, JobFinish
    <3>2. CASE LocateFile(d) BY <3>2 DEF LocateFile
    <3>3. CASE Parse(d) \/ ParseFails(d) \/ BeginEmbedding(d)
      BY <3>3 DEF Parse, ParseFails, BeginEmbedding
    <3>4. CASE CheckCollection(d) \/ CreateCollection(d) \/ Upsert(d)
      BY <3>4 DEF CheckCollection, CreateCollection, Upsert
    <3>5. CASE Publish(d) \/ RecordFailure(d)
      BY <3>5 DEF Publish, RecordFailure
    <3> QED BY <2>3, <3>1, <3>2, <3>3, <3>4, <3>5 DEF JobStep
  <2>4. ASSUME NEW d \in Documents, JobFault(d) PROVE TypeOK'
    BY <2>4 DEF JobFault, FindDocumentFails, StepFails, RecordFailureFails,
                JobTimeout
  <2>5. ASSUME NEW d \in Documents,
               DeleteBegin(d) \/ DeleteStep(d) \/ DeleteAbort(d)
        PROVE  TypeOK'
    BY <2>5 DEF DeleteBegin, DeleteStep, DeletePurge, DeleteRefused,
                DeleteUnlink, DeleteCommit, DeleteAbort
  <2>6. CASE WorkerCrash
    BY <2>6 DEF WorkerCrash
  <2>7. CASE UNCHANGED vars
    BY <2>7 DEF vars
  <2> QED
    BY <2>1, <2>2, <2>3, <2>4, <2>5, <2>6, <2>7 DEF Next
<1> QED
  BY <1>1, <1>2, PTL DEF Spec

-----------------------------------------------------------------------------
(* The inductive invariant.  FileOrder relates documents to each other and *)
(* is disturbed by three actions only, so it is kept apart; the other parts*)
(* speak of one document e, and a step of document d is checked for e = d  *)
(* and e # d at once.                                                      *)

DocumentInv(e) ==
    /\ UploadOrder(e) /\ DeleteOrder(e) /\ PublishOrder(e)
    /\ TriesOrder(e) /\ StrandOrder(e) /\ TerminalOrder(e)

BudgetInv == \A k \in FaultKinds : budget[k] <= FaultBudget[k]

\* LifecycleInv regrouped into the three parts the steps disturb separately.
LEMMA LifecycleInvParts ==
    LifecycleInv <=>
        /\ BudgetInv
        /\ \A e \in Documents : DocumentInv(e)
        /\ \A e \in Documents : FileOrder(e)
BY DEF LifecycleInv, DocumentInv, BudgetInv

\* A step spends at most one unit of the fault budget of one kind.
LEMMA BudgetKeeps ==
    ASSUME TypeOK, BudgetInv,
           UNCHANGED budget \/ \E k \in FaultKinds : Fault(k)
    PROVE  BudgetInv'
<1>1. CASE UNCHANGED budget
  BY <1>1 DEF BudgetInv
<1>2. ASSUME NEW k \in FaultKinds, Fault(k) PROVE BudgetInv'
  <2> SUFFICES ASSUME NEW i \in FaultKinds
               PROVE  budget'[i] <= FaultBudget[i]
    BY DEF BudgetInv
  <2>1. budget[i] <= FaultBudget[i] /\ budget[i] \in Nat
        /\ FaultBudget[i] \in Nat
    BY ConstantsAssumption DEF TypeOK, BudgetInv
  <2>2. budget'[i] = IF i = k THEN budget[i] - 1 ELSE budget[i]
    BY <1>2 DEF Fault, TypeOK
  <2> QED BY <2>1, <2>2
<1> QED BY <1>1, <1>2

\* A step of upload_document.
LEMMA UploadKeeps ==
    ASSUME TypeOK, BudgetInv, NEW d \in Documents, NEW e \in Documents,
           DocumentInv(d), DocumentInv(e),
           \/ UploadStore(d)
           \/ UploadFlush(d)
           \/ UploadFlushFails(d)
           \/ UploadEnqueue(d)
           \/ UploadEnqueueFails(d)
           \/ UploadCommit(d)
           \/ UploadCommitFails(d)
           \/ UploadAbort(d)
    PROVE  DocumentInv(e)'
<1> USE ConstantsAssumption
    DEF TypeOK, DocumentInv, UploadOrder, DeleteOrder, PublishOrder,
        TriesOrder, StrandOrder, TerminalOrder, Goto, Fault, WriteStatus,
        FaultKinds, JobSteps, Progress, Terminal, apiVars, workerVars,
        Running, JobPending, Used, BudgetInv
<1>1. CASE UploadStore(d) BY <1>1 DEF UploadStore
<1>2. CASE UploadFlush(d) BY <1>2 DEF UploadFlush
<1>3. CASE UploadFlushFails(d) BY <1>3 DEF UploadFlushFails
<1>4. CASE UploadEnqueue(d) BY <1>4 DEF UploadEnqueue
<1>5. CASE UploadEnqueueFails(d) BY <1>5 DEF UploadEnqueueFails
<1>6. CASE UploadCommit(d) BY <1>6 DEF UploadCommit
<1>7. CASE UploadCommitFails(d) BY <1>7 DEF UploadCommitFails
<1>8. CASE UploadAbort(d) BY <1>8 DEF UploadAbort
<1> QED BY <1>1, <1>2, <1>3, <1>4, <1>5, <1>6, <1>7, <1>8

\* A step of ingest_document or of arq.
LEMMA JobKeeps ==
    ASSUME TypeOK, BudgetInv, NEW d \in Documents, NEW e \in Documents,
           DocumentInv(d), DocumentInv(e),
           \/ JobStart(d)
           \/ JobDropped(d)
           \/ FindDocument(d)
           \/ FindDocumentFails(d)
           \/ LocateFile(d)
           \/ Parse(d)
           \/ ParseFails(d)
           \/ BeginEmbedding(d)
           \/ CheckCollection(d)
           \/ CreateCollection(d)
           \/ Upsert(d)
           \/ Publish(d)
           \/ StepFails(d)
           \/ RecordFailure(d)
           \/ RecordFailureFails(d)
           \/ JobFinish(d)
           \/ JobTimeout(d)
    PROVE  DocumentInv(e)'
<1> USE ConstantsAssumption
    DEF TypeOK, DocumentInv, UploadOrder, DeleteOrder, PublishOrder,
        TriesOrder, StrandOrder, TerminalOrder, Goto, Fault, WriteStatus,
        FaultKinds, JobSteps, Progress, Terminal, apiVars, workerVars,
        Running, JobPending, Used, BudgetInv
<1>1. CASE JobStart(d) BY <1>1 DEF JobStart
<1>2. CASE JobDropped(d) BY <1>2 DEF JobDropped
<1>3. CASE FindDocument(d) BY <1>3 DEF FindDocument
<1>4. CASE FindDocumentFails(d) BY <1>4 DEF FindDocumentFails
<1>5. CASE LocateFile(d) BY <1>5 DEF LocateFile
<1>6. CASE Parse(d) BY <1>6 DEF Parse
<1>7. CASE ParseFails(d) BY <1>7 DEF ParseFails
<1>8. CASE BeginEmbedding(d) BY <1>8 DEF BeginEmbedding
<1>9. CASE CheckCollection(d) BY <1>9 DEF CheckCollection
<1>10. CASE CreateCollection(d) BY <1>10 DEF CreateCollection
<1>11. CASE Upsert(d) BY <1>11 DEF Upsert
<1>12. CASE Publish(d) BY <1>12 DEF Publish
<1>13. CASE StepFails(d) BY <1>13 DEF StepFails
<1>14. CASE RecordFailure(d) BY <1>14 DEF RecordFailure
<1>15. CASE RecordFailureFails(d) BY <1>15 DEF RecordFailureFails
<1>16. CASE JobFinish(d) BY <1>16 DEF JobFinish
<1>17. CASE JobTimeout(d) BY <1>17 DEF JobTimeout
<1> QED BY <1>1, <1>2, <1>3, <1>4, <1>5, <1>6, <1>7, <1>8, <1>9, <1>10, <1>11,
   <1>12, <1>13, <1>14, <1>15, <1>16, <1>17

\* A step of delete_document.
LEMMA DeleteKeeps ==
    ASSUME TypeOK, BudgetInv, NEW d \in Documents, NEW e \in Documents,
           DocumentInv(d), DocumentInv(e),
           \/ DeleteBegin(d)
           \/ DeletePurge(d)
           \/ DeleteRefused(d)
           \/ DeleteUnlink(d)
           \/ DeleteCommit(d)
           \/ DeleteAbort(d)
    PROVE  DocumentInv(e)'
<1> USE ConstantsAssumption
    DEF TypeOK, DocumentInv, UploadOrder, DeleteOrder, PublishOrder,
        TriesOrder, StrandOrder, TerminalOrder, Goto, Fault, WriteStatus,
        FaultKinds, JobSteps, Progress, Terminal, apiVars, workerVars,
        Running, JobPending, Used, BudgetInv
<1>1. CASE DeleteBegin(d) BY <1>1 DEF DeleteBegin
<1>2. CASE DeletePurge(d) BY <1>2 DEF DeletePurge
<1>3. CASE DeleteRefused(d) BY <1>3 DEF DeleteRefused
<1>4. CASE DeleteUnlink(d) BY <1>4 DEF DeleteUnlink
<1>5. CASE DeleteCommit(d) BY <1>5 DEF DeleteCommit
<1>6. CASE DeleteAbort(d) BY <1>6 DEF DeleteAbort
<1> QED BY <1>1, <1>2, <1>3, <1>4, <1>5, <1>6

\* The file of an upload: only these three steps touch what FileOrder reads,
\* and a delete unlinks only after it has purged.
LEMMA FileKeeps ==
    ASSUME TypeOK, NEW d \in Documents, NEW e \in Documents,
           DocumentInv(d), FileOrder(e),
           UploadStore(d) \/ DeletePurge(d) \/ DeleteUnlink(d)
    PROVE  FileOrder(e)'
<1> USE DEF TypeOK, FileOrder
<1>1. CASE UploadStore(d)
  BY <1>1 DEF UploadStore
<1>2. CASE DeletePurge(d)
  <2>1. /\ purge'[d] # "never"
        /\ \A f \in Documents : f # d => purge'[f] = purge[f]
        /\ UNCHANGED <<upload, files>>
    BY <1>2 DEF DeletePurge
  <2> QED BY <2>1
<1>3. CASE DeleteUnlink(d)
  <2>1. purge[d] # "never" /\ purge' = purge /\ upload' = upload
    BY <1>3 DEF DeleteUnlink, DocumentInv, DeleteOrder
  <2>2. files' = files \ {Digest[d]}
    BY <1>3 DEF DeleteUnlink
  <2> QED BY <2>1, <2>2
<1> QED BY <1>1, <1>2, <1>3

\* A step that leaves the upload directory and the purges alone.
LEMMA FileUntouched ==
    ASSUME NEW e \in Documents, FileOrder(e), UNCHANGED <<files, purge>>,
           upload'[e] # "none" => upload[e] # "none"
    PROVE  FileOrder(e)'
BY DEF FileOrder

\* Every step of the specification keeps LifecycleInv.
LEMMA LifecycleStep ==
    ASSUME TypeOK, LifecycleInv, [Next]_vars
    PROVE  LifecycleInv'
<1> USE DEF UploadStep, UploadFault, JobStep, JobFault, DeleteStep
<1>0. BudgetInv /\ (\A e \in Documents : DocumentInv(e) /\ FileOrder(e))
  BY LifecycleInvParts
<1>1. ASSUME NEW d \in Documents,
             UploadStore(d) \/ UploadStep(d) \/ UploadFault(d)
      PROVE  LifecycleInv'
  <2>1. BudgetInv'
    BY <1>0, <1>1, BudgetKeeps DEF FaultKinds, UploadStore, UploadFlush,
       UploadFlushFails, UploadEnqueue, UploadEnqueueFails, UploadCommit,
       UploadCommitFails, UploadAbort
  <2>2. \A e \in Documents : DocumentInv(e)'
    BY <1>0, <1>1, UploadKeeps
  <2>3. ASSUME NEW e \in Documents PROVE FileOrder(e)'
    <3>1. CASE UploadStore(d) BY <1>0, <3>1, FileKeeps
    <3>2. CASE UploadStep(d) \/ UploadFault(d)
      <4>1. UNCHANGED <<files, purge>> /\ upload[d] # "none"
            /\ \A f \in Documents : f # d => upload'[f] = upload[f]
        BY <3>2 DEF TypeOK, UploadFlush, UploadFlushFails, UploadEnqueue,
           UploadEnqueueFails, UploadCommit, UploadCommitFails, UploadAbort
      <4> QED BY <1>0, <4>1, FileUntouched
    <3> QED BY <1>1, <3>1, <3>2
  <2> QED BY <2>1, <2>2, <2>3 DEF LifecycleInv, DocumentInv, BudgetInv
<1>2. ASSUME NEW d \in Documents, JobStart(d) \/ JobStep(d) \/ JobFault(d)
      PROVE  LifecycleInv'
  <2>1. BudgetInv'
    BY <1>0, <1>2, BudgetKeeps DEF FaultKinds, JobStart, JobDropped,
       FindDocument, FindDocumentFails, LocateFile, Parse, ParseFails,
       BeginEmbedding, CheckCollection, CreateCollection, Upsert, Publish,
       StepFails, RecordFailure, RecordFailureFails, JobFinish, JobTimeout
  <2>2. \A e \in Documents : DocumentInv(e)'
    BY <1>0, <1>2, JobKeeps
  <2>3. \A e \in Documents : FileOrder(e)'
    <3>1. UNCHANGED <<files, purge, upload>>
      BY <1>2 DEF apiVars, JobStart, JobDropped, FindDocument,
         FindDocumentFails, LocateFile, Parse, ParseFails, BeginEmbedding,
         CheckCollection, CreateCollection, Upsert, Publish, StepFails,
         RecordFailure, RecordFailureFails, JobFinish, JobTimeout
    <3> QED BY <1>0, <3>1, FileUntouched
  <2> QED BY <2>1, <2>2, <2>3 DEF LifecycleInv, DocumentInv, BudgetInv
<1>3. ASSUME NEW d \in Documents,
             DeleteBegin(d) \/ DeleteStep(d) \/ DeleteAbort(d)
      PROVE  LifecycleInv'
  <2>1. BudgetInv'
    BY <1>0, <1>3, BudgetKeeps DEF FaultKinds, DeleteBegin, DeletePurge,
       DeleteRefused, DeleteUnlink, DeleteCommit, DeleteAbort
  <2>2. \A e \in Documents : DocumentInv(e)'
    BY <1>0, <1>3, DeleteKeeps
  <2>3. ASSUME NEW e \in Documents PROVE FileOrder(e)'
    <3>1. CASE DeletePurge(d) \/ DeleteUnlink(d) BY <1>0, <3>1, FileKeeps
    <3>2. CASE ~(DeletePurge(d) \/ DeleteUnlink(d))
      <4>1. UNCHANGED <<files, purge, upload>>
        BY <1>3, <3>2 DEF DeleteBegin, DeletePurge, DeleteRefused,
           DeleteUnlink, DeleteCommit, DeleteAbort
      <4> QED BY <1>0, <4>1, FileUntouched
    <3> QED BY <3>1, <3>2
  <2> QED BY <2>1, <2>2, <2>3 DEF LifecycleInv, DocumentInv, BudgetInv
<1>4. CASE WorkerCrash
  <2>1. BudgetInv'
    BY <1>0, <1>4, BudgetKeeps DEF FaultKinds, WorkerCrash
  <2>2. ASSUME NEW e \in Documents PROVE DocumentInv(e)'
    BY <1>0, <1>4, ConstantsAssumption
    DEF WorkerCrash, TypeOK, DocumentInv, UploadOrder, DeleteOrder,
        PublishOrder, TriesOrder, StrandOrder, TerminalOrder, Fault,
        FaultKinds, JobSteps, Progress, Terminal, apiVars, Running,
        JobPending, Used, BudgetInv
  <2>3. \A e \in Documents : FileOrder(e)'
    BY <1>0, <1>4, FileUntouched DEF WorkerCrash, apiVars
  <2> QED BY <2>1, <2>2, <2>3 DEF LifecycleInv, DocumentInv, BudgetInv
<1>5. CASE UNCHANGED vars
  BY <1>5 DEF vars, LifecycleInv, UploadOrder, DeleteOrder, PublishOrder,
              TriesOrder, StrandOrder, TerminalOrder, FileOrder, Used,
              Running, JobPending
<1> QED
  BY <1>1, <1>2, <1>3, <1>4, <1>5 DEF Next

\* The empty system satisfies LifecycleInv.
LEMMA LifecycleInit == Init => LifecycleInv
<1> SUFFICES ASSUME Init PROVE LifecycleInv
  OBVIOUS
<1>1. \A k \in FaultKinds : budget[k] <= FaultBudget[k]
  BY ConstantsAssumption DEF Init
<1>2. ASSUME NEW d \in Documents
      PROVE  /\ UploadOrder(d) /\ DeleteOrder(d) /\ PublishOrder(d)
             /\ TriesOrder(d) /\ StrandOrder(d) /\ TerminalOrder(d)
             /\ FileOrder(d)
  BY DEF Init, UploadOrder, DeleteOrder, PublishOrder, TriesOrder,
         StrandOrder, TerminalOrder, FileOrder, Running, JobPending,
         JobSteps, Terminal, Used
<1> QED BY <1>1, <1>2 DEF LifecycleInv

\* LifecycleInv holds in every reachable state.
THEOREM LifecycleInvariant == Spec => []LifecycleInv
<1>1. TypeOK /\ LifecycleInv /\ [Next]_vars => LifecycleInv'
  BY LifecycleStep
<1> QED
  BY <1>1, LifecycleInit, LifecycleTypeCorrect, PTL DEF Spec

\* Vectors outlive their row only through a delete that purged them while
\* the job of that document was still pending.
THEOREM OrphansNeedOverlap == Spec => []OrphanNeedsOverlap
<1>1. TypeOK /\ LifecycleInv => OrphanNeedsOverlap
  BY DEF TypeOK, LifecycleInv, OrphanNeedsOverlap, UploadOrder, DeleteOrder
<1> QED
  BY <1>1, LifecycleInvariant, LifecycleTypeCorrect, PTL

\* A document shown as ready is in the collection until a delete purges it.
THEOREM ReadyDocumentsAreQueryable == Spec => []ReadyIsQueryable
<1>1. LifecycleInv => ReadyIsQueryable
  BY DEF LifecycleInv, ReadyIsQueryable, PublishOrder
<1> QED
  BY <1>1, LifecycleInvariant, PTL

\* A document stranded in the middle of the pipeline is explained by a
\* timeout, an outage, or a crash on every try.
THEOREM StrandingNeedsFault == Spec => []StrandedNeedsFault
<1>1. LifecycleInv => StrandedNeedsFault
  BY DEF LifecycleInv, StrandedNeedsFault, StrandOrder
<1> QED
  BY <1>1, LifecycleInvariant, PTL

\* A file is lost only to a delete of a document with the same bytes.
THEOREM FilesLostByDelete == Spec => []FileLostByDelete
<1>1. LifecycleInv => FileLostByDelete
  BY DEF LifecycleInv, FileLostByDelete, FileOrder
<1> QED
  BY <1>1, LifecycleInvariant, PTL

-----------------------------------------------------------------------------
(* Action properties and the refinement.  StatusStep says all that one step*)
(* may do to the row of a document; both action properties follow from it. *)

StatusStep(d) ==
    \/ row'[d] = row[d]
    \/ row'[d] = "absent"
    \/ upload[d] # "committed" /\ row[d] = "absent"
    \/ /\ row[d] # "absent"
       /\ Running(d) /\ job[d] # "return"

\* What one step of the three handlers may do to the row of a document.
LEMMA StatusSteps ==
    ASSUME TypeOK, LifecycleInv, [Next]_vars, NEW d \in Documents
    PROVE  StatusStep(d)
<1> USE DEF TypeOK, StatusStep, WriteStatus, Running, JobSteps
<1>1. ASSUME NEW e \in Documents,
             UploadStore(e) \/ UploadStep(e) \/ UploadFault(e)
      PROVE  StatusStep(d)
  BY <1>1 DEF LifecycleInv, UploadOrder, UploadStep, UploadFault, UploadStore,
     UploadFlush, UploadFlushFails, UploadEnqueue, UploadEnqueueFails,
     UploadCommit, UploadCommitFails, UploadAbort
<1>2. ASSUME NEW e \in Documents, JobStart(e) \/ JobStep(e) \/ JobFault(e)
      PROVE  StatusStep(d)
  BY <1>2 DEF JobStep, JobFault, JobStart, JobDropped, FindDocument,
     FindDocumentFails, LocateFile, Parse, ParseFails, BeginEmbedding,
     CheckCollection, CreateCollection, Upsert, Publish, StepFails,
     RecordFailure, RecordFailureFails, JobFinish, JobTimeout
<1>3. ASSUME NEW e \in Documents,
             DeleteBegin(e) \/ DeleteStep(e) \/ DeleteAbort(e)
      PROVE  StatusStep(d)
  BY <1>3 DEF DeleteStep, DeleteBegin, DeletePurge, DeleteRefused,
     DeleteUnlink, DeleteCommit, DeleteAbort
<1>4. CASE WorkerCrash \/ UNCHANGED vars
  BY <1>4 DEF WorkerCrash, vars
<1> QED
  BY <1>1, <1>2, <1>3, <1>4 DEF Next

\* ready and failed are final but for a delete or a second delivery.
THEOREM TerminalStatusIsFinal == Spec => TerminalIsFinal
<1>1. TypeOK /\ LifecycleInv /\ [Next]_vars =>
        [\A d \in Documents :
           row[d] \in Terminal /\ row'[d] # row[d] =>
               row'[d] = "absent" \/ tries[d] > 1]_vars
  <2> SUFFICES ASSUME TypeOK, LifecycleInv, [Next]_vars,
                      NEW d \in Documents,
                      row[d] \in Terminal, row'[d] # row[d],
                      row'[d] # "absent"
               PROVE  tries[d] > 1
    OBVIOUS
  <2>1. StatusStep(d)
    BY StatusSteps
  <2>2. Running(d) /\ job[d] # "return"
    BY <2>1 DEF StatusStep, Terminal
  <2> QED
    BY <2>2 DEF LifecycleInv, TerminalOrder, Running, JobSteps
<1> QED
  BY <1>1, LifecycleInvariant, LifecycleTypeCorrect, PTL
     DEF Spec, TerminalIsFinal

\* A deleted document never reappears.
THEOREM DeletedStaysDeleted == Spec => NoResurrection
<1>1. TypeOK /\ LifecycleInv /\ [Next]_vars =>
        [\A d \in Documents :
           upload[d] = "committed" /\ row[d] = "absent" =>
               row'[d] = "absent"]_vars
  BY StatusSteps DEF StatusStep
<1> QED
  BY <1>1, LifecycleInvariant, LifecycleTypeCorrect, PTL
     DEF Spec, NoResurrection

-----------------------------------------------------------------------------
(* The refinement: what a step shows of the document it works on.          *)

\* Only document d changes what is shown, and it changes to status s.
ShownBecomes(d, s) ==
    /\ \A e \in Documents : e # d => Shown'[e] = Shown[e]
    /\ Shown'[d] = s

\* The changed status of one document, written as the catalog writes it.
LEMMA ShownExcept ==
    ASSUME NEW d \in Documents, NEW s, ShownBecomes(d, s)
    PROVE  Shown' = [Shown EXCEPT ![d] = s]
BY DEF ShownBecomes, Shown

\* A step that commits nothing shows nothing new.
LEMMA ShownSame ==
    ASSUME UNCHANGED row,
           \A e \in Documents :
               upload'[e] = "committed" <=> upload[e] = "committed"
    PROVE  Shown' = Shown
BY DEF Shown

\* A step of a job that writes status, or finds no row to write it to.
LEMMA WriteStatusShows ==
    ASSUME TypeOK, NEW d \in Documents,
           NEW status \in Progress \cup Terminal,
           WriteStatus(d, status), UNCHANGED upload
    PROVE  \/ Shown' = Shown
           \/ /\ Catalog!Listed(d)
              /\ Shown' = [Shown EXCEPT ![d] =
                             IF status \in Progress THEN "pending" ELSE status]
<1>1. CASE row[d] = "absent"
  <2>1. row' = row
    BY <1>1 DEF WriteStatus, TypeOK
  <2> QED BY <2>1 DEF Shown
<1>2. CASE row[d] # "absent"
  <2>1. Catalog!Listed(d)
    BY <1>2 DEF Catalog!Listed, Shown, TypeOK, Terminal, Progress
  <2>2. ShownBecomes(d, IF status \in Progress THEN "pending" ELSE status)
    BY <1>2 DEF ShownBecomes, Shown, WriteStatus, TypeOK, Terminal, Progress
  <2> QED BY <2>1, <2>2, ShownExcept
<1> QED BY <1>1, <1>2

\* Only a purge clears a document.
LEMMA ClearedSame ==
    ASSUME UNCHANGED purge
    PROVE  Cleared' = Cleared
BY DEF Cleared

\* A job that writes a progress status shows the document as pending, which
\* is a stutter or, in a second delivery, a Rework.
LEMMA ProgressShows ==
    ASSUME TypeOK, NEW d \in Documents, NEW status \in Progress,
           WriteStatus(d, status), UNCHANGED <<upload, vectors, purge>>
    PROVE  [Catalog!CatalogNext]_<<Shown, vectors, Cleared>>
<1>1. Cleared' = Cleared
  BY ClearedSame
<1>2. CASE Shown' = Shown
  BY <1>1, <1>2
<1>3. CASE Catalog!Listed(d) /\ Shown' = [Shown EXCEPT ![d] = "pending"]
  <2>1. CASE Shown[d] = "pending"
    <3>1. Shown' = Shown
      BY <1>3, <2>1 DEF Shown
    <3> QED BY <1>1, <3>1
  <2>2. CASE Shown[d] \in {"ready", "failed"}
    <3>1. Catalog!Rework(d)
      BY <1>1, <1>3, <2>2 DEF Catalog!Rework
    <3> QED BY <3>1 DEF Catalog!CatalogNext
  <2> QED BY <1>3, <2>1, <2>2 DEF Catalog!Listed
<1> QED
  BY <1>2, <1>3, WriteStatusShows

\* A step of upload_document is an Accept or changes nothing that is shown.
LEMMA UploadRefines ==
    ASSUME TypeOK, LifecycleInv, NEW d \in Documents,
           UploadStore(d) \/ UploadStep(d) \/ UploadFault(d)
    PROVE  [Catalog!CatalogNext]_<<Shown, vectors, Cleared>>
<1>1. UNCHANGED <<vectors, purge>>
  BY DEF UploadStep, UploadFault, UploadStore, UploadFlush, UploadFlushFails,
     UploadEnqueue, UploadEnqueueFails, UploadCommit, UploadCommitFails,
     UploadAbort
<1>2. CASE UploadCommit(d)
  <2>1. Shown[d] = "unseen"
    BY <1>2 DEF UploadCommit, LifecycleInv, UploadOrder, Shown, Progress,
       Terminal
  <2>2. ShownBecomes(d, "pending")
    BY <1>2 DEF UploadCommit, ShownBecomes, Shown, TypeOK, Progress
  <2>3. Catalog!Accept(d)
    BY <1>1, <2>1, <2>2, ShownExcept, ClearedSame DEF Catalog!Accept
  <2> QED BY <2>3 DEF Catalog!CatalogNext
<1>3. CASE ~UploadCommit(d)
  <2>1. /\ UNCHANGED row
        /\ upload[d] # "committed" /\ upload'[d] # "committed"
        /\ \A e \in Documents : e # d => upload'[e] = upload[e]
    BY <1>3 DEF TypeOK, UploadStep, UploadFault, UploadStore, UploadFlush,
       UploadFlushFails, UploadEnqueue, UploadEnqueueFails, UploadCommitFails,
       UploadAbort
  <2>2. Shown' = Shown
    BY <2>1, ShownSame
  <2> QED BY <1>1, <2>2, ClearedSame
<1> QED BY <1>2, <1>3

\* A step of ingest_document is a Rework, MakeQuotable, MakeReady or Fail.
LEMMA JobRefines ==
    ASSUME TypeOK, LifecycleInv, NEW d \in Documents,
           JobStart(d) \/ JobStep(d) \/ JobFault(d)
    PROVE  [Catalog!CatalogNext]_<<Shown, vectors, Cleared>>
<1>1. UNCHANGED <<upload, purge>> /\ Cleared' = Cleared
  <2>1. UNCHANGED <<upload, purge>>
    BY DEF apiVars, JobStep, JobFault, JobStart, JobDropped, FindDocument,
       FindDocumentFails, LocateFile, Parse, ParseFails, BeginEmbedding,
       CheckCollection, CreateCollection, Upsert, Publish, StepFails,
       RecordFailure, RecordFailureFails, JobFinish, JobTimeout
  <2> QED BY <2>1, ClearedSame
<1>2. CASE \E status \in Progress :
             WriteStatus(d, status) /\ UNCHANGED vectors
  BY <1>1, <1>2, ProgressShows
<1>3. CASE Upsert(d)
  <2>1. Shown' = Shown
    BY <1>1, <1>3, ShownSame DEF Upsert
  <2>2. upload[d] = "committed"
    BY <1>3 DEF Upsert, LifecycleInv, UploadOrder
  <2>3. Shown[d] # "unseen"
    BY <2>2 DEF Shown, TypeOK, Terminal
  <2>4. Catalog!MakeQuotable(d)
    BY <1>1, <1>3, <2>1, <2>3 DEF Upsert, Catalog!MakeQuotable
  <2> QED BY <2>4 DEF Catalog!CatalogNext
<1>4. CASE Publish(d)
  <2>1. d \in vectors \cup Cleared /\ UNCHANGED vectors
    BY <1>4 DEF Publish, LifecycleInv, PublishOrder, Cleared
  <2>2. CASE Shown' = Shown
    BY <1>1, <2>1, <2>2
  <2>3. CASE Catalog!Listed(d) /\ Shown' = [Shown EXCEPT ![d] = "ready"]
    <3>1. Catalog!MakeReady(d)
      BY <1>1, <2>1, <2>3 DEF Catalog!MakeReady
    <3> QED BY <3>1 DEF Catalog!CatalogNext
  <2> QED
    BY <1>1, <1>4, <2>2, <2>3, WriteStatusShows DEF Publish, Terminal, Progress
<1>5. CASE RecordFailure(d)
  <2>1. UNCHANGED vectors
    BY <1>5 DEF RecordFailure
  <2>2. CASE Shown' = Shown
    BY <1>1, <2>1, <2>2
  <2>3. CASE Catalog!Listed(d) /\ Shown' = [Shown EXCEPT ![d] = "failed"]
    <3>1. Catalog!Fail(d)
      BY <1>1, <2>1, <2>3 DEF Catalog!Fail
    <3> QED BY <3>1 DEF Catalog!CatalogNext
  <2> QED
    BY <1>1, <1>5, <2>2, <2>3, WriteStatusShows
    DEF RecordFailure, Terminal, Progress
<1>6. CASE UNCHANGED <<row, vectors>>
  BY <1>1, <1>6, ShownSame
<1>7. \/ \E status \in Progress : WriteStatus(d, status) /\ UNCHANGED vectors
      \/ Upsert(d) \/ Publish(d) \/ RecordFailure(d)
      \/ UNCHANGED <<row, vectors>>
  BY DEF JobStep, JobFault, JobStart, JobDropped, FindDocument,
     FindDocumentFails, LocateFile, Parse, ParseFails, BeginEmbedding,
     CheckCollection, CreateCollection, StepFails, RecordFailureFails,
     JobFinish, JobTimeout, Progress
<1> QED BY <1>2, <1>3, <1>4, <1>5, <1>6, <1>7

\* A step of delete_document is a Clear or a Remove.
LEMMA DeleteRefines ==
    ASSUME TypeOK, LifecycleInv, NEW d \in Documents,
           DeleteBegin(d) \/ DeleteStep(d) \/ DeleteAbort(d)
    PROVE  [Catalog!CatalogNext]_<<Shown, vectors, Cleared>>
<1>1. UNCHANGED upload
  BY DEF DeleteStep, DeleteBegin, DeletePurge, DeleteRefused, DeleteUnlink,
     DeleteCommit, DeleteAbort
<1>2. delete[d] # "none" => Catalog!Listed(d)
  BY DEF LifecycleInv, DeleteOrder, Catalog!Listed, Shown, TypeOK, Terminal
<1>3. CASE DeletePurge(d)
  <2>1. Shown' = Shown
    BY <1>1, <1>3, ShownSame DEF DeletePurge
  <2>2. Cleared' = Cleared \cup {d}
    BY <1>3 DEF DeletePurge, Cleared, TypeOK
  <2>3. Catalog!Clear(d)
    BY <1>2, <1>3, <2>1, <2>2 DEF DeletePurge, Catalog!Clear
  <2> QED BY <2>3 DEF Catalog!CatalogNext
<1>4. CASE DeleteCommit(d)
  <2>1. upload[d] = "committed" /\ d \in Cleared
    BY <1>4 DEF DeleteCommit, LifecycleInv, UploadOrder, DeleteOrder, Cleared
  <2>2. ShownBecomes(d, "deleted")
    BY <1>1, <1>4, <2>1
    DEF DeleteCommit, ShownBecomes, Shown, TypeOK, Progress, Terminal
  <2>3. Catalog!Remove(d)
    BY <1>2, <1>4, <2>1, <2>2, ShownExcept, ClearedSame
    DEF DeleteCommit, Catalog!Remove
  <2> QED BY <2>3 DEF Catalog!CatalogNext
<1>5. CASE ~(DeletePurge(d) \/ DeleteCommit(d))
  <2>1. UNCHANGED <<row, vectors, purge>>
    BY <1>5 DEF DeleteStep, DeleteBegin, DeleteRefused, DeleteUnlink,
       DeleteAbort
  <2> QED BY <1>1, <2>1, ShownSame, ClearedSame
<1> QED BY <1>3, <1>4, <1>5

\* Every behaviour of the handlers, under every fault, is one of the catalog.
THEOREM LifecycleImplementsCatalog == Spec => ImplementsCatalog
<1>1. Init => Catalog!CatalogInit
  BY DEF Init, Catalog!CatalogInit, Shown, Cleared, Progress, Terminal
<1>2. TypeOK /\ LifecycleInv /\ [Next]_vars =>
        [Catalog!CatalogNext]_<<Shown, vectors, Cleared>>
  <2> SUFFICES ASSUME TypeOK, LifecycleInv, [Next]_vars
               PROVE  [Catalog!CatalogNext]_<<Shown, vectors, Cleared>>
    OBVIOUS
  <2>1. CASE WorkerCrash \/ UNCHANGED vars
    <3>1. UNCHANGED <<upload, row, vectors, purge>>
      BY <2>1 DEF WorkerCrash, vars, apiVars
    <3> QED BY <3>1, ShownSame, ClearedSame
  <2> QED
    BY <2>1, UploadRefines, JobRefines, DeleteRefines DEF Next
<1> QED
  BY <1>1, <1>2, LifecycleInvariant, LifecycleTypeCorrect, PTL
  DEF Spec, ImplementsCatalog, Catalog!CatalogSpec, Catalog!catalog

=============================================================================
