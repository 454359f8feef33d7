-------------------------- MODULE ProcessorProofs --------------------------
(***************************************************************************)
(* Proofs about DocumentProcessor: the service's steps are steps of        *)
(* BatchProcessor, so all that BatchProofs shows of batches holds of the   *)
(* service; and what every run, batch and background task may rely on.     *)
(***************************************************************************)
EXTENDS DocumentProcessor, BatchProofs

\* Where the row and the file of a request are, step by step.
RequestsAreStored ==
  \A d \in Docs : /\ upload[d] = "saved" => d \in files
                  /\ upload[d] = "inserted" => d \in rows

\* Everything that points at a document points at one with a row.
PointersAreStored ==
  /\ \A r \in BackgroundTasks : queue[r] # NoDoc => queue[r] \in rows
  /\ \A r \in Runs : target[r] # NoDoc => target[r] \in rows
  /\ \A d \in Docs : member[d] # NoBatch => d \in rows
  /\ \A b \in Batches : ids[b] \subseteq rows

StoredInv == RequestsAreStored /\ rows \subseteq files /\ PointersAreStored

\* A run that may be why the row of its document is in progress.
Explains(r) == phase[r] \in InProgress \cup {"raised", "cut"}

\* Sharper than InProgressIsExplained: a run that has made its last commit does
\* not explain, for another one must have written the row since.
ExplainedInv ==
  \A d \in Docs : status[d] \in InProgress => \E r \in Runs : target[r] = d /\ Explains(r)

-----------------------------------------------------------------------------
(* Types, and the steps of the service as steps of BatchProcessor *)

LEMMA ApiTypesNext == ApiTypeOK /\ [Next]_vars => ApiTypeOK'
<1> SUFFICES ASSUME ApiTypeOK, [Next]_vars PROVE ApiTypeOK'
  OBVIOUS
<1> USE DEF ApiTypeOK, Upload
<1>1. CASE UNCHANGED apiVars
  BY <1>1 DEF apiVars
<1>2. ASSUME NEW d \in Docs,
             SaveFile(d) \/ InsertRow(d) \/ UploadFails(d) \/ AnswerUpload(d)
      PROVE  ApiTypeOK'
  <2>1. CASE SaveFile(d) \/ InsertRow(d) \/ UploadFails(d)
    BY <2>1 DEF SaveFile, InsertRow, UploadFails, Reach
  <2>2. CASE AnswerUpload(d)
    BY <2>2 DEF AnswerUpload, Reach, Schedule
  <2> QED
    BY <1>2, <2>1, <2>2
<1>3. ASSUME NEW r \in BackgroundTasks, NEW d \in Docs, ProcessRequest(r, d)
      PROVE  ApiTypeOK'
  BY <1>3 DEF ProcessRequest, Schedule
<1>4. ASSUME NEW r \in BackgroundTasks, BeginBackground(r) PROVE ApiTypeOK'
  BY <1>4 DEF BeginBackground
<1>5. CASE Stop
  BY <1>5 DEF Stop
<1> QED
  BY <1>1, <1>2, <1>3, <1>4, <1>5 DEF Next, Request, BatchRequest, Work, vars

\* Every reachable state of the API is well-typed.
THEOREM ApiTypeCorrect == Spec => []ApiTypeOK
<1>1. Init => ApiTypeOK
  BY DEF Init, ApiInit, ApiTypeOK, Upload
<1> QED
  BY <1>1, ApiTypesNext, PTL DEF Spec

LEMMA ServiceSteps ==
  ASSUME ApiTypeOK, [Next]_vars
  PROVE  [ProcessorNext]_processorVars
<1>1. ASSUME NEW d \in Docs,
             SaveFile(d) \/ InsertRow(d) \/ UploadFails(d) \/ AnswerUpload(d)
      PROVE  UNCHANGED processorVars
  BY <1>1 DEF SaveFile, InsertRow, UploadFails, AnswerUpload
<1>2. ASSUME NEW r \in BackgroundTasks, NEW d \in Docs, ProcessRequest(r, d)
      PROVE  UNCHANGED processorVars
  BY <1>2 DEF ProcessRequest
<1>3. ASSUME NEW docs \in SUBSET Docs \ {{}}, BatchRequest(docs) PROVE ProcessorNext
  BY <1>3 DEF BatchRequest, ProcessorNext
<1>4. ASSUME NEW r \in BackgroundTasks, BeginBackground(r) PROVE ProcessorNext
  <2>1. r \in Runs /\ queue[r] \in Docs /\ Background(r, queue[r])
    BY <1>4 DEF BeginBackground, Background, BackgroundTasks, ApiTypeOK
  <2> QED
    BY <2>1 DEF ProcessorNext
<1>5. ASSUME NEW r \in Runs, Work(r) PROVE ProcessorNext
  BY <1>5 DEF Work, ProcessorNext
<1>6. CASE BatchStep
  BY <1>6 DEF ProcessorNext
<1>7. CASE Stop
  BY <1>7 DEF Stop, ProcessorNext
<1>8. CASE UNCHANGED vars
  BY <1>8 DEF vars
<1>9. ASSUME NEW r \in Runs, BackgroundFails(r) PROVE ProcessorNext
  BY <1>9 DEF ProcessorNext
<1> QED
  BY <1>1, <1>2, <1>3, <1>4, <1>5, <1>6, <1>7, <1>8, <1>9 DEF Next, Request

\* The service implements the batch processor: a batch request only ever submits
\* documents, and a background task only ever begins a run, as BatchProcessor
\* lets any caller do.
THEOREM ServiceImplementsBatches == Spec => ProcessorSpec
<1>1. Init => ProcessorInit
  BY DEF Init
<1>2. ApiTypeOK /\ [Next]_vars => [ProcessorNext]_processorVars
  BY ServiceSteps
<1> QED
  BY <1>1, <1>2, ApiTypeCorrect, PTL DEF Spec, ProcessorSpec

LEMMA ServiceInvariant == Spec => [](ApiTypeOK /\ BatchInv)
  BY ApiTypeCorrect, ServiceImplementsBatches, BatchInvariant, PTL

-----------------------------------------------------------------------------
(* Stored documents *)

LEMMA StoredInit == Init => StoredInv
<1> SUFFICES ASSUME Init PROVE StoredInv
  OBVIOUS
<1> QED
  BY TaskPairs
  DEF Init, ApiInit, ProcessorInit, LifecycleInit, BatchInit, StoredInv, RequestsAreStored,
      PointersAreStored

\* What the steps of runs and batches leave alone is enough.
LEMMA PointersStand ==
  ASSUME StoredInv, ApiTypeOK, BatchInv, UNCHANGED apiVars,
         \A r \in Runs : target'[r] = target[r] \/ target'[r] \in rows,
         \A d \in Docs : member'[d] = member[d] \/ d \in rows,
         \A b \in Batches : ids'[b] = ids[b] \/ ids'[b] \subseteq rows
  PROVE  StoredInv'
<1>1. RequestsAreStored' /\ rows' \subseteq files'
  BY DEF apiVars, StoredInv, RequestsAreStored
<1>2. PointersAreStored'
  BY DEF apiVars, StoredInv, PointersAreStored
<1> QED
  BY <1>1, <1>2 DEF StoredInv

LEMMA BatchesKeepStored ==
  ASSUME StoredInv, ApiTypeOK, BatchInv, BatchStep, UNCHANGED apiVars
  PROVE  StoredInv'
<1>1. ASSUME NEW b \in Batches, LoadBatch(b) PROVE StoredInv'
  <2>1. {d \in Docs : member[d] = b} \subseteq rows
    BY NoBatchAssumption DEF StoredInv, PointersAreStored
  <2>2. /\ UNCHANGED <<target, member>>
        /\ \A c \in Batches : ids'[c] = ids[c] \/ ids'[c] \subseteq rows
    BY <1>1, <2>1 DEF LoadBatch, lifecycleVars, BatchInv, TaskInv, BatchTypes
  <2> QED
    BY <2>2, PointersStand
<1>2. ASSUME NEW b \in Batches, NEW t \in TasksOf(b), Acquire(t) PROVE StoredInv'
  <2>1. t \in Runs /\ t[2] \in rows
    BY <1>2, TaskPairs DEF TasksOf, StoredInv, PointersAreStored
  <2>2. /\ UNCHANGED <<member, ids>>
        /\ \A r \in Runs : target'[r] = target[r] \/ target'[r] \in rows
    BY <1>2, <2>1 DEF Acquire, Begin, BatchInv, TaskInv, RunInv, LifecycleTypes
  <2> QED
    BY <2>2, PointersStand
<1>3. CASE UNCHANGED <<target, member, ids>>
  BY <1>3, PointersStand
<1> QED
  BY <1>1, <1>2, <1>3
  DEF BatchStep, Drive, MarkRunning, Finalize, Release, Abort, Timeout, CutOff, ReloadFails,
      lifecycleVars, batchVars

LEMMA StoredNext ==
  ASSUME StoredInv, ApiTypeOK, BatchInv, [Next]_vars
  PROVE  StoredInv'
<1>1. ASSUME NEW d \in Docs,
             SaveFile(d) \/ InsertRow(d) \/ UploadFails(d) \/ AnswerUpload(d)
      PROVE  StoredInv'
  <2>1. UNCHANGED <<target, member, ids>>
    BY <1>1
    DEF SaveFile, InsertRow, UploadFails, AnswerUpload, processorVars, lifecycleVars, batchVars
  <2>2. RequestsAreStored'
    BY <1>1
    DEF SaveFile, InsertRow, UploadFails, AnswerUpload, Reach, StoredInv, RequestsAreStored,
        ApiTypeOK
  <2>3. rows' \subseteq files' /\ rows \subseteq rows'
    BY <1>1
    DEF SaveFile, InsertRow, UploadFails, AnswerUpload, Reach, StoredInv, RequestsAreStored
  <2>4. \A r \in BackgroundTasks : queue'[r] # NoDoc => queue'[r] \in rows'
    <3>1. CASE UNCHANGED queue
      BY <2>3, <3>1 DEF StoredInv, PointersAreStored
    <3>2. CASE AnswerUpload(d)
      <4>1. d \in rows
        BY <3>2 DEF AnswerUpload, Reach, StoredInv, RequestsAreStored
      <4> QED
        BY <2>3, <3>2, <4>1 DEF AnswerUpload, Schedule, StoredInv, PointersAreStored, ApiTypeOK
    <3> QED
      BY <1>1, <3>1, <3>2 DEF SaveFile, InsertRow, UploadFails
  <2> QED
    BY <2>1, <2>2, <2>3, <2>4 DEF StoredInv, PointersAreStored
<1>2. ASSUME NEW r \in BackgroundTasks, NEW d \in Docs, ProcessRequest(r, d)
      PROVE  StoredInv'
  <2>1. d \in rows /\ queue' = [queue EXCEPT ![r] = d]
        /\ UNCHANGED <<upload, files, rows, target, member, ids>>
    BY <1>2 DEF ProcessRequest, HasRow, Schedule, processorVars, lifecycleVars, batchVars
  <2> QED
    BY <2>1 DEF StoredInv, RequestsAreStored, PointersAreStored, ApiTypeOK
<1>3. ASSUME NEW docs \in SUBSET Docs \ {{}}, BatchRequest(docs) PROVE StoredInv'
  <2>1. PICK b \in Batches : Submit(b, docs)
    BY <1>3 DEF BatchRequest, SomeBatch
  <2>2. /\ UNCHANGED <<target, ids, apiVars>>
        /\ \A d \in Docs : member'[d] = member[d] \/ d \in rows
    BY <1>3, <2>1 DEF BatchRequest, Submit, lifecycleVars
  <2> QED
    BY <2>2, PointersStand
<1>4. ASSUME NEW r \in BackgroundTasks, BeginBackground(r) PROVE StoredInv'
  <2>1. /\ queue[r] \in rows /\ target' = [target EXCEPT ![r] = queue[r]]
        /\ queue' = [queue EXCEPT ![r] = NoDoc]
        /\ UNCHANGED <<upload, files, rows, member, ids>>
    BY <1>4 DEF BeginBackground, Begin, batchVars, StoredInv, PointersAreStored
  <2> QED
    BY <2>1
    DEF StoredInv, RequestsAreStored, PointersAreStored, ApiTypeOK, BatchInv, TaskInv, RunInv,
        LifecycleTypes
<1>5. ASSUME NEW r \in Runs, Work(r) PROVE StoredInv'
  <2>1. UNCHANGED <<target, member, ids, apiVars>>
    BY <1>5, AdvanceEffect DEF Work, Pipeline, batchVars, BatchInv, TaskInv, RunInv
  <2> QED
    BY <2>1, PointersStand
<1>6. CASE BatchStep /\ UNCHANGED apiVars
  BY <1>6, BatchesKeepStored
<1>7. CASE Stop
  <2>1. /\ UNCHANGED <<target, member, ids, files, rows>>
        /\ queue' = [r \in BackgroundTasks |-> NoDoc]
        /\ \A d \in Docs : upload'[d] \notin {"saved", "inserted"}
    BY <1>7 DEF Stop, Crash
  <2> QED
    BY <2>1 DEF StoredInv, RequestsAreStored, PointersAreStored
<1>8. CASE UNCHANGED vars
  BY <1>8, PointersStand DEF vars, processorVars, lifecycleVars, batchVars
<1>9. ASSUME NEW r \in Runs, BackgroundFails(r), UNCHANGED apiVars PROVE StoredInv'
  BY <1>9, PointersStand DEF BackgroundFails, CutOff, batchVars
<1> QED
  BY <1>1, <1>2, <1>3, <1>4, <1>5, <1>6, <1>7, <1>8, <1>9 DEF Next, Request

\* Whatever fails in between, every scheduled, batched or running document has a
\* committed row, and every row its file.
THEOREM WorkIsStored == Spec => []WorkIsOnStoredDocuments
<1>1. StoredInv /\ ApiTypeOK /\ BatchInv /\ [Next]_vars => StoredInv'
  BY StoredNext
<1>2. StoredInv /\ BatchInv => WorkIsOnStoredDocuments
  BY DEF StoredInv, PointersAreStored, WorkIsOnStoredDocuments, Running, BatchInv, TaskInv,
         RunInv
<1> QED
  BY <1>1, <1>2, StoredInit, ServiceInvariant, PTL DEF Spec

-----------------------------------------------------------------------------
(* Statuses that mean something *)

StatusInv == ExplainedInv /\ UploadedMeansUntouched

\* What a step of a run does to the status of its document.
LEMMA AdvanceStatus ==
  ASSUME RunInv, NEW r \in Runs, Advance(r),
         status[target[r]] = "uploaded" => phase[r] \in {"started", "loaded", "cut"}
  PROVE  LET new == status'[target[r]]
         IN  /\ new \in InProgress =>
                  Explains(r)' \/ (~Explains(r) /\ new = status[target[r]])
             /\ new = "uploaded" => /\ status[target[r]] = "uploaded"
                                    /\ phase'[r] \in {"started", "loaded", "cut"}
<1>1. target[r] \in Docs
  BY AdvanceEffect DEF RunInv, LifecycleTypes, Running
<1> USE <1>1 DEF RunInv, LifecycleTypes, Move, Commit, Explains, InProgress
<1>2. CASE ReadRow(r)
  BY <1>2 DEF ReadRow
<1>3. CASE EnterPreprocess(r)
  BY <1>3 DEF EnterPreprocess
<1>4. CASE EnterExtract(r) \/ EnterValidate(r)
  BY <1>4 DEF EnterExtract, EnterValidate
<1>5. CASE Complete(r) \/ GiveUp(r)
  BY <1>5 DEF Complete, GiveUp
<1>6. CASE RaiseError(r)
  BY <1>6 DEF RaiseError
<1>7. CASE ReturnDocument(r)
  BY <1>7 DEF ReturnDocument
<1> QED
  BY <1>2, <1>3, <1>4, <1>5, <1>6, <1>7 DEF Advance

LEMMA AdvanceKeepsStatusInv ==
  ASSUME RunInv, StatusInv, NEW r \in Runs, Advance(r)
  PROVE  StatusInv'
<1>1. /\ target' = target /\ target[r] \in Docs
      /\ \A q \in Runs \ {r} : phase'[q] = phase[q]
      /\ \A d \in Docs \ {target[r]} : status'[d] = status[d]
  BY AdvanceEffect DEF RunInv, LifecycleTypes, Running
<1>2. status[target[r]] = "uploaded" => phase[r] \in {"started", "loaded", "cut"}
  BY <1>1 DEF StatusInv, UploadedMeansUntouched
<1>3. LET new == status'[target[r]]
      IN  /\ new \in InProgress =>
               Explains(r)' \/ (~Explains(r) /\ new = status[target[r]])
          /\ new = "uploaded" => /\ status[target[r]] = "uploaded"
                                 /\ phase'[r] \in {"started", "loaded", "cut"}
  BY <1>2, AdvanceStatus
<1>4. ASSUME NEW d \in Docs, status'[d] \in InProgress
      PROVE  \E q \in Runs : target'[q] = d /\ Explains(q)'
  <2>1. CASE d = target[r] /\ Explains(r)'
    BY <1>1, <2>1
  <2>2. CASE ~(d = target[r] /\ Explains(r)')
    <3>1. status'[d] = status[d] /\ (d = target[r] => ~Explains(r))
      BY <1>1, <1>3, <1>4, <2>2
    <3>2. PICK q \in Runs : target[q] = d /\ Explains(q)
      BY <1>4, <3>1 DEF StatusInv, ExplainedInv
    <3>3. q # r
      BY <3>1, <3>2
    <3> QED
      BY <1>1, <3>2, <3>3 DEF Explains
  <2> QED
    BY <2>1, <2>2
<1>5. ASSUME NEW d \in Docs, status'[d] = "uploaded", NEW q \in Runs, target'[q] = d
      PROVE  phase'[q] \in {"started", "loaded", "cut"}
  <2>1. status[d] = "uploaded"
    BY <1>1, <1>3, <1>5
  <2>2. CASE q = r
    BY <1>1, <1>3, <1>5, <2>2
  <2>3. CASE q # r
    BY <1>1, <1>5, <2>1, <2>3 DEF StatusInv, UploadedMeansUntouched
  <2> QED
    BY <2>2, <2>3
<1> QED
  BY <1>4, <1>5 DEF StatusInv, ExplainedInv, UploadedMeansUntouched

LEMMA BeginKeepsStatusInv ==
  ASSUME RunInv, StatusInv, NEW r \in Runs, NEW d \in Docs, Begin(r, d)
  PROVE  StatusInv'
<1>1. /\ status' = status /\ target[r] = NoDoc /\ phase'[r] = "started"
      /\ \A q \in Runs \ {r} : phase'[q] = phase[q] /\ target'[q] = target[q]
  BY DEF Begin, Move, RunInv, LifecycleTypes
<1>2. ASSUME NEW c \in Docs, status'[c] \in InProgress
      PROVE  \E q \in Runs : target'[q] = c /\ Explains(q)'
  <2>1. PICK q \in Runs : target[q] = c /\ Explains(q)
    BY <1>1, <1>2 DEF StatusInv, ExplainedInv
  <2>2. q # r
    BY <1>1, <2>1, NoDocumentAssumption
  <2> QED
    BY <1>1, <2>1, <2>2 DEF Explains
<1>3. UploadedMeansUntouched'
  BY <1>1 DEF StatusInv, UploadedMeansUntouched
<1> QED
  BY <1>2, <1>3 DEF StatusInv, ExplainedInv

LEMMA CutsKeepStatusInv ==
  ASSUME StatusInv, CutsOff
  PROVE  StatusInv'
BY DEF StatusInv, ExplainedInv, UploadedMeansUntouched, CutsOff, Explains

LEMMA StatusNext == RunInv /\ StatusInv /\ [ProcessorNext]_processorVars => StatusInv'
<1> SUFFICES ASSUME RunInv, StatusInv, [ProcessorNext]_processorVars PROVE StatusInv'
  OBVIOUS
<1>1. CASE UNCHANGED lifecycleVars
  BY <1>1 DEF lifecycleVars, StatusInv, ExplainedInv, UploadedMeansUntouched, Explains
<1>2. ASSUME NEW t \in Tasks, Acquire(t) PROVE StatusInv'
  BY <1>2, TaskPairs, BeginKeepsStatusInv DEF Acquire
<1>3. ASSUME NEW t \in Tasks, Timeout(t) PROVE StatusInv'
  BY <1>3, TaskPairs, CutOffCuts, CutsKeepStatusInv DEF Timeout, RunInv
<1>4. CASE BatchStep
  BY <1>1, <1>2, <1>3, <1>4
  DEF BatchStep, Drive, LoadBatch, MarkRunning, Finalize, Release, Abort, ReloadFails, TasksOf
<1>5. ASSUME NEW r \in Runs, Pipeline(r) PROVE StatusInv'
  BY <1>5, AdvanceKeepsStatusInv DEF Pipeline
<1>6. ASSUME NEW r \in Runs, NEW d \in Docs, Background(r, d) PROVE StatusInv'
  BY <1>6, BeginKeepsStatusInv DEF Background
<1>7. CASE Crash
  BY <1>7, CrashCuts, CutsKeepStatusInv DEF RunInv
<1>8. ASSUME NEW r \in Runs, BackgroundFails(r) PROVE StatusInv'
  BY <1>8, CutOffCuts, CutsKeepStatusInv DEF BackgroundFails, RunInv
<1> QED
  BY <1>1, <1>4, <1>5, <1>6, <1>7, <1>8 DEF ProcessorNext, SomeBatch, Submit, processorVars

LEMMA StatusInvariant == Spec => []StatusInv
<1>1. ProcessorInit => StatusInv
  BY NoDocumentAssumption
  DEF ProcessorInit, LifecycleInit, StatusInv, ExplainedInv, UploadedMeansUntouched, InProgress
<1> QED
  BY <1>1, StatusNext, RunInvariant, ServiceImplementsBatches, PTL DEF ProcessorSpec

\* A document in progress has a run that is alive, raised or was cut off, however
\* many requests and batches work on it.
THEOREM ProgressIsExplained == Spec => []InProgressIsExplained
<1>1. StatusInv => InProgressIsExplained
  BY DEF StatusInv, ExplainedInv, InProgressIsExplained, Explains, Running, InProgress, Outcome
<1> QED
  BY <1>1, StatusInvariant, PTL

\* Nothing takes a document back to "uploaded", and no run has it there after its
\* first commit.
THEOREM UploadedIsUntouched == Spec => []UploadedMeansUntouched
  BY StatusInvariant, PTL DEF StatusInv
=============================================================================
