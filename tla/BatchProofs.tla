---------------------------- MODULE BatchProofs ----------------------------
(***************************************************************************)
(* Proofs about BatchProcessor, for any number of batches and background   *)
(* runs over any finite set of documents: what the runs that a batch made  *)
(* left in the rows (RunInv), and what run() makes of it (BatchInv).       *)
(***************************************************************************)
EXTENDS BatchProcessor, FiniteSetTheorems, TLAPS

\* Nobody but t ever worked on the document of t.
Alone(t) == \A r \in Runs \ {t} : target[r] # t[2]

\* What the row of a document says when only one run, in phase p, touched it.
Consistent(p, s) ==
  /\ p # "resumed"
  /\ p \in {"idle", "started", "loaded"} => s = "uploaded"
  /\ p \in InProgress => s = p
  /\ p \in {"ready", "succeeded"} => s = "ready"
  /\ p \in {"failed", "unsuccessful"} => s = "failed"
  /\ p = "raised" => s \in InProgress

LifecycleTypes ==
  /\ status \in [Docs -> DocumentStatus]
  /\ phase \in [Runs -> Phase]
  /\ target \in [Runs -> Docs \cup {NoDoc}]

RunInv ==
  /\ LifecycleTypes
  /\ \A r \in Runs : phase[r] = "idle" <=> target[r] = NoDoc
  /\ \A t \in Tasks : target[t] \in {NoDoc, t[2]}
  /\ \A t \in Tasks : Alone(t) => Consistent(phase[t], status[t[2]])

LEMMA TaskPairs ==
  \A t \in Tasks : t \in Runs /\ t = <<t[1], t[2]>> /\ t[1] \in Batches /\ t[2] \in Docs
BY BatchRunsAssumption DEF Tasks

-----------------------------------------------------------------------------
(* Steps of runs *)

\* What a step of one run may do to rows and runs.
LEMMA AdvanceEffect ==
  ASSUME LifecycleTypes, NEW r \in Runs, Advance(r)
  PROVE  /\ Running(r) /\ target' = target /\ LifecycleTypes'
         /\ phase'[r] \notin {"idle", "started", "cut"}
         /\ \A q \in Runs \ {r} : phase'[q] = phase[q]
         /\ \A d \in Docs \ {target[r]} : status'[d] = status[d]
<1> USE DEF LifecycleTypes, Move, Commit, Running, Outcome, Phase, DocumentStatus, InProgress, Settled
<1>1. CASE ReadRow(r)
  BY <1>1 DEF ReadRow
<1>2. CASE EnterPreprocess(r)
  BY <1>2 DEF EnterPreprocess
<1>3. CASE EnterExtract(r)
  BY <1>3 DEF EnterExtract
<1>4. CASE EnterValidate(r)
  BY <1>4 DEF EnterValidate
<1>5. CASE Complete(r)
  BY <1>5 DEF Complete
<1>6. CASE GiveUp(r)
  BY <1>6 DEF GiveUp
<1>7. CASE RaiseError(r)
  BY <1>7 DEF RaiseError
<1>8. CASE ReturnDocument(r)
  BY <1>8 DEF ReturnDocument
<1> QED
  BY <1>1, <1>2, <1>3, <1>4, <1>5, <1>6, <1>7, <1>8 DEF Advance

\* A run alone on its document keeps row and phase consistent.
LEMMA AdvanceConsistently ==
  ASSUME LifecycleTypes, NEW r \in Runs, Advance(r), target[r] \in Docs,
         Consistent(phase[r], status[target[r]])
  PROVE  Consistent(phase'[r], status'[target[r]])
<1> USE DEF LifecycleTypes, Move, Commit, Consistent, Outcome, Phase, DocumentStatus, InProgress, Settled
<1>1. CASE ReadRow(r)
  BY <1>1 DEF ReadRow
<1>2. CASE EnterPreprocess(r)
  BY <1>2 DEF EnterPreprocess
<1>3. CASE EnterExtract(r)
  BY <1>3 DEF EnterExtract
<1>4. CASE EnterValidate(r)
  BY <1>4 DEF EnterValidate
<1>5. CASE Complete(r)
  BY <1>5 DEF Complete
<1>6. CASE GiveUp(r)
  BY <1>6 DEF GiveUp
<1>7. CASE RaiseError(r)
  BY <1>7 DEF RaiseError
<1>8. CASE ReturnDocument(r)
  BY <1>8 DEF ReturnDocument
<1> QED
  BY <1>1, <1>2, <1>3, <1>4, <1>5, <1>6, <1>7, <1>8 DEF Advance

LEMMA AdvanceKeepsRunInv ==
  ASSUME RunInv, NEW r \in Runs, Advance(r)
  PROVE  RunInv'
<1>1. /\ Running(r) /\ target' = target /\ LifecycleTypes'
      /\ phase'[r] \notin {"idle", "started", "cut"}
      /\ \A q \in Runs \ {r} : phase'[q] = phase[q]
      /\ \A d \in Docs \ {target[r]} : status'[d] = status[d]
  BY AdvanceEffect DEF RunInv
<1>2. \A q \in Runs : phase'[q] = "idle" <=> target'[q] = NoDoc
  BY <1>1 DEF RunInv, Running
<1>3. \A t \in Tasks : target'[t] \in {NoDoc, t[2]}
  BY <1>1 DEF RunInv
<1>4. ASSUME NEW t \in Tasks, Alone(t)'
      PROVE  Consistent(phase'[t], status'[t[2]])
  <2>1. Alone(t) /\ t \in Runs /\ t[2] \in Docs /\ Consistent(phase[t], status[t[2]])
    BY <1>1, <1>4, TaskPairs DEF Alone, RunInv
  <2>2. CASE t = r
    <3>1. target[t] = t[2]
      BY <1>1, <2>1, <2>2 DEF RunInv, Running
    <3> QED
      BY <2>1, <2>2, <3>1, AdvanceConsistently DEF RunInv
  <2>3. CASE t # r
    <3>1. target[r] # t[2]
      BY <2>1, <2>3 DEF Alone
    <3> QED
      BY <1>1, <2>1, <2>3, <3>1
  <2> QED
    BY <2>2, <2>3
<1> QED
  BY <1>1, <1>2, <1>3, <1>4 DEF RunInv

LEMMA BeginKeepsRunInv ==
  ASSUME RunInv, NEW r \in Runs, NEW d \in Docs, Begin(r, d), r \in Tasks => d = r[2]
  PROVE  RunInv'
<1>1. /\ status' = status /\ phase[r] = "idle" /\ target[r] = NoDoc
      /\ phase' = [phase EXCEPT ![r] = "started"] /\ target' = [target EXCEPT ![r] = d]
  BY DEF Begin, Move, RunInv
<1>2. LifecycleTypes'
  BY <1>1 DEF RunInv, LifecycleTypes, Phase
<1>3. \A q \in Runs : phase'[q] = "idle" <=> target'[q] = NoDoc
  BY <1>1, NoDocumentAssumption DEF RunInv, LifecycleTypes
<1>4. \A t \in Tasks : target'[t] \in {NoDoc, t[2]}
  BY <1>1, TaskPairs DEF RunInv, LifecycleTypes
<1>5. ASSUME NEW t \in Tasks, Alone(t)'
      PROVE  Consistent(phase'[t], status'[t[2]])
  <2>1. Alone(t) /\ t \in Runs /\ Consistent(phase[t], status[t[2]])
    BY <1>1, <1>5, TaskPairs, NoDocumentAssumption DEF Alone, RunInv, LifecycleTypes
  <2> QED
    BY <1>1, <2>1 DEF Consistent, RunInv, LifecycleTypes, InProgress
<1> QED
  BY <1>2, <1>3, <1>4, <1>5 DEF RunInv

\* A timeout cuts one run off and a stop of the server cuts all of them.
CutsOff ==
  /\ phase' \in [Runs -> Phase]
  /\ \A r \in Runs : phase'[r] = phase[r] \/ (Running(r) /\ phase'[r] = "cut")
  /\ UNCHANGED <<status, target>>

LEMMA CutsKeepRunInv ==
  ASSUME RunInv, CutsOff
  PROVE  RunInv'
<1>1. LifecycleTypes'
  BY DEF RunInv, LifecycleTypes, CutsOff
<1>2. \A q \in Runs : phase'[q] = "idle" <=> target'[q] = NoDoc
  BY DEF RunInv, CutsOff, Running
<1>3. \A t \in Tasks : Alone(t)' => Consistent(phase'[t], status'[t[2]])
  BY TaskPairs DEF RunInv, CutsOff, Consistent, Alone, InProgress
<1> QED
  BY <1>1, <1>2, <1>3 DEF RunInv, CutsOff

LEMMA CutOffCuts ==
  ASSUME LifecycleTypes, NEW r \in Runs, CutOff(r)
  PROVE  CutsOff
BY DEF LifecycleTypes, CutOff, CutsOff, Phase, Outcome

LEMMA CrashCuts ==
  ASSUME LifecycleTypes, Crash
  PROVE  CutsOff
BY DEF LifecycleTypes, Crash, CutsOff, Phase, Outcome

LEMMA RunsInit == ProcessorInit => RunInv
<1> SUFFICES ASSUME ProcessorInit PROVE RunInv
  OBVIOUS
<1>1. LifecycleTypes
  BY DEF ProcessorInit, LifecycleInit, LifecycleTypes, Phase, DocumentStatus, InProgress, Settled
<1> QED
  BY <1>1, TaskPairs
  DEF ProcessorInit, LifecycleInit, RunInv, Consistent, InProgress

\* The steps of BatchProcessor that leave all runs alone.
LEMMA RunsNext == RunInv /\ [ProcessorNext]_processorVars => RunInv'
<1> SUFFICES ASSUME RunInv, [ProcessorNext]_processorVars PROVE RunInv'
  OBVIOUS
<1>1. CASE UNCHANGED lifecycleVars
  BY <1>1 DEF lifecycleVars, RunInv, LifecycleTypes, Alone, Consistent
<1>2. ASSUME NEW docs, SomeBatch(docs) PROVE RunInv'
  BY <1>1, <1>2 DEF SomeBatch, Submit
<1>3. ASSUME NEW b \in Batches, Drive(b) \/ Abort(b) PROVE RunInv'
  <2>1. CASE LoadBatch(b) \/ MarkRunning(b) \/ Finalize(b) \/ Abort(b)
    BY <1>1, <2>1 DEF LoadBatch, MarkRunning, Finalize, Abort
  <2>2. ASSUME NEW t \in TasksOf(b), Acquire(t) PROVE RunInv'
    BY <2>2, BeginKeepsRunInv, TaskPairs DEF Acquire, TasksOf
  <2>3. ASSUME NEW t \in TasksOf(b), Release(t) PROVE RunInv'
    BY <1>1, <2>3 DEF Release
  <2> QED
    BY <1>3, <2>1, <2>2, <2>3 DEF Drive
<1>4. ASSUME NEW t \in Tasks, Timeout(t) \/ ReloadFails(t) PROVE RunInv'
  <2>1. CASE Timeout(t)
    BY <2>1, CutOffCuts, CutsKeepRunInv, TaskPairs DEF Timeout, RunInv
  <2>2. CASE ReloadFails(t)
    BY <1>1, <2>2 DEF ReloadFails
  <2> QED
    BY <1>4, <2>1, <2>2
<1>5. ASSUME NEW r \in Runs, Pipeline(r) PROVE RunInv'
  BY <1>5, AdvanceKeepsRunInv DEF Pipeline
<1>6. ASSUME NEW r \in Runs, NEW d \in Docs, Background(r, d) PROVE RunInv'
  BY <1>6, BeginKeepsRunInv DEF Background
<1>9. ASSUME NEW r \in Runs, BackgroundFails(r) PROVE RunInv'
  BY <1>9, CutOffCuts, CutsKeepRunInv DEF BackgroundFails, RunInv
<1>7. CASE Crash
  BY <1>7, CrashCuts, CutsKeepRunInv DEF RunInv
<1>8. CASE UNCHANGED processorVars
  BY <1>1, <1>8 DEF processorVars
<1> QED
  BY <1>2, <1>3, <1>4, <1>5, <1>6, <1>7, <1>8, <1>9 DEF ProcessorNext, BatchStep

LEMMA RunInvariant == ProcessorSpec => []RunInv
  BY RunsInit, RunsNext, PTL DEF ProcessorSpec

-----------------------------------------------------------------------------
(* Tasks of batches *)

\* A task exists from MarkRunning on, for a document of its batch, and is over
\* when its batch is.
TasksFollow ==
  \A t \in Tasks :
    /\ flow[t[1]] \in {"none", "submitted", "loaded"} => task[t] = "none"
    /\ flow[t[1]] = "over" => task[t] \in {"none", "succeeded", "failed"}
    /\ task[t] # "none" => t[2] \in ids[t[1]]

\* A run of a batch lives inside a slot of the semaphore.
RunsAreHeld == \A t \in Tasks : Running(t) => task[t] = "holding"

SlotsBounded == \A b \in Batches : Cardinality(In(b, "holding")) <= Cap

\* The result of a task that was alone on its document is that of its run.
ResultsTell ==
  \A t \in Tasks :
    /\ task[t] \in {"succeeded", "failed"} => phase[t] \in Outcome
    /\ Alone(t) => /\ task[t] = "succeeded" => phase[t] = "succeeded"
                   /\ task[t] = "failed" => phase[t] # "succeeded"

BatchTypes ==
  /\ batch \in [Batches -> Batch]
  /\ member \in [Docs -> Batches \cup {NoBatch}]
  /\ flow \in [Batches -> Flow]
  /\ ids \in [Batches -> SUBSET Docs]
  /\ task \in [Tasks -> TaskState]

TaskInv == RunInv /\ BatchTypes /\ TasksFollow /\ RunsAreHeld /\ SlotsBounded /\ ResultsTell

LEMMA TasksOfAreFinite ==
  ASSUME ids \in [Batches -> SUBSET Docs], NEW b \in Batches
  PROVE  /\ IsFiniteSet(ids[b]) /\ Cardinality(ids[b]) \in Nat
         /\ Cardinality(ids[b]) <= Cardinality(Docs) /\ Cardinality(Docs) \in Nat
         /\ IsFiniteSet(TasksOf(b)) /\ Cardinality(TasksOf(b)) = Cardinality(ids[b])
<1>1. IsFiniteSet(ids[b]) /\ Cardinality(ids[b]) <= Cardinality(Docs)
  BY DocsAreFinite, FS_Subset
<1>2. TasksOf(b) = {b} \X ids[b]
  BY DEF TasksOf, Tasks
<1>3. IsFiniteSet({b}) /\ Cardinality({b}) = 1
  BY FS_Singleton
<1>4. IsFiniteSet({b} \X ids[b]) /\ Cardinality({b} \X ids[b]) = 1 * Cardinality(ids[b])
  BY <1>1, <1>3, FS_Product
<1>5. Cardinality(ids[b]) \in Nat /\ Cardinality(Docs) \in Nat
  BY <1>1, DocsAreFinite, FS_CardinalityType
<1> QED
  BY <1>1, <1>2, <1>4, <1>5

\* Slots that are only given back stay bounded.
LEMMA SlotsGivenBack ==
  ASSUME SlotsBounded, ids \in [Batches -> SUBSET Docs],
         \A b \in Batches : In(b, "holding")' \subseteq In(b, "holding")
  PROVE  SlotsBounded'
<1> SUFFICES ASSUME NEW b \in Batches PROVE Cardinality(In(b, "holding")') <= Cap
  BY DEF SlotsBounded
<1>1. In(b, "holding") \subseteq TasksOf(b)
  BY DEF In
<1>2. IsFiniteSet(In(b, "holding"))
  BY <1>1, TasksOfAreFinite, FS_Subset
<1>3. IsFiniteSet(In(b, "holding")')
  BY <1>2, FS_Subset
<1>4. Cardinality(In(b, "holding")') <= Cardinality(In(b, "holding"))
  BY <1>2, FS_Subset
<1>5. Cardinality(In(b, "holding")) \in Nat /\ Cardinality(In(b, "holding")') \in Nat
  BY <1>2, <1>3, FS_CardinalityType
<1> QED
  BY <1>4, <1>5, CapAssumption DEF SlotsBounded

\* Steps of runs that no task is waiting to start.
LEMMA RunStepKeepsTaskInv ==
  ASSUME TaskInv, RunInv', UNCHANGED batchVars,
         \A t \in Tasks : /\ Running(t)' => Running(t)
                          /\ phase[t] \in Outcome => phase'[t] = phase[t]
                          /\ Alone(t)' => Alone(t)
  PROVE  TaskInv'
<1>1. BatchTypes' /\ TasksFollow' /\ SlotsBounded'
  BY DEF TaskInv, batchVars, BatchTypes, TasksFollow, SlotsBounded, In, TasksOf
<1>2. RunsAreHeld'
  BY DEF TaskInv, batchVars, RunsAreHeld
<1>3. ResultsTell'
  BY DEF TaskInv, batchVars, ResultsTell
<1> QED
  BY <1>1, <1>2, <1>3 DEF TaskInv

LEMMA PipelineKeepsTaskInv ==
  ASSUME TaskInv, RunInv', NEW r \in Runs, Pipeline(r)
  PROVE  TaskInv'
<1>1. /\ Running(r) /\ target' = target
      /\ \A q \in Runs \ {r} : phase'[q] = phase[q]
  BY AdvanceEffect DEF TaskInv, RunInv, Pipeline
<1> QED
  BY <1>1, TaskPairs, RunStepKeepsTaskInv DEF Pipeline, Running, Alone

LEMMA TimeoutKeepsTaskInv ==
  ASSUME TaskInv, RunInv', NEW t \in Tasks, Timeout(t)
  PROVE  TaskInv'
<1>1. CutsOff
  BY TaskPairs, CutOffCuts DEF Timeout, TaskInv, RunInv
<1> QED
  BY <1>1, TaskPairs, RunStepKeepsTaskInv DEF Timeout, CutsOff, Running, Outcome, Alone

LEMMA BackgroundFailsKeepsTaskInv ==
  ASSUME TaskInv, RunInv', NEW r \in Runs, BackgroundFails(r)
  PROVE  TaskInv'
<1>1. CutsOff
  BY CutOffCuts DEF BackgroundFails, TaskInv, RunInv
<1> QED
  BY <1>1, TaskPairs, RunStepKeepsTaskInv DEF BackgroundFails, CutsOff, Running, Outcome, Alone

LEMMA BackgroundKeepsTaskInv ==
  ASSUME TaskInv, RunInv', NEW r \in Runs, NEW d \in Docs, Background(r, d)
  PROVE  TaskInv'
<1>1. /\ r \notin Tasks /\ phase[r] = "idle" /\ target[r] = NoDoc
      /\ \A q \in Runs \ {r} : phase'[q] = phase[q] /\ target'[q] = target[q]
  BY DEF Background, Begin, Move, TaskInv, RunInv, LifecycleTypes
<1>2. \A t \in Tasks : Alone(t)' => Alone(t)
  BY <1>1, TaskPairs, NoDocumentAssumption DEF Alone
<1> QED
  BY <1>1, <1>2, TaskPairs, RunStepKeepsTaskInv DEF Background, Running

\* Steps that leave all runs alone.
LEMMA SubmitKeepsTaskInv ==
  ASSUME TaskInv, RunInv', NEW b \in Batches, NEW docs \in SUBSET Docs, Submit(b, docs)
  PROVE  TaskInv'
<1>1. BatchTypes'
  <2>1. Cardinality(docs) \in 0 .. Cardinality(Docs)
    BY DocsAreFinite, FS_Subset, FS_CardinalityType
  <2> QED
    BY <2>1 DEF Submit, Goto, TaskInv, BatchTypes, Batch, Flow
<1>2. TasksFollow'
  BY TaskPairs DEF Submit, Goto, TaskInv, BatchTypes, TasksFollow
<1>3. RunsAreHeld' /\ ResultsTell' /\ SlotsBounded'
  BY DEF Submit, lifecycleVars, TaskInv, RunsAreHeld, Running, ResultsTell, Alone,
         SlotsBounded, In, TasksOf
<1> QED
  BY <1>1, <1>2, <1>3 DEF TaskInv

LEMMA LoadBatchKeepsTaskInv ==
  ASSUME TaskInv, RunInv', NEW b \in Batches, LoadBatch(b)
  PROVE  TaskInv'
<1>1. BatchTypes'
  BY DEF LoadBatch, Goto, TaskInv, BatchTypes, Flow
<1>2. TasksFollow'
  BY TaskPairs DEF LoadBatch, Goto, TaskInv, BatchTypes, TasksFollow
<1>3. RunsAreHeld' /\ ResultsTell'
  BY DEF LoadBatch, lifecycleVars, TaskInv, RunsAreHeld, Running, ResultsTell, Alone
<1>4. \A c \in Batches : In(c, "holding")' \subseteq In(c, "holding")
  BY TaskPairs DEF LoadBatch, Goto, TaskInv, BatchTypes, TasksFollow, In, TasksOf
<1>5. SlotsBounded'
  BY <1>4, SlotsGivenBack DEF TaskInv, BatchTypes
<1> QED
  BY <1>1, <1>2, <1>3, <1>5 DEF TaskInv

LEMMA MarkRunningKeepsTaskInv ==
  ASSUME TaskInv, RunInv', NEW b \in Batches, MarkRunning(b)
  PROVE  TaskInv'
<1>1. BatchTypes'
  BY DEF MarkRunning, Goto, TaskInv, BatchTypes, Flow, Batch, BatchStatus, TaskState
<1>2. TasksFollow'
  BY TaskPairs DEF MarkRunning, Goto, TaskInv, BatchTypes, TasksFollow, TasksOf
<1>3. \A t \in TasksOf(b) : task[t] = "none"
  BY TaskPairs DEF MarkRunning, Goto, TaskInv, TasksFollow, TasksOf
<1>4. \A t \in Tasks : task'[t] = task[t] \/ (task[t] = "none" /\ task'[t] = "waiting")
  BY <1>3 DEF MarkRunning, TaskInv, BatchTypes
<1>5. RunsAreHeld' /\ ResultsTell'
  BY <1>4 DEF MarkRunning, lifecycleVars, TaskInv, RunsAreHeld, Running, ResultsTell, Alone
<1>6. \A c \in Batches : In(c, "holding")' \subseteq In(c, "holding")
  BY <1>4 DEF MarkRunning, In, TasksOf
<1>7. SlotsBounded'
  BY <1>6, SlotsGivenBack DEF TaskInv, BatchTypes
<1> QED
  BY <1>1, <1>2, <1>5, <1>7 DEF TaskInv

LEMMA FinalizeKeepsTaskInv ==
  ASSUME TaskInv, RunInv', NEW b \in Batches, Finalize(b)
  PROVE  TaskInv'
<1>1. BatchTypes'
  <2> DEFINE completed == Cardinality(In(b, "succeeded"))
             failed == Cardinality(ids[b]) - completed
  <2>1. In(b, "succeeded") \subseteq TasksOf(b)
    BY DEF In
  <2>2. completed \in Nat /\ completed <= Cardinality(ids[b])
    BY <2>1, TasksOfAreFinite, FS_Subset, FS_CardinalityType DEF TaskInv, BatchTypes
  <2>3. completed \in 0 .. Cardinality(Docs) /\ failed \in 0 .. Cardinality(Docs)
    BY <2>2, TasksOfAreFinite DEF TaskInv, BatchTypes
  <2>4. FinalStatus(completed, failed) \in BatchStatus
    BY <2>3 DEF FinalStatus, BatchStatus
  <2> DEFINE row == [batch[b] EXCEPT !.status = FinalStatus(completed, failed),
                                     !.completed = completed, !.failed = failed]
  <2>5. batch' = [batch EXCEPT ![b] = row]
    BY DEF Finalize
  <2> HIDE DEF completed, failed
  <2>6. row \in Batch
    BY <2>3, <2>4 DEF TaskInv, BatchTypes, Batch
  <2> HIDE DEF row
  <2>7. batch' \in [Batches -> Batch]
    BY <2>5, <2>6 DEF TaskInv, BatchTypes
  <2> QED
    BY <2>7 DEF Finalize, Goto, TaskInv, BatchTypes, Flow
<1>2. TasksFollow'
  BY TaskPairs DEF Finalize, Finished, Goto, TaskInv, BatchTypes, TasksFollow, TasksOf
<1>3. RunsAreHeld' /\ ResultsTell' /\ SlotsBounded'
  BY DEF Finalize, lifecycleVars, TaskInv, RunsAreHeld, Running, ResultsTell, Alone,
         SlotsBounded, In, TasksOf
<1> QED
  BY <1>1, <1>2, <1>3 DEF TaskInv

LEMMA AbortKeepsTaskInv ==
  ASSUME TaskInv, RunInv', NEW b \in Batches, Abort(b)
  PROVE  TaskInv'
<1>1. BatchTypes'
  BY DEF Abort, TaskInv, BatchTypes, Flow
<1>2. TasksFollow'
  BY TaskPairs DEF Abort, TaskInv, BatchTypes, TasksFollow
<1>3. RunsAreHeld' /\ ResultsTell' /\ SlotsBounded'
  BY DEF Abort, lifecycleVars, TaskInv, RunsAreHeld, Running, ResultsTell, Alone,
         SlotsBounded, In, TasksOf
<1> QED
  BY <1>1, <1>2, <1>3 DEF TaskInv

LEMMA AcquireKeepsTaskInv ==
  ASSUME TaskInv, RunInv', NEW t \in Tasks, Acquire(t)
  PROVE  TaskInv'
<1>1. /\ task[t] = "waiting" /\ task' = [task EXCEPT ![t] = "holding"]
      /\ phase[t] = "idle" /\ target[t] = NoDoc
      /\ phase' = [phase EXCEPT ![t] = "started"] /\ target' = [target EXCEPT ![t] = t[2]]
      /\ UNCHANGED <<batch, member, flow, ids>>
  BY TaskPairs DEF Acquire, Begin, Move, TaskInv, RunInv
<1>2. BatchTypes'
  BY <1>1 DEF TaskInv, BatchTypes, TaskState
<1>3. TasksFollow'
  BY <1>1, TaskPairs DEF TaskInv, BatchTypes, TasksFollow
<1>4. RunsAreHeld'
  BY <1>1, TaskPairs DEF TaskInv, RunInv, LifecycleTypes, BatchTypes, RunsAreHeld, Running
<1>5. ResultsTell'
  <2>1. \A q \in Tasks : Alone(q)' => Alone(q)
    BY <1>1, TaskPairs, NoDocumentAssumption DEF Alone, TaskInv, RunInv, LifecycleTypes
  <2> QED
    BY <1>1, <2>1, TaskPairs
    DEF TaskInv, RunInv, LifecycleTypes, BatchTypes, ResultsTell, Outcome
<1>6. SlotsBounded'
  <2> SUFFICES ASSUME NEW b \in Batches PROVE Cardinality(In(b, "holding")') <= Cap
    BY DEF SlotsBounded
  <2>1. CASE b = t[1]
    <3>1. IsFiniteSet(In(b, "holding"))
      BY TasksOfAreFinite, FS_Subset DEF TaskInv, BatchTypes, In
    <3>2. Cardinality(In(b, "holding")) < Cap
      BY <2>1 DEF Acquire
    <3>3. In(b, "holding")' = In(b, "holding") \cup {t} /\ t \notin In(b, "holding")
      BY <1>1, <2>1, TaskPairs DEF In, TasksOf, TaskInv, TasksFollow, BatchTypes
    <3>4. Cardinality(In(b, "holding")') = Cardinality(In(b, "holding")) + 1
      BY <3>1, <3>3, FS_AddElement
    <3>5. Cardinality(In(b, "holding")) \in Nat
      BY <3>1, FS_CardinalityType
    <3> QED
      BY <3>2, <3>4, <3>5, CapAssumption
  <2>2. CASE b # t[1]
    <3>1. In(b, "holding")' = In(b, "holding")
      BY <1>1, <2>2 DEF In, TasksOf, TaskInv, BatchTypes
    <3> QED
      BY <3>1 DEF TaskInv, SlotsBounded
  <2> QED
    BY <2>1, <2>2
<1> QED
  BY <1>2, <1>3, <1>4, <1>5, <1>6 DEF TaskInv

LEMMA ReleaseKeepsTaskInv ==
  ASSUME TaskInv, RunInv', NEW t \in Tasks, Release(t)
  PROVE  TaskInv'
<1> DEFINE result == IF ReturnedRun(t) /\ status[t[2]] = "ready" THEN "succeeded" ELSE "failed"
<1>1. /\ task[t] = "holding" /\ phase[t] \in Outcome
      /\ task' = [task EXCEPT ![t] = result] /\ result \in {"succeeded", "failed"}
      /\ UNCHANGED <<batch, member, flow, ids, status, phase, target>>
  BY DEF Release, lifecycleVars
<1>2. Alone(t) => (result = "succeeded" <=> phase[t] = "succeeded")
  BY <1>1 DEF ReturnedRun, TaskInv, RunInv, Consistent, Outcome
<1> HIDE DEF result
<1>3. BatchTypes'
  BY <1>1 DEF TaskInv, BatchTypes, TaskState
<1>4. TasksFollow'
  BY <1>1, TaskPairs DEF TaskInv, BatchTypes, TasksFollow
<1>5. RunsAreHeld'
  BY <1>1 DEF TaskInv, BatchTypes, RunsAreHeld, Running
<1>6. ResultsTell'
  BY <1>1, <1>2 DEF TaskInv, BatchTypes, ResultsTell, Alone
<1>7. SlotsBounded'
  <2>1. \A b \in Batches : In(b, "holding")' \subseteq In(b, "holding")
    BY <1>1 DEF In, TasksOf, TaskInv, BatchTypes
  <2> QED
    BY <2>1, SlotsGivenBack DEF TaskInv, BatchTypes
<1> QED
  BY <1>3, <1>4, <1>5, <1>6, <1>7 DEF TaskInv

\* Tasks and runs of run() that are lost.
LEMMA ReloadFailsKeepsTaskInv ==
  ASSUME TaskInv, RunInv', NEW t \in Tasks, ReloadFails(t)
  PROVE  TaskInv'
<1>1. /\ task[t] = "holding" /\ ReturnedRun(t) /\ t[1] \in Batches
      /\ task' = [task EXCEPT ![t] = "lost"] /\ flow' = [flow EXCEPT ![t[1]] = "lost"]
      /\ UNCHANGED <<batch, member, ids, status, phase, target>>
  BY TaskPairs DEF ReloadFails, lifecycleVars
<1>2. BatchTypes'
  BY <1>1 DEF TaskInv, BatchTypes, TaskState, Flow
<1>3. TasksFollow'
  BY <1>1, TaskPairs DEF TaskInv, BatchTypes, TasksFollow
<1>4. RunsAreHeld' /\ ResultsTell'
  BY <1>1 DEF TaskInv, BatchTypes, RunsAreHeld, Running, ReturnedRun, Outcome, ResultsTell, Alone
<1>5. SlotsBounded'
  <2>1. \A b \in Batches : In(b, "holding")' \subseteq In(b, "holding")
    BY <1>1 DEF In, TasksOf, TaskInv, BatchTypes
  <2> QED
    BY <2>1, SlotsGivenBack DEF TaskInv, BatchTypes
<1> QED
  BY <1>2, <1>3, <1>4, <1>5 DEF TaskInv

LEMMA CrashKeepsTaskInv ==
  ASSUME TaskInv, RunInv', Crash
  PROVE  TaskInv'
<1>1. /\ \A b \in Batches :
           \/ flow'[b] = flow[b]
           \/ flow[b] \in {"submitted", "loaded", "running"} /\ flow'[b] = "lost"
      /\ \A t \in Tasks :
           \/ task'[t] = task[t] /\ task[t] \notin {"waiting", "holding"}
           \/ task[t] \in {"waiting", "holding"} /\ task'[t] = "lost"
      /\ UNCHANGED <<batch, member, ids, status, target>>
  BY DEF Crash
<1>2. BatchTypes'
  BY DEF Crash, TaskInv, BatchTypes, TaskState, Flow
<1>3. TasksFollow'
  BY <1>1, TaskPairs DEF TaskInv, BatchTypes, TasksFollow
<1>4. \A t \in Tasks : ~Running(t)' /\ (phase[t] \in Outcome => phase'[t] = phase[t])
  BY TaskPairs DEF Crash, Running, Outcome
<1>5. RunsAreHeld'
  BY <1>4 DEF RunsAreHeld
<1>6. ResultsTell'
  BY <1>1, <1>4 DEF TaskInv, ResultsTell, Alone
<1>7. SlotsBounded'
  <2>1. \A b \in Batches : In(b, "holding")' \subseteq In(b, "holding")
    BY <1>1 DEF In, TasksOf
  <2> QED
    BY <2>1, SlotsGivenBack DEF TaskInv, BatchTypes
<1> QED
  BY <1>2, <1>3, <1>5, <1>6, <1>7 DEF TaskInv

LEMMA TasksInit == ProcessorInit => TaskInv
<1> SUFFICES ASSUME ProcessorInit PROVE TaskInv
  OBVIOUS
<1>1. RunInv
  BY RunsInit
<1>2. BatchTypes
  BY DocsAreFinite, FS_CardinalityType
  DEF ProcessorInit, BatchInit, BatchTypes, Batch, BatchStatus, Flow, TaskState
<1>3. TasksFollow
  BY DEF ProcessorInit, BatchInit, TasksFollow
<1>4. RunsAreHeld /\ ResultsTell
  BY TaskPairs
  DEF ProcessorInit, LifecycleInit, BatchInit, RunsAreHeld, Running, ResultsTell, Outcome
<1>5. SlotsBounded
  <2>1. \A b \in Batches : In(b, "holding") = {}
    BY DEF ProcessorInit, BatchInit, In, TasksOf
  <2> QED
    BY <2>1, FS_EmptySet, CapAssumption DEF SlotsBounded
<1> QED
  BY <1>1, <1>2, <1>3, <1>4, <1>5 DEF TaskInv

LEMMA TasksNext == TaskInv /\ [ProcessorNext]_processorVars => TaskInv'
<1> SUFFICES ASSUME TaskInv, [ProcessorNext]_processorVars PROVE TaskInv'
  OBVIOUS
<1>0. RunInv'
  BY RunsNext DEF TaskInv
<1>1. ASSUME NEW docs \in SUBSET Docs \ {{}}, SomeBatch(docs) PROVE TaskInv'
  BY <1>0, <1>1, SubmitKeepsTaskInv DEF SomeBatch
<1>2. ASSUME NEW b \in Batches, Drive(b) \/ Abort(b) PROVE TaskInv'
  <2>1. TasksOf(b) \subseteq Tasks
    BY DEF TasksOf
  <2> QED
    BY <1>0, <1>2, <2>1, LoadBatchKeepsTaskInv, MarkRunningKeepsTaskInv, FinalizeKeepsTaskInv,
       AcquireKeepsTaskInv, ReleaseKeepsTaskInv, AbortKeepsTaskInv DEF Drive
<1>3. ASSUME NEW t \in Tasks, Timeout(t) \/ ReloadFails(t) PROVE TaskInv'
  BY <1>0, <1>3, TimeoutKeepsTaskInv, ReloadFailsKeepsTaskInv
<1>4. ASSUME NEW r \in Runs,
             Pipeline(r) \/ BackgroundFails(r) \/ \E d \in Docs : Background(r, d)
      PROVE  TaskInv'
  BY <1>0, <1>4, PipelineKeepsTaskInv, BackgroundFailsKeepsTaskInv, BackgroundKeepsTaskInv
<1>5. CASE Crash
  BY <1>0, <1>5, CrashKeepsTaskInv
<1>6. CASE UNCHANGED processorVars
  BY <1>6, <1>0, RunStepKeepsTaskInv DEF processorVars, lifecycleVars, Running, Alone
<1> QED
  BY <1>1, <1>2, <1>3, <1>4, <1>5, <1>6 DEF ProcessorNext, BatchStep

LEMMA TaskInvariant == ProcessorSpec => []TaskInv
  BY TasksInit, TasksNext, PTL DEF ProcessorSpec

-----------------------------------------------------------------------------
(* Rows of batches *)

Members(b) == {d \in Docs : member[d] = b}
OnlyBatch(b) == \A c \in Batches \ {b} : flow[c] = "none"

RowsFollow ==
  \A b \in Batches :
    /\ flow[b] \in {"none", "submitted", "loaded"} => batch[b].status = "pending"
    /\ flow[b] = "running" => batch[b].status = "running"
    /\ flow[b] # "over" => /\ batch[b].status \in {"pending", "running"}
                           /\ batch[b].completed = 0 /\ batch[b].failed = 0
    /\ flow[b] \in {"running", "over"} => \A t \in TasksOf(b) : task[t] # "none"
    /\ flow[b] = "over" =>
         /\ batch[b].completed = Cardinality(In(b, "succeeded"))
         /\ batch[b].failed = Cardinality(ids[b]) - batch[b].completed
         /\ batch[b].status = FinalStatus(batch[b].completed, batch[b].failed)

\* A batch works on documents that it was submitted with, on all of them if no
\* other batch was there to take some away.
TotalsFollow ==
  \A b \in Batches :
    /\ flow[b] = "none" => Members(b) = {}
    /\ flow[b] \in {"none", "submitted"} => ids[b] = {}
    /\ Cardinality(Members(b)) <= batch[b].total
    /\ Cardinality(ids[b]) <= batch[b].total
    /\ OnlyBatch(b) =>
         /\ flow[b] = "submitted" => Cardinality(Members(b)) = batch[b].total
         /\ flow[b] \in {"loaded", "running", "over"} => Cardinality(ids[b]) = batch[b].total

BatchInv == TaskInv /\ RowsFollow /\ TotalsFollow

LEMMA MembersAreFinite ==
  \A b : /\ IsFiniteSet(Members(b)) /\ Cardinality(Members(b)) \in Nat
        /\ IsFiniteSet(Members(b)') /\ Cardinality(Members(b)') \in Nat
<1> TAKE b
<1>1. Members(b) \subseteq Docs /\ Members(b)' \subseteq Docs
  BY DEF Members
<1> QED
  BY <1>1, DocsAreFinite, FS_Subset, FS_CardinalityType

\* Steps that only lose run()s or move tasks of batches that are not over.
LEMMA CountsStand ==
  ASSUME BatchInv, TaskInv', UNCHANGED <<batch, member, ids>>,
         \A b \in Batches :
           \/ flow'[b] = flow[b]
           \/ flow[b] \in {"submitted", "loaded", "running"} /\ flow'[b] = "lost",
         \A t \in Tasks : /\ flow[t[1]] = "over" => task'[t] = task[t]
                          /\ task'[t] = "none" => task[t] = "none"
  PROVE  BatchInv'
<1>1. \A b \in Batches : TasksOf(b)' = TasksOf(b) /\ TasksOf(b) \subseteq Tasks
  BY DEF TasksOf
<1>2. \A b \in Batches : flow[b] = "over" => In(b, "succeeded")' = In(b, "succeeded")
  BY <1>1 DEF In, TasksOf
<1>3. RowsFollow'
  BY <1>1, <1>2 DEF BatchInv, RowsFollow
<1>4. \A b \in Batches : Members(b)' = Members(b)
  BY DEF Members
<1>5. \A b \in Batches : OnlyBatch(b)' => OnlyBatch(b)
  BY DEF OnlyBatch
<1>6. TotalsFollow'
  BY <1>4, <1>5 DEF BatchInv, TotalsFollow
<1> QED
  BY <1>3, <1>6 DEF BatchInv

LEMMA SubmitKeepsBatchInv ==
  ASSUME BatchInv, TaskInv', NEW b \in Batches, NEW docs \in SUBSET Docs, Submit(b, docs)
  PROVE  BatchInv'
<1>1. /\ flow[b] = "none" /\ flow' = [flow EXCEPT ![b] = "submitted"]
      /\ batch' = [batch EXCEPT ![b].total = Cardinality(docs)]
      /\ member' = [d \in Docs |-> IF d \in docs THEN b ELSE member[d]]
      /\ UNCHANGED <<ids, task>>
  BY DEF Submit, Goto
<1>2. \A c \in Batches : In(c, "succeeded")' = In(c, "succeeded") /\ TasksOf(c)' = TasksOf(c)
  BY <1>1 DEF In, TasksOf
<1>3. \A c \in Batches :
        /\ c # b => flow'[c] = flow[c] /\ batch'[c] = batch[c]
        /\ c = b => flow'[c] = "submitted"
        /\ batch'[c].status = batch[c].status
        /\ batch'[c].completed = batch[c].completed /\ batch'[c].failed = batch[c].failed
  BY <1>1 DEF BatchInv, TaskInv, BatchTypes, Batch
<1>4. RowsFollow'
  BY <1>1, <1>2, <1>3 DEF BatchInv, RowsFollow
<1>5. batch'[b].total = Cardinality(docs)
  BY <1>1 DEF BatchInv, TaskInv, BatchTypes, Batch
<1>6. Members(b)' = docs
  <2>1. \A d \in Docs : member[d] # b
    BY <1>1 DEF Members, BatchInv, TotalsFollow
  <2>2. \A d \in Docs : member'[d] = b <=> d \in docs
    BY <1>1, <2>1
  <2> QED
    BY <2>2 DEF Members
<1>7. Cardinality(ids[b]) <= Cardinality(docs) /\ ids[b] = {}
  BY <1>1, FS_EmptySet, FS_Subset, FS_CardinalityType, DocsAreFinite DEF BatchInv, TotalsFollow
<1>8. \A c \in Batches \ {b} : /\ Members(c)' \subseteq Members(c)
                                /\ Cardinality(Members(c)') <= Cardinality(Members(c))
  <2>1. \A c \in Batches \ {b} : Members(c)' \subseteq Members(c)
    BY <1>1 DEF Members
  <2> QED
    BY <2>1, MembersAreFinite, FS_Subset
<1>9. ASSUME NEW c \in Batches
      PROVE  /\ flow'[c] = "none" => Members(c)' = {}
             /\ flow'[c] \in {"none", "submitted"} => ids'[c] = {}
             /\ Cardinality(Members(c)') <= batch'[c].total
             /\ Cardinality(ids'[c]) <= batch'[c].total
             /\ OnlyBatch(c)' =>
                  /\ flow'[c] = "submitted" => Cardinality(Members(c)') = batch'[c].total
                  /\ flow'[c] \in {"loaded", "running", "over"} =>
                       Cardinality(ids'[c]) = batch'[c].total
  <2>1. CASE c = b
    <3>1. Members(c)' = docs /\ Cardinality(docs) \in Nat
      BY <1>6, <2>1, MembersAreFinite DEF Members
    <3>2. batch'[c].total = Cardinality(docs) /\ flow'[c] = "submitted" /\ ids'[c] = ids[b]
      BY <1>1, <1>3, <1>5, <2>1
    <3>3. ids'[c] = {} /\ Cardinality(ids'[c]) <= batch'[c].total
      BY <1>7, <3>2
    <3> QED
      BY <3>1, <3>2, <3>3
  <2>2. CASE c # b
    <3>1. ~OnlyBatch(c)'
      BY <1>3, <2>2 DEF OnlyBatch
    <3>2. flow[c] = "none" => Members(c)' = {}
      BY <1>8, <2>2 DEF BatchInv, TotalsFollow
    <3>3. Cardinality(Members(c)') <= batch[c].total
      BY <1>8, <2>2, MembersAreFinite
      DEF BatchInv, TotalsFollow, TaskInv, BatchTypes, Batch
    <3> QED
      BY <1>1, <1>3, <2>2, <3>1, <3>2, <3>3 DEF BatchInv, TotalsFollow
  <2> QED
    BY <2>1, <2>2
<1> QED
  BY <1>4, <1>9 DEF BatchInv, TotalsFollow

LEMMA LoadBatchKeepsBatchInv ==
  ASSUME BatchInv, TaskInv', NEW b \in Batches, LoadBatch(b)
  PROVE  BatchInv'
<1>1. /\ flow[b] = "submitted" /\ flow' = [flow EXCEPT ![b] = "loaded"]
      /\ ids' = [ids EXCEPT ![b] = Members(b)]
      /\ UNCHANGED <<batch, member, task>>
  BY DEF LoadBatch, Goto, Members
<1>2. \A c \in Batches :
        /\ c # b => /\ flow'[c] = flow[c] /\ ids'[c] = ids[c]
                    /\ In(c, "succeeded")' = In(c, "succeeded") /\ TasksOf(c)' = TasksOf(c)
        /\ c = b => flow'[c] = "loaded" /\ ids'[c] = Members(c)
  BY <1>1 DEF BatchInv, TaskInv, BatchTypes, In, TasksOf
<1>3. RowsFollow'
  BY <1>1, <1>2 DEF BatchInv, RowsFollow
<1>4. \A c \in Batches : Members(c)' = Members(c)
  BY <1>1 DEF Members
<1>5. \A c \in Batches : OnlyBatch(c)' => OnlyBatch(c)
  BY <1>1, <1>2 DEF OnlyBatch
<1>6. TotalsFollow'
  BY <1>1, <1>2, <1>4, <1>5 DEF BatchInv, TotalsFollow
<1> QED
  BY <1>3, <1>6 DEF BatchInv

LEMMA MarkRunningKeepsBatchInv ==
  ASSUME BatchInv, TaskInv', NEW b \in Batches, MarkRunning(b)
  PROVE  BatchInv'
<1>1. /\ flow[b] = "loaded" /\ flow' = [flow EXCEPT ![b] = "running"]
      /\ batch' = [batch EXCEPT ![b].status = "running"]
      /\ task' = [t \in Tasks |-> IF t \in TasksOf(b) THEN "waiting" ELSE task[t]]
      /\ UNCHANGED <<member, ids>>
  BY DEF MarkRunning, Goto
<1>2. \A c \in Batches : TasksOf(c)' = TasksOf(c) /\ TasksOf(c) \subseteq Tasks
  BY <1>1 DEF TasksOf
<1>3. \A c \in Batches \ {b} : TasksOf(c) \cap TasksOf(b) = {}
  BY DEF TasksOf
<1>4. \A c \in Batches :
        /\ c # b => /\ flow'[c] = flow[c] /\ batch'[c] = batch[c]
                    /\ In(c, "succeeded")' = In(c, "succeeded")
        /\ c = b => flow'[c] = "running" /\ batch'[c].status = "running"
        /\ batch'[c].total = batch[c].total
        /\ batch'[c].completed = batch[c].completed /\ batch'[c].failed = batch[c].failed
  BY <1>1, <1>2, <1>3 DEF BatchInv, TaskInv, BatchTypes, Batch, In
<1>5. RowsFollow'
  BY <1>1, <1>2, <1>3, <1>4 DEF BatchInv, RowsFollow
<1>6. \A c \in Batches : Members(c)' = Members(c)
  BY <1>1 DEF Members
<1>7. \A c \in Batches : OnlyBatch(c)' => OnlyBatch(c)
  BY <1>1, <1>4 DEF OnlyBatch
<1>8. TotalsFollow'
  BY <1>1, <1>4, <1>6, <1>7 DEF BatchInv, TotalsFollow
<1> QED
  BY <1>5, <1>8 DEF BatchInv

LEMMA FinalizeKeepsBatchInv ==
  ASSUME BatchInv, TaskInv', NEW b \in Batches, Finalize(b)
  PROVE  BatchInv'
<1> DEFINE completed == Cardinality(In(b, "succeeded"))
           failed == Cardinality(ids[b]) - completed
<1>1. /\ flow[b] = "running" /\ flow' = [flow EXCEPT ![b] = "over"]
      /\ batch' = [batch EXCEPT ![b].status = FinalStatus(completed, failed),
                                ![b].completed = completed, ![b].failed = failed]
      /\ UNCHANGED <<member, ids, task>>
  BY DEF Finalize, Goto
<1>2. \A c \in Batches : TasksOf(c)' = TasksOf(c) /\ In(c, "succeeded")' = In(c, "succeeded")
  BY <1>1 DEF TasksOf, In
<1>3. completed = Cardinality(In(b, "succeeded")) /\ failed = Cardinality(ids[b]) - completed
  OBVIOUS
<1> HIDE DEF completed, failed
<1>4. \A c \in Batches :
        /\ c # b => flow'[c] = flow[c] /\ batch'[c] = batch[c]
        /\ batch'[c].total = batch[c].total
  BY <1>1 DEF BatchInv, TaskInv, BatchTypes, Batch
<1>5. /\ flow'[b] = "over" /\ batch'[b].status = FinalStatus(completed, failed)
      /\ batch'[b].completed = completed /\ batch'[b].failed = failed
  BY <1>1 DEF BatchInv, TaskInv, BatchTypes, Batch
<1>6. RowsFollow'
  <2>1. /\ completed = Cardinality(In(b, "succeeded")')
        /\ failed = Cardinality(ids'[b]) - completed
    BY <1>1, <1>2, <1>3
  <2>2. \A t \in TasksOf(b)' : task'[t] # "none"
    BY <1>1, <1>2 DEF BatchInv, RowsFollow
  <2>3. \A c \in Batches \ {b} : flow'[c] \in {"running", "over"} =>
                                  \A t \in TasksOf(c)' : task'[t] # "none"
    BY <1>1, <1>2, <1>4 DEF BatchInv, RowsFollow
  <2>4. \A c \in Batches : flow'[c] # "over" =>
           /\ flow'[c] \in {"none", "submitted", "loaded"} => batch'[c].status = "pending"
           /\ flow'[c] = "running" => batch'[c].status = "running"
           /\ batch'[c].status \in {"pending", "running"}
           /\ batch'[c].completed = 0 /\ batch'[c].failed = 0
    BY <1>4, <1>5 DEF BatchInv, RowsFollow
  <2>5. ASSUME NEW c \in Batches, flow'[c] = "over"
        PROVE  /\ batch'[c].completed = Cardinality(In(c, "succeeded")')
               /\ batch'[c].failed = Cardinality(ids'[c]) - batch'[c].completed
               /\ batch'[c].status = FinalStatus(batch'[c].completed, batch'[c].failed)
    <3>1. CASE c = b
      BY <1>5, <2>1, <3>1
    <3>2. CASE c # b
      <4>1. flow[c] = "over" /\ batch'[c] = batch[c] /\ ids'[c] = ids[c]
        BY <1>1, <1>4, <2>5, <3>2
      <4>2. In(c, "succeeded")' = In(c, "succeeded")
        BY <1>2
      <4>3. /\ batch[c].completed = Cardinality(In(c, "succeeded"))
            /\ batch[c].failed = Cardinality(ids[c]) - batch[c].completed
            /\ batch[c].status = FinalStatus(batch[c].completed, batch[c].failed)
        BY <4>1 DEF BatchInv, RowsFollow
      <4> QED
        BY <4>1, <4>2, <4>3
    <3> QED
      BY <3>1, <3>2
  <2> QED
    BY <2>2, <2>3, <2>4, <2>5 DEF RowsFollow
<1>7. \A c \in Batches : Members(c)' = Members(c)
  BY <1>1 DEF Members
<1>8. \A c \in Batches : OnlyBatch(c)' => OnlyBatch(c)
  BY <1>1, <1>4, <1>5 DEF OnlyBatch
<1>9. TotalsFollow'
  BY <1>1, <1>4, <1>5, <1>7, <1>8 DEF BatchInv, TotalsFollow
<1> QED
  BY <1>6, <1>9 DEF BatchInv

LEMMA BatchesInit == ProcessorInit => BatchInv
<1> SUFFICES ASSUME ProcessorInit PROVE BatchInv
  OBVIOUS
<1>1. TaskInv
  BY TasksInit
<1>2. /\ batch = [b \in Batches |->
                  [status |-> "pending", total |-> 0, completed |-> 0, failed |-> 0]]
      /\ member = [d \in Docs |-> NoBatch]
      /\ flow = [b \in Batches |-> "none"] /\ ids = [b \in Batches |-> {}]
  BY DEF ProcessorInit, BatchInit
<1>3. RowsFollow
  BY <1>2 DEF RowsFollow
<1>4. \A b \in Batches : Members(b) = {}
  BY <1>2, NoBatchAssumption DEF Members
<1>5. TotalsFollow
  BY <1>2, <1>4, FS_EmptySet DEF TotalsFollow
<1> QED
  BY <1>1, <1>3, <1>5 DEF BatchInv

LEMMA BatchesNext == BatchInv /\ [ProcessorNext]_processorVars => BatchInv'
<1> SUFFICES ASSUME BatchInv, [ProcessorNext]_processorVars PROVE BatchInv'
  OBVIOUS
<1>0. TaskInv'
  BY TasksNext DEF BatchInv
<1>1. ASSUME NEW docs \in SUBSET Docs \ {{}}, SomeBatch(docs) PROVE BatchInv'
  BY <1>0, <1>1, SubmitKeepsBatchInv DEF SomeBatch
<1>2. ASSUME NEW b \in Batches, LoadBatch(b) \/ MarkRunning(b) \/ Finalize(b) PROVE BatchInv'
  BY <1>0, <1>2, LoadBatchKeepsBatchInv, MarkRunningKeepsBatchInv, FinalizeKeepsBatchInv
<1>3. ASSUME NEW b \in Batches, Abort(b) PROVE BatchInv'
  <2>1. \A c \in Batches :
          \/ flow'[c] = flow[c]
          \/ flow[c] \in {"submitted", "loaded", "running"} /\ flow'[c] = "lost"
    BY <1>3 DEF Abort, BatchInv, TaskInv, BatchTypes
  <2> QED
    BY <1>0, <1>3, <2>1, CountsStand DEF Abort
<1>4. ASSUME NEW t \in Tasks, Acquire(t) \/ Release(t) PROVE BatchInv'
  <2>1. /\ task[t] \in {"waiting", "holding"} /\ UNCHANGED <<batch, member, flow, ids>>
        /\ task'[t] # "none" /\ \A q \in Tasks \ {t} : task'[q] = task[q]
    BY <1>4 DEF Acquire, Release, BatchInv, TaskInv, BatchTypes
  <2>2. flow[t[1]] # "over"
    BY <2>1 DEF BatchInv, TaskInv, TasksFollow
  <2> QED
    BY <1>0, <2>1, <2>2, CountsStand
<1>5. ASSUME NEW t \in Tasks, ReloadFails(t) PROVE BatchInv'
  <2>1. /\ task[t] = "holding" /\ UNCHANGED <<batch, member, ids>>
        /\ task'[t] # "none" /\ \A q \in Tasks \ {t} : task'[q] = task[q]
    BY <1>5 DEF ReloadFails, BatchInv, TaskInv, BatchTypes
  <2>2. flow[t[1]] \in {"running", "lost"} /\ t[1] \in Batches
    BY <2>1, TaskPairs DEF BatchInv, TaskInv, TasksFollow, BatchTypes, Flow
  <2>3. flow' = [flow EXCEPT ![t[1]] = "lost"]
    BY <1>5 DEF ReloadFails
  <2>4. \A c \in Batches :
          \/ flow'[c] = flow[c]
          \/ flow[c] \in {"submitted", "loaded", "running"} /\ flow'[c] = "lost"
    BY <2>2, <2>3 DEF BatchInv, TaskInv, BatchTypes
  <2> QED
    BY <1>0, <2>1, <2>2, <2>4, CountsStand
<1>6. CASE UNCHANGED batchVars
  BY <1>0, <1>6, CountsStand DEF batchVars
<1>7. CASE Crash
  <2>1. /\ UNCHANGED <<batch, member, ids>>
        /\ \A c \in Batches :
             \/ flow'[c] = flow[c]
             \/ flow[c] \in {"submitted", "loaded", "running"} /\ flow'[c] = "lost"
        /\ \A t \in Tasks : task'[t] # "none" \/ task[t] = "none"
        /\ \A t \in Tasks : task[t] \notin {"waiting", "holding"} => task'[t] = task[t]
    BY <1>7 DEF Crash
  <2>2. \A t \in Tasks : flow[t[1]] = "over" => task'[t] = task[t]
    BY <2>1 DEF BatchInv, TaskInv, TasksFollow
  <2> QED
    BY <1>0, <2>1, <2>2, CountsStand
<1>8. ASSUME NEW b \in Batches, Drive(b) PROVE BatchInv'
  BY <1>2, <1>4, <1>8 DEF Drive, TasksOf
<1> QED
  BY <1>1, <1>3, <1>5, <1>6, <1>7, <1>8
  DEF ProcessorNext, BatchStep, Timeout, Pipeline, Background, BackgroundFails, processorVars

LEMMA BatchInvariant == ProcessorSpec => []BatchInv
  BY BatchesInit, BatchesNext, PTL DEF ProcessorSpec

-----------------------------------------------------------------------------
(* Theorems *)

\* Every reachable state is well-typed; the counts of a batch never exceed the
\* number of documents.
THEOREM BatchTypeCorrect == ProcessorSpec => []BatchTypeOK
<1>1. BatchInv => BatchTypeOK
  BY DEF BatchInv, TaskInv, RunInv, LifecycleTypes, BatchTypes, BatchTypeOK
<1> QED
  BY <1>1, BatchInvariant, PTL

\* For any limit and any number of documents, a batch has at most Cap calls of
\* process() alive, however calls end.
THEOREM SlotsBoundRuns == ProcessorSpec => []BatchConcurrencyBounded
<1>1. ASSUME BatchInv PROVE BatchConcurrencyBounded
  <2> SUFFICES ASSUME NEW b \in Batches
               PROVE  Cardinality({t \in TasksOf(b) : Running(t)}) <= Cap
    BY DEF BatchConcurrencyBounded
  <2> DEFINE live == {t \in TasksOf(b) : Running(t)}
  <2>1. live \subseteq In(b, "holding") /\ In(b, "holding") \subseteq TasksOf(b)
    BY <1>1 DEF In, TasksOf, BatchInv, TaskInv, RunsAreHeld
  <2>2. IsFiniteSet(In(b, "holding"))
    BY <1>1, <2>1, TasksOfAreFinite, FS_Subset DEF BatchInv, TaskInv, BatchTypes
  <2>3. Cardinality(live) <= Cardinality(In(b, "holding")) /\ IsFiniteSet(live)
    BY <2>1, <2>2, FS_Subset
  <2>4. Cardinality(live) \in Nat /\ Cardinality(In(b, "holding")) \in Nat
    BY <2>2, <2>3, FS_CardinalityType
  <2>5. Cardinality(In(b, "holding")) <= Cap
    BY <1>1 DEF BatchInv, TaskInv, SlotsBounded
  <2> QED
    BY <2>3, <2>4, <2>5, CapAssumption
<1> QED
  BY <1>1, BatchInvariant, PTL

\* A closed batch has no run alive, whatever was cut off, failed or lost on the
\* way and however many batches share its documents.
THEOREM ClosedBatchesAreQuiet == ProcessorSpec => []ClosedBatchIsQuiet
<1>1. ASSUME BatchInv PROVE ClosedBatchIsQuiet
  <2>1. \A b \in Batches : batch[b].status \in Final => flow[b] = "over"
    BY <1>1 DEF BatchInv, RowsFollow, Final
  <2> QED
    BY <1>1, <2>1 DEF BatchInv, TaskInv, TasksFollow, RunsAreHeld, ClosedBatchIsQuiet
<1> QED
  BY <1>1, BatchInvariant, PTL

\* The counts of a batch add up to its total unless another batch took documents
\* from it, and never exceed it.
THEOREM CountsAdd == ProcessorSpec => []CountsAddUp
<1>1. ASSUME BatchInv PROVE CountsAddUp
  <2> SUFFICES ASSUME NEW b \in Batches
               PROVE  LET sum == batch[b].completed + batch[b].failed
                      IN  /\ sum <= batch[b].total
                          /\ batch[b].status \in Final /\ OnlyBatch(b) => sum = batch[b].total
    BY DEF CountsAddUp, OnlyBatch
  <2>1. /\ batch[b].completed \in Int /\ batch[b].total \in Nat
        /\ Cardinality(ids[b]) \in Nat
    BY <1>1, TasksOfAreFinite DEF BatchInv, TaskInv, BatchTypes, Batch
  <2>2. CASE flow[b] = "over"
    <3>1. batch[b].completed + batch[b].failed = Cardinality(ids[b])
      BY <1>1, <2>1, <2>2 DEF BatchInv, RowsFollow
    <3> QED
      BY <1>1, <2>2, <3>1 DEF BatchInv, TotalsFollow
  <2>3. CASE flow[b] # "over"
    BY <1>1, <2>1, <2>3 DEF BatchInv, RowsFollow, Final
  <2> QED
    BY <2>2, <2>3
<1> QED
  BY <1>1, BatchInvariant, PTL

\* What a closed batch knows of its tasks.
LEMMA ClosedBatch ==
  ASSUME BatchInv, NEW b \in Batches, batch[b].status \in Final
  PROVE  /\ flow[b] = "over"
         /\ \A t \in TasksOf(b) : t \in Tasks /\ task[t] \in {"succeeded", "failed"}
         /\ batch[b].status = "completed" => In(b, "succeeded") = TasksOf(b)
         /\ batch[b].status = "failed" => In(b, "succeeded") = {} /\ ids[b] # {}
<1>1. flow[b] = "over"
  BY DEF BatchInv, RowsFollow, Final
<1>2. \A t \in TasksOf(b) : t \in Tasks /\ task[t] \in {"succeeded", "failed"}
  BY <1>1 DEF BatchInv, TaskInv, TasksFollow, RowsFollow, TasksOf
<1> DEFINE succeeded == In(b, "succeeded")
<1>3. /\ batch[b].completed = Cardinality(succeeded)
      /\ batch[b].failed = Cardinality(ids[b]) - Cardinality(succeeded)
      /\ batch[b].status = FinalStatus(batch[b].completed, batch[b].failed)
  BY <1>1 DEF BatchInv, RowsFollow
<1>4. succeeded \subseteq TasksOf(b)
  BY DEF In
<1>5. /\ IsFiniteSet(TasksOf(b)) /\ Cardinality(TasksOf(b)) = Cardinality(ids[b])
      /\ Cardinality(ids[b]) \in Nat /\ IsFiniteSet(ids[b])
  BY TasksOfAreFinite DEF BatchInv, TaskInv, BatchTypes
<1>6. IsFiniteSet(succeeded) /\ Cardinality(succeeded) \in Nat
  BY <1>4, <1>5, FS_Subset, FS_CardinalityType
<1> HIDE DEF succeeded
<1>7. ASSUME batch[b].status = "completed" PROVE succeeded = TasksOf(b)
  <2>1. batch[b].failed = 0
    BY <1>3, <1>7 DEF FinalStatus
  <2>2. Cardinality(succeeded) = Cardinality(TasksOf(b))
    BY <1>3, <1>5, <1>6, <2>1
  <2> QED
    BY <1>4, <1>5, <2>2, FS_Subset
<1>8. ASSUME batch[b].status = "failed" PROVE succeeded = {} /\ ids[b] # {}
  <2>1. batch[b].failed # 0 /\ batch[b].completed = 0
    BY <1>3, <1>8 DEF FinalStatus
  <2>2. Cardinality(succeeded) = 0 /\ Cardinality(ids[b]) # 0
    BY <1>3, <1>5, <1>6, <2>1
  <2> QED
    BY <1>5, <1>6, <2>2, FS_EmptySet
<1> QED
  BY <1>1, <1>2, <1>7, <1>8 DEF succeeded

\* The final status is true of the rows of the documents that no other run
\* touched, with timeouts, failures and stops in every order.
THEOREM StatusIsHonest == ProcessorSpec => []FinalStatusIsHonest
<1>1. ASSUME BatchInv PROVE FinalStatusIsHonest
  <2> SUFFICES ASSUME NEW b \in Batches
               PROVE  /\ batch[b].status = "completed" =>
                           \A d \in ids[b] : Undisturbed(b, d) => status[d] = "ready"
                      /\ batch[b].status = "failed" =>
                           /\ ids[b] # {}
                           /\ \A d \in ids[b] :
                                Undisturbed(b, d) => phase[<<b, d>>] # "succeeded"
    BY DEF FinalStatusIsHonest
  <2>1. \A d \in ids[b] : /\ <<b, d>> \in TasksOf(b) /\ <<b, d>> \in Tasks
                          /\ Undisturbed(b, d) => Alone(<<b, d>>)
    BY <1>1 DEF BatchInv, TaskInv, BatchTypes, TasksOf, Tasks, Alone, Undisturbed
  <2>2. ASSUME batch[b].status = "completed", NEW d \in ids[b], Undisturbed(b, d)
        PROVE  status[d] = "ready"
    <3>1. task[<<b, d>>] = "succeeded"
      BY <1>1, <2>1, <2>2, ClosedBatch DEF In, Final
    <3>2. phase[<<b, d>>] = "succeeded" /\ Consistent(phase[<<b, d>>], status[d])
      BY <1>1, <2>1, <2>2, <3>1 DEF BatchInv, TaskInv, RunInv, ResultsTell
    <3> QED
      BY <3>2 DEF Consistent
  <2>3. ASSUME batch[b].status = "failed", NEW d \in ids[b], Undisturbed(b, d)
        PROVE  phase[<<b, d>>] # "succeeded"
    <3>1. task[<<b, d>>] = "failed"
      BY <1>1, <2>1, <2>3, ClosedBatch DEF In, Final
    <3> QED
      BY <1>1, <2>1, <2>3, <3>1 DEF BatchInv, TaskInv, ResultsTell
  <2>4. batch[b].status = "failed" => ids[b] # {}
    BY <1>1, ClosedBatch DEF Final
  <2> QED
    BY <2>2, <2>3, <2>4
<1> QED
  BY <1>1, BatchInvariant, PTL

\* The count of a closed batch is the number of its READY documents, less those
\* whose run was cut off, for any number of documents and any limit.
THEOREM CountsMatch == ProcessorSpec => []CountsMatchDocuments
<1>1. ASSUME BatchInv PROVE CountsMatchDocuments
  <2> SUFFICES ASSUME NEW b \in Batches, batch[b].status \in Final,
                      \A d \in ids[b] : Undisturbed(b, d)
               PROVE  batch[b].completed =
                        Cardinality({d \in ids[b] : status[d] = "ready"}
                                      \ {d \in ids[b] : phase[<<b, d>>] = "cut"})
    BY DEF CountsMatchDocuments
  <2> DEFINE counted == {d \in ids[b] : status[d] = "ready"}
                          \ {d \in ids[b] : phase[<<b, d>>] = "cut"}
  <2>1. \A d \in ids[b] :
          /\ <<b, d>> \in TasksOf(b) /\ <<b, d>> \in Tasks /\ Alone(<<b, d>>)
          /\ Consistent(phase[<<b, d>>], status[d])
    <3>1. \A d \in ids[b] :
            <<b, d>> \in TasksOf(b) /\ <<b, d>> \in Tasks /\ Alone(<<b, d>>)
      BY <1>1 DEF BatchInv, TaskInv, BatchTypes, TasksOf, Tasks, Alone, Undisturbed
    <3>2. \A t \in Tasks : Alone(t) => Consistent(phase[t], status[t[2]])
      BY <1>1 DEF BatchInv, TaskInv, RunInv
    <3>3. \A d \in ids[b] : <<b, d>>[2] = d
      OBVIOUS
    <3> QED
      BY <3>1, <3>2, <3>3
  <2>2. \A d \in ids[b] : task[<<b, d>>] = "succeeded" <=> d \in counted
    <3> SUFFICES ASSUME NEW d \in ids[b]
                 PROVE  task[<<b, d>>] = "succeeded" <=> d \in counted
      OBVIOUS
    <3>1. task[<<b, d>>] \in {"succeeded", "failed"} /\ phase[<<b, d>>] \in Outcome
      BY <1>1, <2>1, ClosedBatch DEF BatchInv, TaskInv, ResultsTell
    <3>2. task[<<b, d>>] = "succeeded" => phase[<<b, d>>] = "succeeded"
      BY <1>1, <2>1 DEF BatchInv, TaskInv, ResultsTell
    <3>3. task[<<b, d>>] = "failed" => phase[<<b, d>>] # "succeeded"
      BY <1>1, <2>1 DEF BatchInv, TaskInv, ResultsTell
    <3>4. phase[<<b, d>>] = "succeeded" <=> status[d] = "ready" /\ phase[<<b, d>>] # "cut"
      BY <2>1, <3>1 DEF Consistent, Outcome, InProgress
    <3> QED
      BY <3>1, <3>2, <3>3, <3>4
  <2>3. In(b, "succeeded") = {b} \X counted
    <3>1. In(b, "succeeded") \subseteq {b} \X counted
      BY <2>2 DEF In, TasksOf, Tasks
    <3>2. {b} \X counted \subseteq In(b, "succeeded")
      BY <2>1, <2>2 DEF In
    <3> QED
      BY <3>1, <3>2
  <2>4. IsFiniteSet(counted) /\ Cardinality(counted) \in Nat
    <3>1. counted \subseteq ids[b] /\ IsFiniteSet(ids[b])
      BY <1>1, TasksOfAreFinite DEF BatchInv, TaskInv, BatchTypes
    <3> QED
      BY <3>1, FS_Subset, FS_CardinalityType
  <2> HIDE DEF counted
  <2>5. Cardinality({b} \X counted) = Cardinality(counted)
    <3>1. IsFiniteSet({b}) /\ Cardinality({b}) = 1
      BY FS_Singleton
    <3>2. Cardinality({b} \X counted) = 1 * Cardinality(counted)
      BY <2>4, <3>1, FS_Product
    <3> QED
      BY <2>4, <3>2
  <2>6. batch[b].completed = Cardinality(In(b, "succeeded"))
    BY <1>1, ClosedBatch DEF BatchInv, RowsFollow
  <2> QED
    BY <2>3, <2>5, <2>6 DEF counted
<1> QED
  BY <1>1, BatchInvariant, PTL

\* A batch moves from pending to running to one final status, and no step takes
\* it anywhere else.
THEOREM StatusMovesForward == ProcessorSpec => BatchStatusMovesForward
<1> DEFINE Forward ==
      \A b \in Batches :
        batch'[b].status # batch[b].status =>
          \/ batch[b].status = "pending" /\ batch'[b].status = "running"
          \/ batch[b].status = "running" /\ batch'[b].status \in Final
<1>1. ASSUME BatchInv, [ProcessorNext]_processorVars PROVE [Forward]_processorVars
  <2>1. ASSUME NEW docs \in SUBSET Docs \ {{}}, SomeBatch(docs) PROVE Forward
    <3> PICK b \in Batches : Submit(b, docs)
      BY <2>1 DEF SomeBatch
    <3> QED
      BY <1>1 DEF Submit, BatchInv, TaskInv, BatchTypes, Batch
  <2>2. ASSUME NEW b \in Batches, MarkRunning(b) PROVE Forward
    BY <1>1, <2>2 DEF MarkRunning, Goto, BatchInv, TaskInv, BatchTypes, Batch, RowsFollow
  <2>3. ASSUME NEW b \in Batches, Finalize(b) PROVE Forward
    <3>1. /\ batch[b].status = "running" /\ batch'[b].status \in Final
          /\ \A c \in Batches \ {b} : batch'[c] = batch[c]
      BY <1>1, <2>3
      DEF Finalize, Goto, FinalStatus, Final, BatchInv, TaskInv, BatchTypes, Batch, RowsFollow
    <3> QED
      BY <3>1
  <2>4. CASE UNCHANGED batch
    BY <2>4
  <2> QED
    BY <1>1, <2>1, <2>2, <2>3, <2>4
    DEF ProcessorNext, BatchStep, Drive, LoadBatch, Acquire, Release, Abort, Timeout,
        ReloadFails, Pipeline, Background, BackgroundFails, Crash, batchVars, processorVars
<1>2. [][ProcessorNext]_processorVars /\ []BatchInv => [][Forward]_processorVars
  BY <1>1, PTL
<1> QED
  BY <1>2, BatchInvariant, PTL DEF ProcessorSpec, BatchStatusMovesForward
=============================================================================
