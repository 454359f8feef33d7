-------------------------- MODULE BatchProcessor --------------------------
(***************************************************************************)
(* app/pipeline/batch.py: BatchProcessor.run, with the batch half of the   *)
(* service and of the API that creates and schedules batches, over the     *)
(* document runs of DocumentLifecycle.  Task <<b, d>> is the call of       *)
(* _process_one for document d in batch b, and the run of process() that   *)
(* it makes; the other runs are background tasks of the documents API.     *)
(***************************************************************************)
EXTENDS DocumentLifecycle, Naturals, FiniteSets

CONSTANTS Batches, NoBatch,
          Cap    \* batch_max_concurrency

Tasks == Batches \X Docs

ASSUME BatchRunsAssumption == Tasks \subseteq Runs
ASSUME CapAssumption == Cap \in Nat \ {0}
ASSUME NoBatchAssumption == NoBatch \notin Batches
ASSUME DocsAreFinite == IsFiniteSet(Docs)

VARIABLES batch,    \* the row of each batch
          member,   \* batch_id of each document
          flow,     \* how far run() is for each batch
          ids,      \* doc_ids, as run() read them
          task      \* where each call of _process_one is

batchVars == <<batch, member, flow, ids, task>>
processorVars == <<lifecycleVars, batchVars>>

Batch == [status : BatchStatus, total : 0 .. Cardinality(Docs),
          completed : 0 .. Cardinality(Docs), failed : 0 .. Cardinality(Docs)]
Final == {"completed", "partial", "failed"}
Flow == {"none", "submitted", "loaded", "running", "over", "lost"}
TaskState == {"none", "waiting", "holding", "succeeded", "failed", "lost"}

TasksOf(b) == {t \in Tasks : t[1] = b /\ t[2] \in ids[b]}
In(b, s) == {t \in TasksOf(b) : task[t] = s}
\* Variant: run() goes on with the first result.
FinishedFirst(b) == \E t \in TasksOf(b) : task[t] \in {"succeeded", "failed"}

Finished(b) == \A t \in TasksOf(b) : task[t] \in {"succeeded", "failed"}

Goto(b, from, to) == flow[b] = from /\ flow' = [flow EXCEPT ![b] = to]

BatchInit ==
  /\ batch = [b \in Batches |->
                [status |-> "pending", total |-> 0, completed |-> 0, failed |-> 0]]
  /\ member = [d \in Docs |-> NoBatch]
  /\ flow = [b \in Batches |-> "none"]
  /\ ids = [b \in Batches |-> {}]
  /\ task = [t \in Tasks |-> "none"]

\* POST /batches: one transaction inserts the row and points every document at
\* it, whatever its status and whichever batch it was in; then run() is scheduled.
Submit(b, docs) ==
  /\ Goto(b, "none", "submitted")
  /\ batch' = [batch EXCEPT ![b].total = Cardinality(docs)]
  /\ member' = [d \in Docs |-> IF d \in docs THEN b ELSE member[d]]
  /\ UNCHANGED <<ids, task, lifecycleVars>>

\* session.get loads the row with its documents.
LoadBatch(b) ==
  /\ Goto(b, "submitted", "loaded")
  /\ ids' = [ids EXCEPT ![b] = {d \in Docs : member[d] = b}]
  /\ UNCHANGED <<batch, member, task, lifecycleVars>>

\* Variant: the status is assigned and never committed.
MarkRunningUncommitted(b) ==
  /\ Goto(b, "loaded", "running")
  /\ task' = [t \in Tasks |-> IF t \in TasksOf(b) THEN "waiting" ELSE task[t]]
  /\ UNCHANGED <<batch, member, ids, lifecycleVars>>

\* RUNNING is committed and gather() creates a task for every document.
MarkRunning(b) ==
  /\ Goto(b, "loaded", "running")
  /\ batch' = [batch EXCEPT ![b].status = "running"]
  /\ task' = [t \in Tasks |-> IF t \in TasksOf(b) THEN "waiting" ELSE task[t]]
  /\ UNCHANGED <<member, ids, lifecycleVars>>

\* Variant: the tasks of a batch stop when its run() has raised.
AcquireWhileRunning(t) ==
  /\ task[t] = "waiting" /\ flow[t[1]] = "running"
  /\ Cardinality(In(t[1], "holding")) < Cap
  /\ task' = [task EXCEPT ![t] = "holding"]
  /\ Begin(t, t[2])
  /\ UNCHANGED <<batch, member, flow, ids>>

\* The batch's semaphore lets a task in, and the task calls process().
Acquire(t) ==
  /\ task[t] = "waiting"
  /\ Cardinality(In(t[1], "holding")) < Cap
  /\ task' = [task EXCEPT ![t] = "holding"]
  /\ Begin(t, t[2])
  /\ UNCHANGED <<batch, member, flow, ids>>

\* Variant: the timer gives up on process() without cancelling it.
TimeoutShielded(t) ==
  /\ task[t] = "holding" /\ Running(t)
  /\ task' = [task EXCEPT ![t] = "failed"]
  /\ UNCHANGED <<batch, member, flow, ids, lifecycleVars>>

\* wait_for runs out and cancels process(), even if its last commit is made, or a
\* read or commit of process() fails: the except clause of the task has both.
Timeout(t) ==
  /\ task[t] = "holding"
  /\ CutOff(t)
  /\ UNCHANGED batchVars

ReturnedRun(t) == phase[t] \in {"succeeded", "unsuccessful"}

\* Variant: a task succeeds when process() returned, whatever the status.
ReleaseOnReturn(t) ==
  /\ task[t] = "holding" /\ phase[t] \in Outcome
  /\ task' = [task EXCEPT ![t] = IF ReturnedRun(t) THEN "succeeded" ELSE "failed"]
  /\ UNCHANGED <<batch, member, flow, ids, lifecycleVars>>

\* Variant: the timeout is not caught and its task never answers.
ReleaseUnlessCut(t) ==
  /\ task[t] = "holding" /\ phase[t] \in Outcome \ {"cut"}
  /\ task' = [task EXCEPT ![t] =
                IF ReturnedRun(t) /\ status[t[2]] = "ready" THEN "succeeded" ELSE "failed"]
  /\ UNCHANGED <<batch, member, flow, ids, lifecycleVars>>

\* process() has ended: the task counts as a success when it returned and the
\* row, read once more, is READY; it leaves the semaphore either way.  Nothing
\* holds the document between the two awaits, so the session forgets it and the
\* second get reads what is committed by then.
Release(t) ==
  /\ task[t] = "holding" /\ phase[t] \in Outcome
  /\ task' = [task EXCEPT ![t] =
                IF ReturnedRun(t) /\ status[t[2]] = "ready" THEN "succeeded" ELSE "failed"]
  /\ UNCHANGED <<batch, member, flow, ids, lifecycleVars>>

\* That second get is outside the try: when it fails gather() raises and run()
\* with it, while the other tasks of the batch go on.
ReloadFails(t) ==
  /\ task[t] = "holding" /\ ReturnedRun(t)
  /\ task' = [task EXCEPT ![t] = "lost"]
  /\ flow' = [flow EXCEPT ![t[1]] = "lost"]
  /\ UNCHANGED <<batch, member, ids, lifecycleVars>>

\* Variant: a document status where a batch status belongs.
FinalStatusOfDocument(completed, failed) == IF failed = 0 THEN "ready" ELSE "failed"

\* Variant: one success is enough.
FinalStatusOfAny(completed, failed) == IF completed # 0 THEN "completed" ELSE "failed"

FinalStatus(completed, failed) ==
  CASE failed = 0 -> "completed"
    [] failed # 0 /\ completed = 0 -> "failed"
    [] OTHER -> "partial"

\* Variant: every result is counted as completed, failures included.
FinalizeAllResults(b) ==
  /\ Finished(b)
  /\ Goto(b, "running", "over")
  /\ batch' = [batch EXCEPT ![b].status = "partial", ![b].completed = Cardinality(ids[b]),
                            ![b].failed = Cardinality(In(b, "failed"))]
  /\ UNCHANGED <<member, ids, task, lifecycleVars>>

\* gather() has every result: count and close the batch.
Finalize(b) ==
  LET completed == Cardinality(In(b, "succeeded"))
      failed == Cardinality(ids[b]) - completed
  IN  /\ Finished(b)
      /\ Goto(b, "running", "over")
      /\ batch' = [batch EXCEPT ![b].status = FinalStatus(completed, failed),
                                ![b].completed = completed, ![b].failed = failed]
      /\ UNCHANGED <<member, ids, task, lifecycleVars>>

\* A commit of run() fails: the background task logs the exception and drops it.
Abort(b) ==
  /\ flow[b] \in {"submitted", "loaded", "running"}
  /\ flow[b] = "running" => Finished(b)
  /\ flow' = [flow EXCEPT ![b] = "lost"]
  /\ UNCHANGED <<batch, member, ids, task, lifecycleVars>>

\* The server stops: runs, tasks and background tasks live in its memory, and
\* nothing at start-up looks for what they left.
Crash ==
  /\ phase' = [r \in Runs |-> IF Running(r) THEN "cut" ELSE phase[r]]
  /\ flow' = [b \in Batches |->
                IF flow[b] \in {"submitted", "loaded", "running"} THEN "lost" ELSE flow[b]]
  /\ task' = [t \in Tasks |-> IF task[t] \in {"waiting", "holding"} THEN "lost" ELSE task[t]]
  /\ UNCHANGED <<status, target, batch, member, ids>>

\* A background task of the documents API starts a run of its own.
Background(r, d) == r \notin Tasks /\ Begin(r, d) /\ UNCHANGED batchVars

\* Its run ends in the middle: the read of the row or a commit fails, also before
\* anything is written, and the wrapper logs what process() raised.
BackgroundFails(r) == r \notin Tasks /\ CutOff(r) /\ UNCHANGED batchVars

Pipeline(r) == Advance(r) /\ UNCHANGED batchVars

Drive(b) ==
  \/ LoadBatch(b) \/ MarkRunning(b) \/ Finalize(b)
  \/ \E t \in TasksOf(b) : Acquire(t) \/ Release(t)

\* What happens to batches that exist, short of a crash.
BatchStep ==
  \/ \E b \in Batches : Drive(b) \/ Abort(b)
  \/ \E t \in Tasks : Timeout(t) \/ ReloadFails(t)

SomeBatch(docs) == \E b \in Batches : Submit(b, docs)

ProcessorNext ==
  \/ \E docs \in SUBSET Docs \ {{}} : SomeBatch(docs)
  \/ BatchStep
  \/ \E r \in Runs : Pipeline(r) \/ BackgroundFails(r) \/ \E d \in Docs : Background(r, d)
  \/ Crash

ProcessorInit == LifecycleInit /\ BatchInit

ProcessorSpec == ProcessorInit /\ [][ProcessorNext]_processorVars

\* The event loop drives run() and the timer of wait_for fires.  No answer of
\* the LLM, the storage or the database is assumed inside process().
FairProcessorSpec ==
  /\ ProcessorSpec
  /\ \A b \in Batches : WF_processorVars(Drive(b))
  /\ \A t \in Tasks : WF_processorVars(Timeout(t))

-----------------------------------------------------------------------------
(* Properties *)

BatchTypeOK ==
  /\ status \in [Docs -> DocumentStatus]
  /\ phase \in [Runs -> Phase]
  /\ target \in [Runs -> Docs \cup {NoDoc}]
  /\ batch \in [Batches -> Batch]
  /\ member \in [Docs -> Batches \cup {NoBatch}]
  /\ flow \in [Batches -> Flow]
  /\ ids \in [Batches -> SUBSET Docs]
  /\ task \in [Tasks -> TaskState]

\* A batch never has more than Cap calls of process() alive: however a call ends,
\* also when its timer fires, its slot is free only after it.  (That wait_for waits
\* for the call it cancels is taken from asyncio: CutOff is one step.)
BatchConcurrencyBounded ==
  \A b \in Batches : Cardinality({t \in TasksOf(b) : Running(t)}) <= Cap

\* README.md:170 and batch.py:3 say that the semaphore caps in-flight LLM calls,
\* which would bound the calls of process() that batches make, all together.
InFlightCallsCapped == Cardinality({t \in Tasks : Running(t)}) <= Cap

\* Nobody but task <<b, d>> ever worked on d.
Undisturbed(b, d) == \A r \in Runs \ {<<b, d>>} : target[r] # d

\* The counts of a closed batch tell what became of its documents, of those no
\* other run touched: every success counted is a READY document, and a READY
\* document that is not counted is one whose run was cut off after its last
\* commit.
CountsMatchDocuments ==
  \A b \in Batches :
    batch[b].status \in Final /\ (\A d \in ids[b] : Undisturbed(b, d)) =>
      LET ready == {d \in ids[b] : status[d] = "ready"}
          cut == {d \in ids[b] : phase[<<b, d>>] = "cut"}
      IN  batch[b].completed = Cardinality(ready \ cut)

\* COMPLETED is reported only when every document that the batch took on is
\* READY, and FAILED only when there are documents and none of them succeeded,
\* both of documents that no other run touched.
FinalStatusIsHonest ==
  \A b \in Batches :
    /\ batch[b].status = "completed" =>
         \A d \in ids[b] : Undisturbed(b, d) => status[d] = "ready"
    /\ batch[b].status = "failed" =>
         /\ ids[b] # {}
         /\ \A d \in ids[b] : Undisturbed(b, d) => phase[<<b, d>>] # "succeeded"

\* completed + failed never exceeds total, and equals it in a closed batch that
\* no later batch took documents from.
CountsAddUp ==
  \A b \in Batches :
    LET sum == batch[b].completed + batch[b].failed
    IN  /\ sum <= batch[b].total
        /\ batch[b].status \in Final /\ (\A c \in Batches \ {b} : flow[c] = "none") =>
             sum = batch[b].total

\* When a batch is closed its work is over: none of its runs is alive, so none of
\* its documents changes on its account any more.
ClosedBatchIsQuiet ==
  \A b \in Batches : batch[b].status \in Final => \A t \in Tasks : t[1] = b => ~Running(t)

\* A batch goes from pending to running to one final status and stays there.
BatchStatusMovesForward ==
  [][\A b \in Batches :
       batch'[b].status # batch[b].status =>
         \/ batch[b].status = "pending" /\ batch'[b].status = "running"
         \/ batch[b].status = "running" /\ batch'[b].status \in Final]_processorVars

\* README.md:186: re-processing a READY document is refused (HTTP 409).
ReadyIsNotReprocessed ==
  [][\A d \in Docs : status[d] = "ready" => status'[d] = "ready"]_processorVars

\* A scheduled batch is closed unless the server or a commit fails, whatever
\* process() does: its documents that hang are cut off and give their slots back.
EveryBatchEnds ==
  \A b \in Batches : flow[b] = "submitted" ~> flow[b] \in {"over", "lost"}

\* Every task gets a slot and leaves it again, also in a batch whose run() was
\* ended by the failed re-load of one document.
EveryTaskEnds == \A t \in Tasks : task[t] = "waiting" ~> task[t] \notin {"waiting", "holding"}
=============================================================================
