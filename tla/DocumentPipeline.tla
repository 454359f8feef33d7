------------------------- MODULE DocumentPipeline -------------------------
(***************************************************************************)
(* app/pipeline/pipeline.py: DocumentPipeline.process and the stages it    *)
(* runs, by any number of concurrent runs over shared document rows.       *)
(*                                                                         *)
(* A run is one call of process() with its own AsyncSession.  Between two  *)
(* awaits a run is alone on the event loop, so an action is the code from  *)
(* one await to the next, with the commit it ends in.  A run works on its  *)
(* session's copy of the row (view), read once; a commit writes only the   *)
(* columns that the run changed in that copy (Flush).                      *)
(***************************************************************************)
EXTENDS DocumentTypes, Naturals

CONSTANTS Docs, Runs, NoDoc,
          Payloads,      \* contents of an answer that a schema accepts
          NoData,        \* extracted_data IS NULL
          MaxAttempts    \* stop_after_attempt

ASSUME MaxAttemptsAssumption == MaxAttempts \in Nat \ {0}
ASSUME NoDocAssumption == NoDoc \notin Docs
ASSUME NoDataAssumption == NoData \notin [schema : Registered, payload : Payloads]

VARIABLES doc,      \* the committed row of each document
          audit,    \* the stage_executions row of each run and stage
          pc,       \* the await each run is at
          stage,    \* the stage each run is in or about to enter
          target,   \* the document each run works on
          view,     \* the row as the run's session holds it
          session,  \* the run's session: no transaction, one open, or expired
          calls,    \* LLM calls made in the current stage
          failure,  \* the exception that ended a stage
          raced     \* documents on which two runs have ever been live at once

vars == <<doc, audit, pc, stage, target, view, session, calls, failure, raced>>

Stages == {"preprocess", "classify", "extract", "validate"}
LLMStages == {"classify", "extract"}
Data == [schema : Registered, payload : Payloads]
Row == [status : DocumentStatus, docType : DocumentType, text : BOOLEAN,
        data : Data \cup {NoData}, error : BOOLEAN, completed : BOOLEAN]
AuditStatus == {"absent", "running", "success", "failed"}
Ended == {"returned", "raised", "cut"}
PC == {"idle", "load", "announce", "insert", "work", "success", "failure",
       "set_type", "finish", "handle", "returning"} \cup Ended
Failures == {"none", "storage", "transient", "fatal", "invalid", "no_extractor"}

\* A row as upload creates it.
Uploaded(docType) ==
  [status |-> "uploaded", docType |-> docType, text |-> FALSE, data |-> NoData,
   error |-> FALSE, completed |-> FALSE]

Live(r) == pc[r] \notin {"idle"} \cup Ended
RunsOn(d) == {r \in Runs : target[r] = d}

-----------------------------------------------------------------------------
(* The session *)

\* An UPDATE carries the columns whose value in the session differs from the
\* value the session read or last wrote; the others keep what is committed.
Column(committed, old, new, c) == IF new[c] # old[c] THEN new[c] ELSE committed[c]

\* Variant: a JSON column changed in place, which the session does not notice.
FlushWithoutData(committed, old, new) ==
  [new EXCEPT !.data = committed.data]

Flush(committed, old, new) ==
  [status    |-> Column(committed, old, new, "status"),
   docType   |-> Column(committed, old, new, "docType"),
   text      |-> Column(committed, old, new, "text"),
   data      |-> Column(committed, old, new, "data"),
   error     |-> Column(committed, old, new, "error"),
   completed |-> Column(committed, old, new, "completed")]

\* Assign attributes of the session's copy and commit.
Save(r, new) ==
  /\ doc' = [doc EXCEPT ![target[r]] = Flush(@, view[r], new)]
  /\ view' = [view EXCEPT ![r] = new]

\* A rollback that has a transaction to undo expires every object of the
\* session; one that has none does nothing.
Rollback(s) == IF s = "open" THEN "expired" ELSE s

Go(r, to) == pc' = [pc EXCEPT ![r] = to]
Log(r, outcome) == audit' = [audit EXCEPT ![r][stage[r]] = outcome]

-----------------------------------------------------------------------------
(* process() *)

Init ==
  /\ doc \in [Docs -> {Uploaded(t) : t \in DocumentType}]
  /\ audit = [r \in Runs |-> [s \in Stages |-> "absent"]]
  /\ pc = [r \in Runs |-> "idle"]
  /\ stage = [r \in Runs |-> "preprocess"]
  /\ target = [r \in Runs |-> NoDoc]
  /\ view = [r \in Runs |-> Uploaded("unknown")]
  /\ session = [r \in Runs |-> "clean"]
  /\ calls = [r \in Runs |-> 0]
  /\ failure = [r \in Runs |-> "none"]
  /\ raced = {}

\* A background task or a batch calls process(d).  Nothing in process() or in
\* the batch keeps a second run off a document that already has one.
Start(r, d) ==
  /\ pc[r] = "idle"
  /\ target' = [target EXCEPT ![r] = d]
  /\ raced' = raced \cup {e \in {d} : \E q \in RunsOn(d) : Live(q)}
  /\ Go(r, "load")
  /\ UNCHANGED <<doc, audit, stage, view, session, calls, failure>>

\* Variant: the session is kept from an earlier use and returns what it holds.
LoadFromCache(r) ==
  /\ pc[r] = "load"
  /\ Go(r, "announce")
  /\ UNCHANGED <<doc, audit, stage, target, view, session, calls, failure, raced>>

\* session.get: the only read of the row that the run makes.
Load(r) ==
  /\ pc[r] = "load"
  /\ view' = [view EXCEPT ![r] = doc[target[r]]]
  /\ Go(r, "announce")
  /\ UNCHANGED <<doc, audit, stage, target, session, calls, failure, raced>>

StatusOf == [preprocess |-> "preprocessing", extract |-> "extracting",
             validate |-> "validating"]

\* Commit the status of the stage that comes next; before extract, look the
\* extractor up, which sends a document of unknown type to the handler.
Announce(r) ==
  LET blocked == stage[r] = "extract" /\ ~HasExtractor(view[r].docType)
  IN  /\ pc[r] = "announce"
      /\ Save(r, [view[r] EXCEPT !.status = StatusOf[stage[r]]])
      /\ failure' = [failure EXCEPT ![r] = IF blocked THEN "no_extractor" ELSE @]
      /\ Go(r, IF blocked THEN "handle" ELSE "insert")
      /\ UNCHANGED <<audit, stage, target, session, calls, raced>>

\* _run_stage: insert the audit row, commit and refresh it.  The refresh leaves
\* a transaction open.
Insert(r) ==
  /\ pc[r] = "insert"
  /\ Log(r, "running")
  /\ session' = [session EXCEPT ![r] = "open"]
  /\ calls' = [calls EXCEPT ![r] = 0]
  /\ Go(r, "work")
  /\ UNCHANGED <<doc, stage, target, view, failure, raced>>

\* _preprocess: the stored file is read, its text is extracted and committed.
Preprocess(r) ==
  /\ pc[r] = "work" /\ stage[r] = "preprocess"
  /\ Save(r, [view[r] EXCEPT !.text = TRUE])
  /\ session' = [session EXCEPT ![r] = "clean"]
  /\ Go(r, "success")
  /\ UNCHANGED <<audit, stage, target, calls, failure, raced>>

\* _classify and _extract_with_retries: one call of llm.complete, answered with
\* text that the stage can use.
Answer(r) ==
  /\ pc[r] = "work" /\ stage[r] \in LLMStages
  /\ calls' = [calls EXCEPT ![r] = @ + 1]
  /\ Go(r, "success")
  /\ UNCHANGED <<doc, audit, stage, target, view, session, failure, raced>>

\* _validate: the schema of the extractor accepts the answer.
Validate(r) ==
  /\ pc[r] = "work" /\ stage[r] = "validate"
  /\ Go(r, "success")
  /\ UNCHANGED <<doc, audit, stage, target, view, session, calls, failure, raced>>

\* LLMTransientError, or an answer to extract that is not JSON: extract tries
\* again until MaxAttempts calls are made; classify does not.
RetryableUnbounded(r) == stage[r] = "extract"    \* Variant: no stop condition.

\* Variant: one attempt too few.
RetryableOnceLess(r) == stage[r] = "extract" /\ calls[r] + 2 < MaxAttempts

Retryable(r) == stage[r] = "extract" /\ calls[r] + 1 < MaxAttempts

Retry(r) ==
  /\ pc[r] = "work" /\ stage[r] \in LLMStages
  /\ Retryable(r)
  /\ calls' = [calls EXCEPT ![r] = @ + 1]
  /\ UNCHANGED <<doc, audit, pc, stage, target, view, session, failure, raced>>

\* The exceptions that leave each stage's coroutine.
RaisedBy(r) ==
  CASE stage[r] = "preprocess" -> {"storage"}
    [] stage[r] = "validate"   -> {"invalid"}
    [] OTHER -> {"fatal"} \cup {e \in {"transient"} : ~Retryable(r)}

BodyRaises(r) ==
  /\ pc[r] = "work"
  /\ \E e \in RaisedBy(r) : failure' = [failure EXCEPT ![r] = e]
  /\ calls' = [calls EXCEPT ![r] = IF stage[r] \in LLMStages THEN @ + 1 ELSE @]
  /\ Go(r, "failure")
  /\ UNCHANGED <<doc, audit, stage, target, view, session, raced>>

\* Variant: the answer of extract is stored without being validated.
AfterStageUnvalidated(r) ==
  CASE stage[r] = "preprocess" -> [stage |-> "extract", pc |-> "announce"]
    [] OTHER -> [stage |-> "validate", pc |-> "finish"]

\* Where process() goes when a stage has returned.
AfterStage(r) ==
  CASE stage[r] = "preprocess" /\ view[r].docType = "unknown" ->
                              [stage |-> "classify", pc |-> "insert"]
    [] stage[r] = "preprocess" /\ view[r].docType # "unknown" ->
                              [stage |-> "extract", pc |-> "announce"]
    [] stage[r] = "classify" -> [stage |-> "classify", pc |-> "set_type"]
    [] stage[r] = "extract"  -> [stage |-> "validate", pc |-> "announce"]
    [] stage[r] = "validate" -> [stage |-> "validate", pc |-> "finish"]

\* _run_stage, result in hand: close the audit row.
StageSucceeds(r) ==
  /\ pc[r] = "success"
  /\ Log(r, "success")
  /\ session' = [session EXCEPT ![r] = "clean"]
  /\ stage' = [stage EXCEPT ![r] = AfterStage(r).stage]
  /\ Go(r, AfterStage(r).pc)
  /\ UNCHANGED <<doc, target, view, calls, failure, raced>>

\* Variant: the row is not re-fetched after the rollback, so its update is lost.
StageFailsUnrecorded(r) ==
  /\ pc[r] = "failure"
  /\ session' = [session EXCEPT ![r] = Rollback(@)]
  /\ Go(r, "handle")
  /\ UNCHANGED <<doc, audit, stage, target, view, calls, failure, raced>>

\* Variant: a failed stage is run again, as often as it fails.
StageFailsAndReruns(r) ==
  /\ pc[r] = "failure"
  /\ Log(r, "failed")
  /\ Go(r, "insert")
  /\ UNCHANGED <<doc, stage, target, view, session, calls, failure, raced>>

\* _run_stage, exception in hand: roll back, re-fetch the audit row, mark it
\* failed and commit; the exception goes on to process().
StageFails(r) ==
  /\ pc[r] = "failure"
  /\ session' = [session EXCEPT ![r] = Rollback(@)]
  /\ Log(r, "failed")
  /\ Go(r, "handle")
  /\ UNCHANGED <<doc, stage, target, view, calls, failure, raced>>

\* Variant: the type is assigned and never committed.
SetTypeUncommitted(r) ==
  /\ pc[r] = "set_type"
  /\ \E t \in DocumentType : view' = [view EXCEPT ![r].docType = t]
  /\ stage' = [stage EXCEPT ![r] = "extract"]
  /\ Go(r, "announce")
  /\ UNCHANGED <<doc, audit, target, session, calls, failure, raced>>

\* Variant: a classified document goes to extract without being EXTRACTING.
SetTypeUnannounced(r) ==
  /\ pc[r] = "set_type"
  /\ \E t \in Registered : Save(r, [view[r] EXCEPT !.docType = t])
  /\ stage' = [stage EXCEPT ![r] = "extract"]
  /\ Go(r, "insert")
  /\ UNCHANGED <<audit, target, session, calls, failure, raced>>

\* Commit the type that the classifier picked: "unknown" too, also when its
\* answer is not JSON or names no type.
SetType(r) ==
  /\ pc[r] = "set_type"
  /\ \E t \in DocumentType : Save(r, [view[r] EXCEPT !.docType = t])
  /\ stage' = [stage EXCEPT ![r] = "extract"]
  /\ Go(r, "announce")
  /\ UNCHANGED <<audit, target, session, calls, failure, raced>>

\* Variant: success clears the error of an earlier run.
FinishClearingError(r) ==
  /\ pc[r] = "finish"
  /\ \E p \in Payloads :
       Save(r, [view[r] EXCEPT !.data = [schema |-> view[r].docType, payload |-> p],
                               !.status = "ready", !.error = FALSE, !.completed = TRUE])
  /\ Go(r, "returning")
  /\ UNCHANGED <<audit, stage, target, session, calls, failure, raced>>

\* Variant: the last commit is forgotten; the session's document is READY.
FinishUncommitted(r) ==
  /\ pc[r] = "finish"
  /\ \E p \in Payloads :
       view' = [view EXCEPT ![r].data = [schema |-> view[r].docType, payload |-> p],
                            ![r].status = "ready", ![r].completed = TRUE]
  /\ Go(r, "returning")
  /\ UNCHANGED <<doc, audit, stage, target, session, calls, failure, raced>>

Finish(r) ==
  /\ pc[r] = "finish"
  /\ \E p \in Payloads :
       Save(r, [view[r] EXCEPT !.data = [schema |-> view[r].docType, payload |-> p],
                               !.status = "ready", !.completed = TRUE])
  /\ Go(r, "returning")
  /\ UNCHANGED <<audit, stage, target, session, calls, failure, raced>>

\* Variant: the handler swallows the exception and writes nothing.
HandleSwallowing(r) ==
  /\ pc[r] = "handle"
  /\ Go(r, "returning")
  /\ UNCHANGED <<doc, audit, stage, target, view, session, calls, failure, raced>>

\* The except clauses of process(): roll back, re-fetch the document, mark it
\* FAILED.  Reading document.id on an expired object raises MissingGreenlet, and
\* that leaves process() before anything is written.
Handle(r) ==
  /\ pc[r] = "handle"
  /\ session' = [session EXCEPT ![r] = Rollback(@)]
  /\ IF session'[r] = "expired"
     THEN Go(r, "raised") /\ UNCHANGED <<doc, view>>
     ELSE /\ Save(r, [view[r] EXCEPT !.status = "failed", !.error = TRUE,
                                     !.completed = TRUE])
          /\ Go(r, "returning")
  /\ UNCHANGED <<audit, stage, target, calls, failure, raced>>

\* The last commit is answered and process() returns the session's document.
Return(r) ==
  /\ pc[r] = "returning"
  /\ Go(r, "returned")
  /\ UNCHANGED <<doc, audit, stage, target, view, session, calls, failure, raced>>

\* At any await the run may be cancelled (wait_for's CancelledError is no
\* Exception, so no handler runs), lose its database connection (the handlers
\* then meet the expired document) or die with the server.
Interrupt(r) ==
  /\ Live(r)
  /\ Go(r, "cut")
  /\ UNCHANGED <<doc, audit, stage, target, view, session, calls, failure, raced>>

-----------------------------------------------------------------------------
Step(r) ==
  \/ Load(r) \/ Announce(r) \/ Insert(r)
  \/ Preprocess(r) \/ Answer(r) \/ Validate(r) \/ Retry(r) \/ BodyRaises(r)
  \/ StageSucceeds(r) \/ StageFails(r)
  \/ SetType(r) \/ Finish(r) \/ Handle(r) \/ Return(r)

Next == \E r \in Runs : (\E d \in Docs : Start(r, d)) \/ Step(r) \/ Interrupt(r)

Spec == Init /\ [][Next]_vars

\* The event loop resumes a run whose await is answered, and storage, database
\* and LLM answer.  Nobody has to start or to interrupt a run.
FairSpec == Spec /\ \A r \in Runs : WF_vars(Step(r))
-----------------------------------------------------------------------------
(* Properties *)

\* Every variable stays in its range.
TypeOK ==
  /\ doc \in [Docs -> Row]
  /\ audit \in [Runs -> [Stages -> AuditStatus]]
  /\ pc \in [Runs -> PC]
  /\ stage \in [Runs -> Stages]
  /\ target \in [Runs -> Docs \cup {NoDoc}]
  /\ view \in [Runs -> Row]
  /\ session \in [Runs -> {"clean", "open", "expired"}]
  /\ calls \in [Runs -> 0 .. MaxAttempts]
  /\ failure \in [Runs -> Failures]
  /\ raced \subseteq Docs

Passed(d, s) == \E r \in RunsOn(d) : audit[r][s] = "success"

\* The committed status of a document never claims more than the audit trail
\* shows: extracting means that some run extracted its text, validating that
\* the LLM's answer was obtained, ready that an answer was validated.  It holds
\* with concurrent runs, stale sessions, cancellations and restarts.
StatusBackedByAudit ==
  \A d \in Docs :
    /\ doc[d].status \in {"extracting", "validating"} \cup Settled =>
         doc[d].text /\ Passed(d, "preprocess")
    /\ doc[d].status \in {"validating", "ready"} => Passed(d, "extract")
    /\ doc[d].status = "ready" => Passed(d, "validate")

\* A settled row is whole, although a commit writes only some of its columns: a
\* READY document has its data and its time of completion, a FAILED one its
\* error, whatever runs interleaved and however often it was processed.
SettledRowsAreWhole ==
  \A d \in Docs :
    /\ doc[d].status = "ready" => doc[d].data # NoData /\ doc[d].completed
    /\ doc[d].status = "failed" => doc[d].error /\ doc[d].completed

\* As long as a document never had two runs at once, the copy in a run's session
\* is the committed row: nothing a run decides (whether to classify, which
\* extractor, which columns to write) rests on a stale read, also when earlier
\* runs were cut off half way.
SessionsAreCurrent ==
  \A r \in Runs :
    Live(r) /\ pc[r] # "load" /\ target[r] \notin raced => view[r] = doc[target[r]]

\* The data of a READY document that never had two runs at once conforms to the
\* schema of the type in the same row, also when it was classified, reprocessed
\* or cut off in between.
DataMatchesType ==
  \A d \in Docs \ raced :
    doc[d].status = "ready" => doc[d].data.schema = doc[d].docType

\* The same of every document, once its runs are over.  README.md:123 says that
\* the LLM picks the most likely type, "then extracts accordingly".
DataAlwaysMatchesType ==
  \A d \in Docs :
    doc[d].status = "ready" /\ (\A r \in RunsOn(d) : ~Live(r)) =>
      doc[d].data.schema = doc[d].docType

\* The audit rows of a run tell how it ended.  A run that returned closed every
\* row as success; one that raised closed exactly one row as failed, that of
\* the stage it was in, and none stays "running"; a run that was cut off leaves
\* at most one row open.
AuditTellsOutcome ==
  \A r \in Runs :
    LET with(s) == {t \in Stages : audit[r][t] = s}
    IN  /\ pc[r] = "returned" => with("running") = {} /\ with("failed") = {}
        /\ pc[r] = "raised" => with("running") = {} /\ with("failed") = {stage[r]}
        /\ pc[r] = "cut" => \A s, t \in with("running") \cup with("failed") : s = t

\* extract gives up on a transient error only after MaxAttempts calls, and no
\* stage calls the LLM more often.
GivesUpAfterMaxAttempts ==
  \A r \in Runs :
    /\ calls[r] <= MaxAttempts
    /\ failure[r] = "transient" /\ stage[r] = "extract" => calls[r] = MaxAttempts

\* When every run on a document has returned, the document is settled, even if
\* runs overtook each other and each wrote only its own columns: the last commit
\* of a run is READY or FAILED, so the last commit of all is.
ReturnedRunsLeaveSettled ==
  \A d \in Docs :
    RunsOn(d) # {} /\ (\A r \in RunsOn(d) : pc[r] = "returned") =>
      doc[d].status \in Settled

\* The run has no extractor for its document and has written FAILED.
GaveUp(r) == failure[r] = "no_extractor" /\ view[r].status = "failed"

\* The error of a document is a memory, not part of its status: it is there if and
\* only if some run on the document has ever given up, a later success leaves it,
\* and no other run's commit of its own columns takes it away.
ErrorsAreKept == \A d \in Docs : doc[d].error <=> \E r \in RunsOn(d) : GaveUp(r)

\* The statuses that the code commits after each other.  This is not the machine
\* that the repository draws (StatusFollowsDiagram): FAILED is committed after
\* extracting and never after validating, and any status may go back to
\* preprocessing, when the document is processed again.
Successors(s) ==
  CASE s = "preprocessing" -> {"extracting"}
    [] s = "extracting" -> {"validating", "failed", "preprocessing"}
    [] s = "validating" -> {"ready", "preprocessing"}
    [] OTHER -> {"preprocessing"}

\* No step takes a document that never had two runs at once from a status to one
\* that the code does not commit after it: neither stale sessions nor what an
\* earlier run left half done lets a document skip a status.
StatusFollowsLifecycle ==
  [][\A d \in Docs \ raced' :
       doc'[d].status # doc[d].status => doc'[d].status \in Successors(doc[d].status)]_vars

\* Every call of process() ends, in a return, an exception or a cancellation,
\* provided the LLM answers: the retries are bounded.
EveryRunEnds == \A r \in Runs : Live(r) ~> pc[r] \in Ended

\* README.md:23: "when a stage fails mid-transaction, we rollback and persist
\* the failure cleanly"; process() has two handlers that set FAILED.
FailureIsPersisted ==
  \A r \in Runs :
    pc[r] = "raised" /\ target[r] \notin raced => doc[target[r]].status = "failed"

\* pipeline.py:6-8 says that each stage runs with bounded retries.
TransientErrorsAreRetried ==
  \A r \in Runs : failure[r] = "transient" => calls[r] = MaxAttempts

\* The arrows of schemas/document.py:3-7 and README.md:108-112.
DiagramArrows == {<<"uploaded", "preprocessing">>, <<"preprocessing", "extracting">>,
                  <<"extracting", "validating">>, <<"validating", "ready">>,
                  <<"validating", "failed">>}

\* The status of a document follows the state machine that the repository draws.
\* The way back to preprocessing is not held against the code: other parts of the
\* documents allow a document to be processed again.
StatusFollowsDiagram ==
  [][\A d \in Docs :
       doc'[d].status \notin {doc[d].status, "preprocessing"} =>
         <<doc[d].status, doc'[d].status>> \in DiagramArrows]_vars

-----------------------------------------------------------------------------
(* The pipeline implements DocumentLifecycle. *)

\* The phase of a run, from where it is and what its session read.
PhaseOf(r) ==
  CASE pc[r] \in {"idle", "raised", "cut"} -> pc[r]
    [] pc[r] = "load" -> "started"
    [] pc[r] = "announce" /\ stage[r] = "preprocess" ->
         IF view[r].status = "preprocessing" THEN "resumed" ELSE "loaded"
    [] pc[r] = "returned" -> IF view[r].status = "ready" THEN "succeeded" ELSE "unsuccessful"
    [] OTHER -> view[r].status

Lifecycle == INSTANCE DocumentLifecycle
               WITH status <- [d \in Docs |-> doc[d].status],
                    phase <- [r \in Runs |-> PhaseOf(r)]

\* Seen through committed statuses and phases, every behaviour of the pipeline
\* is one of DocumentLifecycle, its fairness included.
ImplementsLifecycle == Lifecycle!LifecycleSpec
=============================================================================
