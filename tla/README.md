# Verification of the intelligent document processor

TLA+ models of the service under `src/app`, their TLC runs, and TLAPS proofs
about the pipeline, the batches, the service as a whole, the connection pool and
the content of documents.
Paths below are relative to `src/`.

## 1. Inventory

| Component | Code | State | Operations | Model |
|---|---|---|---|---|
| Document pipeline | `app/pipeline/pipeline.py` | row in `documents`, rows in `stage_executions`, the run's `AsyncSession` | `process`, `_run_stage`, `_preprocess`, `_classify`, `_extract_with_retries`, `_validate` | `DocumentPipeline` |
| Batch processor | `app/pipeline/batch.py`, `app/api/v1/batches.py`, `create_batch` | row in `batches`, `documents.batch_id`, one semaphore per `run()` | submit, `run`, `_process_one`, finalize | `BatchProcessor` |
| Documents API and service | `app/api/v1/documents.py`, `app/services/document_service.py` | requests in flight, background tasks | upload, process, (get, list) | `DocumentProcessor` |
| File storage | `app/services/storage.py` | files on disk | `save`, `read`, `delete`, `_safe_filename` | `save` in `DocumentProcessor`, `read` in the pipeline, names in `DocumentContent`; `delete` has no caller |
| Process life cycle | `app/main.py` | everything in memory | start, stop | `Crash`, `Stop` |
| Sessions and pool | `app/db/session.py` | identity map of a session; connections of the engine's pool | `get_session`, first statement, commit, rollback, close | `Save`, `Flush`, `Rollback` of `DocumentPipeline`; `ConnectionPool` |
| Preprocessor | `app/pipeline/preprocessor.py` | none | `extract_text`, `_flatten_json` | `DocumentContent`, `JsonText` |
| Mock LLM | `app/llm/mock.py` | none | `complete`, `_route`, `_classify_doctype` | `DocumentContent`; to the pipeline the LLM is an environment |
| Status machine, registry, schemas | `app/schemas/document.py`, `app/extractors/registry.py` | none | `get_extractor`, validation | `DocumentTypes`, `Conforms` of `DocumentContent` |
| Dependency wiring | `app/api/deps.py` | cached singletons | a session per request or task | one session per user in every module |
| Migrations, configuration, logging | `alembic/`, `app/core/` | none | | not modelled; settings are constants |

**How they interact.** The upload endpoint writes the file, commits the row and,
with `auto_process`, adds a background task. `POST /documents/{id}/process` adds
one too if the status it reads is `uploaded` or `failed`. `POST /batches` points
documents at a new batch and adds a background task that calls
`BatchProcessor.run`, which calls `process()` for every document under a
semaphore and a `wait_for` timer. Every call of `process()` has a session of its
own; all of them share the rows. Background tasks, runs and timers live in the
memory of one event loop and are gone when the server stops.

**What is hard.** Two runs may be live on one document (two requests, a request
and a batch, two batches): each reads the row once, works on its copy and writes
only the columns it changed. A stage keeps its transaction, and so a connection of the
pool, while it waits for the LLM. A rollback expires the session's objects. A
cancellation may land at any await and passes by `except Exception`. A stop loses
every run; nothing looks for what it left. A batch has to close whatever its
documents do. Retries must be bounded. The full list, each at its line and with
the properties that cover it, is `hazards` in `PROJECT.json`.

**What makes each part correct.**
- *Pipeline*: a status is never ahead of the audit trail; a settled row is
  whole; without overlap a run's copy is the row, its data has the row's type and
  no status is skipped; the audit rows tell how a run ended; retries
  stop at the limit; every run ends; a returned run leaves a settled document; an
  error is neither lost nor invented.
- *Batch*: at most `Cap` live runs; counts and final status are the truth about
  the documents; the batch closes, once, after its last run; status only moves
  forward; every task gets its slot and gives it back, also when `run()` is gone.
- *API*: work only on stored documents; a document in progress has a run that is
  live or was cut or raised; an accepted task runs.
- *Pool*: no connection is lost however its holder ends; nobody waits in a circle
  for slots, connections and tasks; a request is served or gives up.
- *Content*: a stored name is one that a file can have; the lines of a JSON
  document's text are its scalars, as far as keys and scalars allow and the cap of
  `raw_text` reaches; another extractor's answer never becomes data; amounts in
  any order give a valid invoice.

## 2. Modules

- `DocumentTypes`: enumerations and registry.
- `DocumentPipeline`: the core. An action is the code from one await to the next
  with the commit it ends in.
- `DocumentLifecycle`: what a call of `process()` promises: which statuses it
  commits in which order and how it ends. `DocumentPipeline` implements it under
  the mapping `status`, `PhaseOf`.
- `BatchProcessor` EXTENDS `DocumentLifecycle`: batches over abstract runs. Run
  `<<b, d>>` is the call of `_process_one` for `d` in `b`; the other runs are
  background tasks of the API.
- `DocumentProcessor` EXTENDS `BatchProcessor`: uploads, files, rows, scheduled
  tasks and stops: the whole service.
- `ConnectionPool`: the same runs, batches and requests seen by the engine's pool;
  rows and statuses are left out.
- `JsonText`: the values that `json.loads` returns, the text that `_flatten_json`
  makes of them character by character, and how lines, paths and values are read in it.
- `DocumentContent` EXTENDS `DocumentTypes`, `JsonText`: one upload's content from file
  name and bytes to validated data, when nothing fails.
- `MC*`: constants and symmetry sets for TLC; `MCDocumentContent` has the uploads.
- `DocumentPipelineProofs`: rows, audit trail, documents without overlapping runs;
  `PipelineOutcomeProofs` extends it: how runs leave a document, retries, the steps of
  `DocumentLifecycle`, errors.
- `BatchProofs`, `ProcessorProofs` (which extends it and `DocumentProcessor`),
  `ConnectionPoolProofs`.
- `NatRecursion`: a lemma about recursive definitions over natural numbers, for any
  right-hand side; `JsonTextProofs` has an instance of it for each recursive function of `JsonText`, and
  `DocumentContentProofs` extends `JsonTextProofs` and `DocumentContent`.

The pipeline is checked once in detail against `DocumentLifecycle`; batches and
the API are composed with `DocumentLifecycle` only, which keeps their state small.

Operators marked "Variant:" are the defects that the properties are shown to
catch. No specification uses them.

### State and actions of `DocumentPipeline`

| Variable | In the code |
|---|---|
| `doc` | committed row: `status`, `doc_type`, `raw_text` (present or not), `extracted_data` (its schema and one of a few contents), `error_message`, `completed_at` (present or not) |
| `audit` | `stage_executions.status` by run and stage |
| `pc`, `stage` | the await at which `process()` or `_run_stage` is |
| `view` | the `Document` in the run's session |
| `session` | `clean` (no transaction), `open`, `expired` (objects expired by a rollback) |
| `calls` | attempts of tenacity in the current stage |
| `failure` | class of the exception that left the stage |
| `raced` | history: documents that ever had two live runs |

| Action | Lines of `pipeline.py` |
|---|---|
| `Load` | 73 |
| `Announce` | 82, 102-111, 119: commit the next status; `get_extractor` |
| `Insert` | 175-185 |
| `Preprocess`, `Answer`, `Retry`, `Validate`, `BodyRaises` | 188, 215-291 |
| `StageSucceeds`, `StageFails` | 189-209 |
| `SetType`, `Finish`, `Handle`, `Return` | 97, 128-131, 134-154, 156 |
| `Interrupt` | cancellation by `wait_for`, a lost connection, a stop |

What is taken of SQLAlchemy, with `expire_on_commit=False` and
`autoflush=False` (`app/db/session.py`): an UPDATE carries the columns whose value
changed (`Flush`); `rollback()` with a transaction open expires every object of
the session, without one it does nothing (`Rollback`); an expired attribute read
outside a greenlet raises `MissingGreenlet` (`Handle`). `refresh(stage)` begins
the transaction that is open while the stage runs; `_preprocess` commits it. These
definitions are `external` in the map or translate the lines that use them.

A commit is one action and is atomic. A commit that is refused shows in the model
as an `Interrupt`: the handlers then meet an expired document and raise, without a
write. Inside `_preprocess` it is a `BodyRaises`, since `_run_stage` catches it.

### State and actions of `BatchProcessor` and `DocumentProcessor`

| Variable | In the code |
|---|---|
| `batch`, `member` | row in `batches`; `documents.batch_id` |
| `flow`, `ids`, `task` | where `run()` is, its `doc_ids`, where each `_process_one` is |
| `status`, `phase`, `target` | as in `DocumentLifecycle`: committed status, how far each run is, its document |
| `upload`, `files`, `rows`, `queue` | the upload requests; files written; rows committed; background tasks scheduled |

| Action | Code |
|---|---|
| `Submit`, `BatchRequest` | `DocumentService.create_batch` and `POST /batches` |
| `LoadBatch`, `MarkRunning`, `Finalize` | `batch.py` 44-53, 78-96 |
| `Acquire`, `Timeout`, `Release` | 63-76: the semaphore, `wait_for`, the second read of the row |
| `Background`, `BackgroundFails` | `documents.py` 60-73: a run of the API begins, or is ended by an exception, also before its first commit |
| `ReloadFails` | 74-76 are outside the `try`: the exception ends `gather()` and `run()`; the other tasks go on |
| `Abort` | a commit of `run()` fails; the API's wrapper logs the exception |
| `SaveFile`, `InsertRow`, `AnswerUpload`, `UploadFails` | `DocumentService.upload`, `POST /documents`; a refresh that fails leaves a row whose upload answered 500 |
| `ProcessRequest`, `BeginBackground` | `POST /documents/{id}/process`, `_process_in_background` |
| `Crash`, `Stop` | the server stops |

`create_batch` compares the number of rows it found with the length of the list of
ids; the models submit a set, so a list that names a document twice (which is
refused as "not found", and changes nothing) does not occur.

### State and actions of `ConnectionPool`

`pc` is the await at which a run, a batch or a request is; `held` the users whose
session has a connection; `used` the number that the pool counts as given out;
`left` the stages a run has still to begin. `Take`, `Give` and `TakeAndGive` are the
three ways in which a statement, a rollback or close, and a commit meet the pool.
`Refresh` takes the connection that `Work` waits with. Only `_preprocess`
commits at its end, so only the first stage gives it back in `Work`. Between two stages
come the commits of the code: a status (`Announce`), none before `classify`, a type and a
status after it (`SetType`); without an extractor `Announce` leads to the handler's
commit (`Finish`). Which of these a document takes depends on its type, which this
module leaves out, so `Close` and `Announce` choose. `PoolTimeout`
is the pool's own timeout, `CutOff` every other exception or cancellation.

Assumed of SQLAlchemy and FastAPI: `create_async_engine` is called without pool size or
timeout, so its pool has the default size (5 and 10 of overflow, `Capacity`) and
timeout (30 s, `PoolTimeout`, which may happen to any waiter while the pool is
full); a waiter has no place in a queue, any of them may get a free connection; a
commit is one step, so a connection is not held between the UPDATE and the COMMIT
of it. The session of a request is closed before the background tasks begin that
it added (`Respond`). FastAPI 0.110 to 0.117 do so; since 0.118 a `yield`
dependency is left after the response is sent, and so after its background tasks, and
`pyproject.toml` (`fastapi>=0.110.0`) admits both. `SomebodyCanGoOn`, `EveryUserEnds`
and the theorem `PoolHasNoDeadlock` are about the former. Under the latter a request can
hold its connection while it waits for its own background task, which needs another:
a circle that the model does not have. (`app/api/deps.py`:43 gives the task a session of
its own in either case.)

### State and actions of `DocumentContent`

`file` is the upload; `Refuse`, `Store`, `Preprocess`, `Classify`, `Extract` and
`Validate` are the functions it passes through. `text` is what `extract_text` returns
and the later stages get, `rawText` the column, cut at `StoredLimit` (50000). A text is
a sequence of characters. A phrase that `mock.py` looks for and an amount of money count
as one character each (`Words`, `Money`), in texts, JSON keys and JSON scalars alike, so
what the prompts see of a text is a prefix of it: `HeadRoom`, `ClassifyLimit` and
`ExtractLimit` are 48, 4000 and 8000 in the code. What bytes decode to, what a PDF says
and whether either can be read are inputs. File names are sequences of characters, as long
as the file system takes.

A JSON value (`Json[n]`) is a scalar, an array or an object of values
with at most `n` containers around a scalar; a scalar is what `str()` makes of it.
`FlattenJson` is `_flatten_json`, by recursion over `n`: `path: value` for a scalar, the
texts of the items joined by line breaks for a container, the empty ones left out, nothing
escaped. `Nodes` lists a value's parts and `Lines`, `PathTold` and `ValueTold` say how a
text is read; both are for reference. `MaxDepth` bounds `n`: containers
nested beyond Python's recursion limit make the stage fail, which is a matter of
`DocumentPipeline`. Left out: that a phrase or an amount can arise of several pieces (of
a key and the number that follows it, of digits on both sides of a cut) or be cut in two.
Retries, statuses and concurrency are those of
`DocumentPipeline`, and the mock's simulated errors are its transient ones.

## 3. Runs

| Run | What it shows | Instance |
|---|---|---|
| `pipeline` | rows, sessions, statuses and audit trail agree; errors are kept; every call ends; the pipeline implements `DocumentLifecycle`, fairness included | 1 document, 2 runs, 2 types, 2 contents, 3 attempts |
| `batch` | slots, counts, final status, quiet after closing, status order | 2 batches that may share 2 documents, `Cap` 1 |
| `batch_ends` | a batch closes and every task leaves its slot although nothing inside `process()` is assumed to answer | 1 batch, 2 documents, `Cap` 1, 1 background run |
| `processor` | uploads, requests, batch and stops together | 1 document, 1 batch, 2 background tasks |
| `pool` | no connection is lost, stages are bounded by the pool, somebody can always go on and nobody goes back, so that every user ends without the pool's timeout; no request starves with it | 2 batches of 1 document, 1 background run, 1 request, `Capacity` 2, 1 stage after `preprocess` |
| `content` | names, text of JSON and the cap of `raw_text`, routing, amounts, unreadable input | `MCDocumentContent`: see below |
| `pipeline_stage_failure` | refutes `FailureIsPersisted` | the smallest that shows it |
| `pipeline_classify_retry` | refutes `TransientErrorsAreRetried` | |
| `pipeline_diagram` | refutes `StatusFollowsDiagram` | 1 document, 1 run |
| `pipeline_race` | refutes `DataAlwaysMatchesType` | |
| `batch_calls` | refutes `InFlightCallsCapped` | |
| `batch_ready` | refutes `ReadyIsNotReprocessed` | 1 document, 2 batches |

**What the refuted statements say of the code.**
1. *A failed stage is not recorded in the document.* `_run_stage` rolls back the
   transaction that its `refresh` opened; that expires `document`; the handler in
   `process()` evaluates `document.id` (137, 147) and raises before it writes
   FAILED. The document stays `preprocessing`, `extracting` or `validating`, and
   `/process` then answers 409. Only the missing extractor, which is found outside
   `_run_stage`, is written as FAILED.
2. *`classify` is not retried*, although "each stage" is said to be.
3. *The documented state machine is not the code's.* `schemas/document.py`:3-7 and
   `README.md`:108-112 draw one arrow to `failed`, from `validating`. The code commits
   FAILED after `extracting` (no extractor) and, for the reason of 1, never after
   `validating`. `StatusFollowsLifecycle`, which holds, is about the statuses that the
   code does commit after each other (`Successors`).
4. *Two overlapping runs on an unclassified document* can leave READY with data of
   another type than `doc_type`.
5. *The semaphore is per batch*, so concurrent batches exceed the cap.
6. *A batch reprocesses READY documents*, which `/process` refuses.

`findings` in `PROJECT.json` quotes the texts that say otherwise. No run is needed to see
that `stage_executions.attempts` is the literal 1 (`pipeline.py`:179), although
`README.md`:187 says that every stage logs attempts.

**Bounds.** Two runs on one document suffice for every property of a row: they
cover a run after a run (also one that was cut or failed), two overlapping runs,
and a run over what two overlapping runs left would only add another copy of the
same race; three runs with one type and one attempt were also tried, with no new result.
Documents do not interact except through a batch. Two registered types are needed
for a mismatch, two contents for one run to change the data of another, three
attempts because that is the code's number. `Cap` 1 makes two tasks compete; two
batches make them take documents from each other. In `pool`, two connections can be
held by stages of a batch and of a background run while another batch and a
request wait, so every kind of user waits behind every other; one stage
after `preprocess` has both kinds of stage, the one that commits at its end and the one
that does not. What the proofs cover does not depend on these bounds.

`content` takes uploads in families that vary one aspect each, of every type that the
form may declare: names of up to 4
characters out of a letter, a dot, a slash and a space (enough for `..`, `./..`,
`a/..` and empty components), with each size and a refused mime type; texts with
two phrases on either side of each limit as markdown, and with one or none as PDF and
JSON that can or cannot be read; up to three amounts out of four values, in any order. The
limits are 4, 8, 12 and 16 characters instead of 48, 4000, 8000 and 50000: what matters is
their order and that texts are shorter, as long and longer. JSON comes in two families:
containers of up to two items nested twice (`MaxDepth` 2) with keys that are empty, plain
or look like a path (declared "unknown"); and scalars and keys with line breaks, colons, phrases
and amounts, nested once or twice, whose texts are shorter and longer than `StoredLimit`.

Symmetry is used in `batch` and in the two-run instances of the pipeline that expect a
violation, where no liveness is checked. `CHECK_DEADLOCK FALSE`: a
finite set of runs and batches ends and the system then really waits for the next
request. No state constraint is used; `calls` is bounded by the code.

**Fairness.** `FairSpec` of the pipeline has weak fairness of each run's own step:
the event loop resumes a run whose await is answered, and storage, database and LLM
do answer (no timeout guards them outside a batch). Nothing is assumed of `Start` or
`Interrupt`. `batch_ends` assumes less: `run()` is resumed and the timer of
`wait_for` fires. `processor` has weak fairness of the start and the steps of each
background task. `pool` has weak fairness of the steps of runs, batches and
requests and of a task's entry into the semaphore. What a property needs beyond that is its
premise: `EveryUserEnds` that the bodies of stages answer, and not that any waiter
times out; `EveryRequestEnds` that the pool's timeout fires, and not that the LLM
ever answers.

**What `content` says of the code.** The only name that `save()` cannot store is
one whose last component is `..`. The prompt's head that `_route` looks at has room for 48
characters of a contract, and of no other type: a contract that opens with
"support" is answered as a ticket, and the schema then refuses it. An unreadable PDF,
or JSON without a scalar, becomes a READY document with invented data if the
upload declared its type, and fails if it has to be classified.

The text of a JSON document tells its scalars only if its keys have no line break and no
colon and its scalars no line break (`Legible`): `{"a": "x\nb: y"}` and
`{"a": "x", "b": "y"}` have the same text. Then its lines are one to one
with its scalars and have their values. Empty containers leave no trace; keys with dots or
brackets, or empty ones, can give two scalars one path, plain keys cannot. `raw_text` keeps
50000 characters of it: the lines before the cut are those of the document, the line that
is cut can tell anything, and the scalars behind it are in no line (the stages that follow get the
whole text).

## 4. Proofs

Each theorem holds for all values of the constants, under the named assumptions of
the modules: `NoDoc`, `NoData` and `NoBatch` are none of the values they stand
beside, `MaxAttempts`, `Cap` and `Capacity` are at least 1, a batch's tasks are among
the runs (`BatchRunsAssumption`), the sets that are counted are finite
(`DocsAreFinite`, `UsersAreFinite`), users of different kinds differ
(`KindsAreDisjoint`), texts may have digits, dots, brackets, colons, blanks, line breaks
and the mock's phrases (`JsonAssumption`, `WordsAssumption`), amounts are not negative
(`MoneyAssumption`: the pattern of `mock.py`:123 takes no sign), the limits grow in the order of
the code's (`LimitsAssumption`), the types are the code's three (`RegistryAssumption`), and
uploads consist of what a request can have (`FilesAssumption`).

**The pipeline**, for any number of concurrent runs on a document:

| Theorem | Statement | Inductive invariant |
|---|---|---|
| `TypeCorrect` | `Spec => []TypeOK` | `LocatedInv` |
| `SettledRowsWhole` | `Spec => []SettledRowsAreWhole` | `RowsInv` |
| `AuditTells` | `Spec => []AuditTellsOutcome` | `AuditInv` |
| `StatusBacked` | `Spec => []StatusBackedByAudit` | `StatusInv` |
| `SessionsCurrent` | `Spec => []SessionsAreCurrent` | `CurrentInv` |
| `DataMatches` | `Spec => []DataMatchesType` | `QuietInv` and the property |
| `StatusFollows` | `Spec => StatusFollowsLifecycle` | `QuietInv` |
| `ReturnedRunsSettle` | `Spec => []ReturnedRunsLeaveSettled` | `OutcomeInv` |
| `GivesUp` | `Spec => []GivesUpAfterMaxAttempts` | `FailureInv` |
| `ImplementsSafely` | `Spec => LifecycleSafety` | `QuietInv` |
| `ErrorsKept` | `Spec => []ErrorsAreKept` | `ErrorInv` |
| `RunsForward` | `Spec => RunsGoForward` | `LocatedInv` |

- `LocatedInv` adds to `TypeOK` where each run can be: `TypeOK` alone is not
  inductive, because the data stored by `Finish` is well-typed only if the
  session's type is registered, and `calls` stays in range only if an attempt is
  left when the LLM is called.
- `RowsInv` rests on `Grows`: no commit takes away a text, data, an error or a
  time of completion. A commit writes only changed columns, so it relies on the
  copy never having what the row lacks (`CopyInv`). `StepChangesRows` reduces the
  steps to a read and a commit; `FlushGrows` and `FlushWhole` settle the commit.
- `AuditInv` ties the open or failed audit row to the stage and to the state of the
  session, which decides whether process() returns or raises.
- `StatusInv` adds which stages have succeeded from where the run is (`Progress`).
  `StatusIsBacked` shows that a changed status is backed by the run that changes
  it, `PassedStays` that a success is never overwritten, `RowsGrow` that the text
  stays.
- `CurrentInv` adds that two live runs on a document put it in `raced`
  (`RaceInv`). A commit from a current copy writes that copy (`FlushCurrent`), and
  on a document that is not in `raced` no other live copy becomes stale by it.
- `QuietInv` adds the status that the copy has at each await (`CopyStatus`).
  `QuietStep` then lists what a step does to the row of a document without
  overlapping runs; `DataMatches` and `StatusFollows` read it off.
- `OutcomeInv`: a document in progress is on the account of a run that still has
  its last commit to make, was cut off or raised, and a document is `uploaded`
  only before the first commit of every run on it. `BusyStays` is the point that
  could fail: a run that returns without having changed the status in its copy
  would write none. It always has, since the copy is in progress until then.
- `FailureInv`: a run with an exception in hand makes no further call.

- `ImplementsSafely` maps each action to one of `DocumentLifecycle` or to a stutter.
  It needs `CopyStatus` for the phase a run is shown in, `AuditInv` for the session's
  state, which decides between `GiveUp` and `RaiseError`, and nothing about
  overlapping runs: it holds for stale copies too.
- `ErrorInv`: whoever gave up has the error in its copy, so no later commit of that
  session clears it, and only a run without an extractor reaches the write.
- `RunsGoForward` is stated beside its proof: `ToDo` counts the steps that a run can
  still make, at most `5 * MaxAttempts + 47`. It is the part of `EveryRunEnds` that
  needs no fairness; TLC checked it once on the instance of `pipeline`.

**Batches and the service**

| Theorem | Statement | Inductive invariant |
|---|---|---|
| `BatchTypeCorrect` | `ProcessorSpec => []BatchTypeOK` | `TaskInv` |
| `SlotsBoundRuns` | `ProcessorSpec => []BatchConcurrencyBounded` | `TaskInv` |
| `ClosedBatchesAreQuiet` | `ProcessorSpec => []ClosedBatchIsQuiet` | `BatchInv` |
| `CountsAdd` | `ProcessorSpec => []CountsAddUp` | `BatchInv` |
| `StatusIsHonest` | `ProcessorSpec => []FinalStatusIsHonest` | `BatchInv` |
| `CountsMatch` | `ProcessorSpec => []CountsMatchDocuments` | `BatchInv` |
| `StatusMovesForward` | `ProcessorSpec => BatchStatusMovesForward` | `BatchInv` |
| `ApiTypeCorrect` | `Spec => []ApiTypeOK` | itself |
| `ServiceImplementsBatches` | `Spec => ProcessorSpec` | `ApiTypeOK` |
| `WorkIsStored` | `Spec => []WorkIsOnStoredDocuments` | `StoredInv` |
| `ProgressIsExplained` | `Spec => []InProgressIsExplained` | `StatusInv` |
| `UploadedIsUntouched` | `Spec => []UploadedMeansUntouched` | `StatusInv` |

- `RunInv` says what phase and status have to do with each other for a task that is
  alone on its document (`Consistent`). `TaskInv` adds that a live run of a batch is
  inside a slot (`RunsAreHeld`), that slots stay within `Cap`, and that a task's
  result is that of its run. `BatchInv` adds what the row of a batch says at each
  point of `run()` and that a batch works on documents it was submitted with
  (`TotalsFollow`); `CountsMatch` then counts: the tasks that succeeded are one
  to one with the documents that are READY and were not cut off.
- `ServiceImplementsBatches` is step simulation: every action of the service is one
  of `BatchProcessor` or leaves its variables alone. With it each theorem about
  `ProcessorSpec` holds for the service.
- `StoredInv` adds to the property that a request has got where it says and that
  the documents read by `run()` have rows.
- `ExplainedInv` is sharper than `InProgressIsExplained`: a run that has made its
  last commit does not count as an explanation, for the property itself is not
  kept when such a run returns.

**The pool**

| Theorem | Statement | Inductive invariant |
|---|---|---|
| `PoolTypeCorrect` | `Spec => []PoolTypeOK` | `PoolInv` |
| `ConnectionsAreKept` | `Spec => []NoConnectionIsLost` | `PoolInv` |
| `PoolBoundsStages` | `Spec => []StagesBoundedByPool` | `PoolInv` |
| `PoolHasNoDeadlock` | `Spec => []SomebodyCanGoOn` | `PoolInv` |
| `PoolStepsAreProgress` | `Spec => EveryStepIsProgress` | `PoolInv` |

- `PoolInv` adds that a batch that waits for its documents holds no connection (its
  run() can end there through a task's failure, without giving anything back) and
  that a stage's body runs only while its run holds one. The bound on stages is then
  the capacity of the pool.

- `PoolHasNoDeadlock`: while somebody holds a connection a holder can go on; while
  nobody does, the pool is not full, so who needs one gets one; and if all that are
  live are batches that wait, none of their tasks is live, so each has ended or is let
  in. `PoolStepsAreProgress` gives each user a number that falls with each of its
  steps and never rises. Together they are the part of `EveryUserEnds` that is
  about states and steps: a system that can always take a step, and only finitely
  many, comes to an end. (`CanGoOn` is built from the guards of the actions; TLC
  confirmed on the instance of `pool` that it is `ENABLED` of a user's own steps.) What remains to TLC is that fairness turns "somebody can" into
  "somebody does".

**Content**

| Theorem | Statement | Rests on |
|---|---|---|
| `TextTellsScalars` | the lines of the text of any legible value of `Json[n]` are its scalars | `TextIsWritten`, `LinesRead`, `PlainPathsDiffer` |
| `ContentWellTyped` | `Spec => []ContentTypeOK` | `ContentInv` |
| `OnlyDotDotFails` | `Spec => []OnlyDotDotCannotBeStored` | `ContentInv`, `SafeNameType` |
| `EveryScalarIsTold` | `Spec => []LeavesAreTold` | `ContentInv`, `TextTellsScalars`, `LinesBeforeTheCut` |
| `OwnPromptAnswers` | `Spec => []OwnPromptOwnShape` | `ContentInv`, `RouteCases` |
| `ReadyDataFit` | `Spec => []ReadyHasOwnShape` | `ContentInv`, `ShapeConforms` |
| `OwnAnswersAccepted` | `Spec => []OwnShapeIsAccepted` | `ContentInv`, `InvoiceAddsUp` |
| `NothingInventedUndeclared` | `Spec => []InventedOnlyWhenDeclared` | `ContentInv` |

- `ContentInv` says at each stage which function of the upload every variable is. The
  properties are then facts about these functions, for names, amounts and values
  of any size: `LastComponentType` and `SafeNameType` about names, `LargestIsLargest` and
  `InvoiceAddsUp` about amounts, `RouteCases` and `ShapeConforms` about routing and schemas.
- *Recursion and induction.* A recursive function is for the provers one that was
  CHOSEN to satisfy its equation; that the choice exists is a lemma of `NatRecursion`,
  proved once for any right-hand side and used by INSTANCE for `Json`, `Numeral`,
  `FlattenJson`, `Nodes` and the fold in `FlattenSeq`. Induction is a least
  counterexample each time (`LeastElement`), since a theorem about an arbitrary predicate
  cannot be cited.
- `TextTellsScalars` goes from the value to its scalars, from these to the characters, and
  from the characters back to lines. `LeafLines` is the list of pairs of path and scalar
  that a text should tell. `JsonIsTold` shows that the list is one to one with the scalars, by
  induction over the nesting. `TextIsWritten` shows that `FlattenJson` writes this list
  and nothing else: `Written(text, lines, start)` says where each entry starts in the text,
  that its characters follow, and that a line break is between it and the next one;
  `WrittenAppended` is how two such texts join. `LinesRead` shows that the lines of a written
  text, which are defined by its line breaks alone, are then one to one with the entries
  if no entry has a line break; `LegibleLines` that it has none, and `LineIsRead` that the
  first colon of a line is the one behind its path, so the value that is read is the scalar.
- `PlainPathsDiffer` shows that paths are
  distinct: the paths of an item all continue the item's own path with a dot, a bracket or nothing
  (`PathsDiffer` carries both), `ItemPathsDiffer` that two items' paths continued so
  are never equal, since a plain key ends at the first mark (`UnambiguousPrefix`) and a
  number at its bracket, and different numbers are written differently (`NumeralInjective`).
- `LinesBeforeTheCut`: a line of `raw_text` that ends before its end is a line of the
  whole text, at the same place.

**Only model-checked**: liveness (`EveryRunEnds`, `EveryBatchEnds`, `EveryTaskEnds`,
`AcceptedTasksEnd`, `EveryUserEnds`, `EveryRequestEnds`) and the fairness in
`ImplementsLifecycle`, because `ENABLED` and liveness are outside what the installed
provers do. All other properties of passing runs are proved.

## 5. Not modelled

- Migrations (`alembic/`): DDL that is run before the service starts.
- Configuration and logging: settings are constants of the modules, or nobody reads them
  (`llm_timeout_seconds`, `llm_max_retries`); logging is no behaviour.
- Read-only endpoints (get, list, types, health) change no state.
- `LocalDiskStorage.delete` has no caller in `app/`.
- The texts of errors, prompts and answers are abstracted to what the code decides
  on; so are decoding, the reading of PDFs, and the fields of an answer that no
  schema can refuse.
- The session factory that tests pass to `BatchProcessor`.

## 6. Plan

The modules were written in the order `DocumentTypes`, `DocumentPipeline`,
`DocumentLifecycle`, `BatchProcessor`, `DocumentProcessor`, `ConnectionPool`,
`DocumentContent`, each with its run, and then the proofs of section 4 in the same
order. Everything that the plan named is done. What could be added:
1. A queue of waiters in `ConnectionPool` (the pool of asyncio serves them in order):
   it would allow to bound how many others a waiter sees served before it.
2. For `BatchProcessor` what `PoolHasNoDeadlock` and `PoolStepsAreProgress` are for the
   pool.
