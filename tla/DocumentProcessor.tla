------------------------ MODULE DocumentProcessor -------------------------
(***************************************************************************)
(* The whole service: the documents API (app/api/v1/documents.py) with the *)
(* upload half of DocumentService and the file storage, the background     *)
(* tasks it schedules, and the batches of BatchProcessor.  A document      *)
(* stands for one upload request: its row exists from the moment it is in  *)
(* rows.                                                                   *)
(***************************************************************************)
EXTENDS BatchProcessor

VARIABLES upload,   \* how far each upload request is
          files,    \* uploads whose file is in storage
          rows,     \* uploads whose row is committed
          queue     \* the document of each background task not yet begun

apiVars == <<upload, files, rows, queue>>
vars == <<processorVars, apiVars>>

BackgroundTasks == Runs \ Tasks
Upload == {"none", "saved", "inserted", "answered", "error"}

ApiInit ==
  /\ upload = [d \in Docs |-> "none"]
  /\ files = {}
  /\ rows = {}
  /\ queue = [r \in BackgroundTasks |-> NoDoc]

Init == ProcessorInit /\ ApiInit

Reach(d, from, to) == upload[d] = from /\ upload' = [upload EXCEPT ![d] = to]

\* The request passed the checks of type and size; the file is written under a
\* directory of its own.
SaveFile(d) ==
  /\ Reach(d, "none", "saved")
  /\ files' = files \cup {d}
  /\ UNCHANGED <<rows, queue, processorVars>>

InsertRow(d) ==
  /\ Reach(d, "saved", "inserted")
  /\ rows' = rows \cup {d}
  /\ UNCHANGED <<files, queue, processorVars>>

\* The write of the file, the commit or the refresh after it fails: the request
\* answers 500, and the file and the row that are already there stay.
UploadFails(d) ==
  /\ \E s \in {"none", "saved", "inserted"} : Reach(d, s, "error")
  /\ UNCHANGED <<files, rows, queue, processorVars>>

Free(r) == queue[r] = NoDoc /\ phase[r] = "idle"
Schedule(r, d) == Free(r) /\ queue' = [queue EXCEPT ![r] = d]

\* Variant: the request ends in a document status.
AnswerUploadAsReady(d) ==
  /\ Reach(d, "inserted", "ready")
  /\ UNCHANGED <<files, rows, queue, processorVars>>

\* The refresh is answered; with auto_process a background task is added.
AnswerUpload(d) ==
  /\ Reach(d, "inserted", "answered")
  /\ (\E r \in BackgroundTasks : Schedule(r, d)) \/ UNCHANGED queue
  /\ UNCHANGED <<files, rows, processorVars>>

\* DocumentService.get finds the document.
HasRow(d) == d \in rows

Processable == {"uploaded", "failed"}

\* POST /documents/{id}/process: 404 without a row, 409 unless the status that
\* was read is processable, else a background task.
ProcessRequest(r, d) ==
  /\ HasRow(d) /\ status[d] \in Processable
  /\ Schedule(r, d)
  /\ UNCHANGED <<upload, files, rows, processorVars>>

\* Variant: the background task checks the status again and gives up.
BeginBackgroundIfProcessable(r) ==
  /\ queue[r] # NoDoc /\ status[queue[r]] \in Processable
  /\ Begin(r, queue[r])
  /\ queue' = [queue EXCEPT ![r] = NoDoc]
  /\ UNCHANGED <<upload, files, rows, batchVars>>

\* The response is sent and the background task calls process().
BeginBackground(r) ==
  /\ queue[r] # NoDoc
  /\ Begin(r, queue[r])
  /\ queue' = [queue EXCEPT ![r] = NoDoc]
  /\ UNCHANGED <<upload, files, rows, batchVars>>

\* Variant: the rows are not looked up.
BatchRequestUnchecked(docs) == SomeBatch(docs) /\ UNCHANGED apiVars

\* POST /batches: every document must have a row, else 404.
BatchRequest(docs) == docs \subseteq rows /\ SomeBatch(docs) /\ UNCHANGED apiVars

\* The server stops.  Requests in flight and scheduled tasks are lost; rows and
\* files stay.
Stop ==
  /\ Crash
  /\ upload' = [d \in Docs |-> IF upload[d] \in {"saved", "inserted"} THEN "error"
                               ELSE upload[d]]
  /\ queue' = [r \in BackgroundTasks |-> NoDoc]
  /\ UNCHANGED <<files, rows>>

Request ==
  \/ \E d \in Docs : SaveFile(d) \/ InsertRow(d) \/ UploadFails(d) \/ AnswerUpload(d)
  \/ \E r \in BackgroundTasks, d \in Docs : ProcessRequest(r, d)
  \/ \E docs \in SUBSET Docs \ {{}} : BatchRequest(docs)

Work(r) == Pipeline(r) /\ UNCHANGED apiVars

Next ==
  \/ Request
  \/ \E r \in BackgroundTasks : BeginBackground(r)
  \/ \E r \in Runs : Work(r)
  \/ BatchStep /\ UNCHANGED apiVars
  \/ \E r \in Runs : BackgroundFails(r) /\ UNCHANGED apiVars
  \/ Stop

Spec == Init /\ [][Next]_vars

\* The event loop starts every background task and resumes its run, and what the
\* run waits for answers.
FairSpec ==
  Spec /\ \A r \in BackgroundTasks : WF_vars(BeginBackground(r)) /\ WF_vars(Work(r))

-----------------------------------------------------------------------------
(* Properties *)

\* Types of the API's own state.
ApiTypeOK ==
  /\ upload \in [Docs -> Upload]
  /\ files \subseteq Docs /\ rows \subseteq Docs
  /\ queue \in [BackgroundTasks -> Docs \cup {NoDoc}]

\* Whatever fails in between, a document that a background task, a batch or a run
\* is about has a committed row, and its file was stored before: process() never
\* meets "document not found" and read() never looks for a file nobody wrote.
WorkIsOnStoredDocuments ==
  /\ rows \subseteq files
  /\ \A r \in BackgroundTasks : queue[r] # NoDoc => queue[r] \in rows
  /\ \A r \in Runs : Running(r) => target[r] \in rows
  /\ \A d \in Docs : member[d] # NoBatch => d \in rows

\* A document that says it is being processed is being processed, or a run on it
\* was cut off or raised: runs that returned never leave it in progress, also
\* when several of them, from requests and batches, overtook each other.
InProgressIsExplained ==
  \A d \in Docs :
    status[d] \in InProgress =>
      \E r \in Runs : target[r] = d /\ (Running(r) \/ phase[r] \in {"raised", "cut"})

\* A document is left "uploaded" only while no run on it got to its first commit;
\* nothing takes a document back there.
UploadedMeansUntouched ==
  \A d \in Docs : status[d] = "uploaded" =>
    \A r \in Runs : target[r] = d => phase[r] \in {"started", "loaded", "cut"}

\* A background task that was accepted runs to its end, unless the server stops.
AcceptedTasksEnd ==
  \A r \in BackgroundTasks : queue[r] # NoDoc ~> phase[r] \in Outcome \/ Free(r)
=============================================================================
