------------------------- MODULE DocumentLifecycle ------------------------
(***************************************************************************)
(* What DocumentPipeline.process promises to its callers, the background   *)
(* task of the API and the batch processor: which statuses a run commits   *)
(* and in which order, and how the call ends.  Stages, audit rows,         *)
(* sessions, types and retries are left out; DocumentPipeline implements   *)
(* this module.                                                            *)
(***************************************************************************)
EXTENDS DocumentTypes

CONSTANTS Docs, Runs, NoDoc

ASSUME NoDocumentAssumption == NoDoc \notin Docs

VARIABLES status,   \* the committed status of each document
          phase,    \* how far each run is
          target    \* the document each run works on

lifecycleVars == <<status, phase, target>>

\* "loaded" and "resumed" tell whether the row that the run read said
\* "preprocessing" already; "ready" and "failed" are runs whose last commit is
\* made and that have not returned.
Outcome == {"succeeded", "unsuccessful", "raised", "cut"}
Phase == {"idle", "started", "loaded", "resumed", "preprocessing", "extracting",
          "validating", "ready", "failed"} \cup Outcome

Running(r) == phase[r] \notin {"idle"} \cup Outcome

Move(r, from, to) == phase[r] = from /\ phase' = [phase EXCEPT ![r] = to]
Commit(r, s) == status' = [status EXCEPT ![target[r]] = s]

LifecycleInit ==
  /\ status = [d \in Docs |-> "uploaded"]
  /\ phase = [r \in Runs |-> "idle"]
  /\ target = [r \in Runs |-> NoDoc]

Begin(r, d) ==
  /\ Move(r, "idle", "started")
  /\ target' = [target EXCEPT ![r] = d]
  /\ UNCHANGED status

ReadRow(r) ==
  /\ Move(r, "started",
          IF status[target[r]] = "preprocessing" THEN "resumed" ELSE "loaded")
  /\ UNCHANGED <<status, target>>

\* Variant: the first status is assigned and never committed.
EnterPreprocessUncommitted(r) ==
  /\ Move(r, "loaded", "preprocessing") \/ Move(r, "resumed", "preprocessing")
  /\ UNCHANGED <<status, target>>

\* A row that was read as "preprocessing" is not written again.
EnterPreprocess(r) ==
  /\ \/ Move(r, "loaded", "preprocessing") /\ Commit(r, "preprocessing")
     \/ Move(r, "resumed", "preprocessing") /\ UNCHANGED status
  /\ UNCHANGED target

EnterExtract(r) ==
  /\ Move(r, "preprocessing", "extracting")
  /\ Commit(r, "extracting")
  /\ UNCHANGED target

EnterValidate(r) ==
  /\ Move(r, "extracting", "validating")
  /\ Commit(r, "validating")
  /\ UNCHANGED target

Complete(r) ==
  /\ Move(r, "validating", "ready")
  /\ Commit(r, "ready")
  /\ UNCHANGED target

\* No extractor for the document's type: the one failure that is written.
GiveUp(r) ==
  /\ Move(r, "extracting", "failed")
  /\ Commit(r, "failed")
  /\ UNCHANGED target

\* Variant: process() swallows the exception and returns the document.
RaiseErrorSwallowed(r) ==
  /\ \E p \in InProgress : Move(r, p, "unsuccessful")
  /\ UNCHANGED <<status, target>>

\* A stage failed: process() raises and the row keeps its status.
RaiseError(r) ==
  /\ \E p \in InProgress : Move(r, p, "raised")
  /\ UNCHANGED <<status, target>>

ReturnDocument(r) ==
  /\ Move(r, "ready", "succeeded") \/ Move(r, "failed", "unsuccessful")
  /\ UNCHANGED <<status, target>>

CutOff(r) ==
  /\ Running(r)
  /\ phase' = [phase EXCEPT ![r] = "cut"]
  /\ UNCHANGED <<status, target>>

Advance(r) ==
  \/ ReadRow(r) \/ EnterPreprocess(r) \/ EnterExtract(r) \/ EnterValidate(r)
  \/ Complete(r) \/ GiveUp(r) \/ RaiseError(r) \/ ReturnDocument(r)

LifecycleNext ==
  \E r \in Runs : (\E d \in Docs : Begin(r, d)) \/ Advance(r) \/ CutOff(r)

LifecycleSpec ==
  /\ LifecycleInit /\ [][LifecycleNext]_lifecycleVars
  /\ \A r \in Runs : WF_lifecycleVars(Advance(r))
=============================================================================
