---------------------- MODULE PipelineOutcomeProofs ----------------------
(***************************************************************************)
(* Proofs about what becomes visible of the runs of DocumentPipeline: how  *)
(* they leave a document, also when they overtook each other, that every   *)
(* step is one that DocumentLifecycle lets a caller of process() see, and  *)
(* that the errors which these steps write are never lost.                 *)
(***************************************************************************)
EXTENDS DocumentPipelineProofs

-----------------------------------------------------------------------------
(* Outcomes *)

\* A run that accounts for a document in progress: one between its first commit
\* and its last, or one that was cut off or raised.
Busy(r) == InStage(r) \/ pc[r] \in {"raised", "cut"}

\* A document is in progress only on some run's account, and is "uploaded" only
\* before the first commit of every run on it.
Accounted(d) == doc[d].status \in InProgress => \E r \in RunsOn(d) : Busy(r)

Untouched(r) ==
  /\ \/ pc[r] \in {"load", "cut"}
     \/ pc[r] = "announce" /\ stage[r] = "preprocess"
  /\ view[r].status = "uploaded"

Fresh(d) == doc[d].status = "uploaded" => \A r \in RunsOn(d) : Untouched(r)

OutcomeInv ==
  /\ CopyStatusInv /\ RowsInv
  /\ \A d \in Docs : Accounted(d) /\ Fresh(d)

LEMMA InitOutcome == Init => OutcomeInv
<1> SUFFICES ASSUME Init PROVE OutcomeInv
  OBVIOUS
<1>1. CopyStatusInv /\ RowsInv
  BY InitCopyStatus, InitRows
<1>2. \A d \in Docs : doc[d].status = "uploaded" /\ RunsOn(d) = {}
  BY NoDocAssumption DEF Init, Uploaded, RunsOn
<1>3. QED
  BY <1>1, <1>2 DEF OutcomeInv, Accounted, Fresh, InProgress

\* A run stops accounting for its document only by settling it.
LEMMA BusyStays ==
  ASSUME CopyStatusInv, [Next]_vars, NEW w \in Runs, Busy(w)
  PROVE  Busy(w)' \/ doc'[target[w]].status \in Settled
<1>a. TypeOK /\ LocatedInv
  BY DEF CopyStatusInv, LocatedInv
<1>b. /\ CopyStatus(w) /\ Located(w) /\ view[w] \in Row
      /\ stage[w] \in {"preprocess", "classify", "extract", "validate"}
  BY <1>a DEF CopyStatusInv, LocatedInv, TypeOK, Stages
<1>c. target[w] \in Docs
  BY <1>b DEF Busy, InStage, Located
<1>d. ASSUME NEW new \in Row, Save(w, new), InStage(w), new.status \in Settled
      PROVE  doc'[target[w]].status \in Settled
  <2>1. view[w].status # new.status
    BY <1>b, <1>d DEF CopyStatus, Expected, Settled
  <2>2. doc'[target[w]].status = new.status
    BY <1>a, <1>c, <1>d, <2>1 DEF Save, Flush, Column, TypeOK
  <2>3. QED
    BY <1>d, <2>2
<1>1. CASE Finish(w)
  <2>1. PICK p \in Payloads :
          Save(w, [view[w] EXCEPT !.data = [schema |-> view[w].docType, payload |-> p],
                                  !.status = "ready", !.completed = TRUE])
    BY <1>1 DEF Finish
  <2> DEFINE dat == [schema |-> view[w].docType, payload |-> p]
             new == [view[w] EXCEPT !.data = dat, !.status = "ready", !.completed = TRUE]
  <2>2. Save(w, new) /\ InStage(w)
    BY <1>1, <2>1 DEF Finish, InStage
  <2>3. dat \in Data
    BY <1>1, <1>b DEF Finish, Located, Data
  <2> HIDE DEF dat
  <2>4. new \in Row /\ new.status \in Settled
    BY <1>b, <2>3 DEF Row, DocumentStatus, Settled
  <2> HIDE DEF new
  <2>5. QED
    BY <1>d, <2>2, <2>4
<1>2. CASE Handle(w)
  <2> DEFINE new == [view[w] EXCEPT !.status = "failed", !.error = TRUE,
                                    !.completed = TRUE]
  <2>1. Go(w, "raised") \/ Save(w, new)
    BY <1>2 DEF Handle
  <2>2. new \in Row /\ new.status \in Settled /\ InStage(w)
    BY <1>2, <1>b DEF Row, DocumentStatus, Settled, Handle, InStage
  <2> HIDE DEF new
  <2>3. QED
    BY <1>a, <1>d, <2>1, <2>2 DEF Go, TypeOK, Busy
<1>3. CASE StageSucceeds(w)
  BY <1>3, <1>a, <1>b DEF StageSucceeds, AfterStage, Go, TypeOK, Busy, InStage
<1>4. CASE SetType(w) \/ Announce(w)
  <2>1. \/ pc'[w] \in {"handle", "insert"}
        \/ pc'[w] = "announce" /\ stage'[w] = "extract"
    BY <1>4, <1>a DEF SetType, Announce, Go, TypeOK
  <2>2. QED
    BY <2>1 DEF Busy, InStage
<1>5. CASE Insert(w) \/ Preprocess(w) \/ Answer(w) \/ Validate(w) \/ Retry(w)
           \/ BodyRaises(w) \/ StageFails(w) \/ Interrupt(w)
  <2>1. pc'[w] \in {"work", "success", "failure", "handle", "cut"} \/ UNCHANGED <<pc, stage>>
    BY <1>5, <1>a DEF Insert, Preprocess, Answer, Validate, Retry, BodyRaises, StageFails,
       Interrupt, Go, TypeOK
  <2>2. QED
    BY <2>1 DEF Busy, InStage
<1>6. (\A d \in Docs : ~Start(w, d)) /\ ~Load(w) /\ ~Return(w)
  BY DEF Start, Load, Return, Busy, InStage
<1>7. ASSUME NEW q \in Runs \ {w}, (\E d \in Docs : Start(q, d)) \/ Step(q) \/ Interrupt(q)
      PROVE  Busy(w)'
  BY <1>7, <1>a, StepIsLocal DEF Busy, InStage
<1>8. CASE UNCHANGED vars
  BY <1>8 DEF vars, Busy, InStage
<1>9. QED
  BY <1>1, <1>2, <1>3, <1>4, <1>5, <1>6, <1>7, <1>8 DEF Next, Step

\* A status that a step commits is settled, or is on the account of the run that
\* commits it.
LEMMA WriterIsBusy ==
  ASSUME CopyStatusInv, [Next]_vars, NEW d \in Docs, doc'[d].status # doc[d].status
  PROVE  /\ doc'[d].status \in Settled \cup InProgress
         /\ doc'[d].status \in InProgress =>
              \E r \in Runs : target[r] = d /\ pc[r] # "idle" /\ Busy(r)'
<1>a. TypeOK /\ LocatedInv
  BY DEF CopyStatusInv, LocatedInv
<1>b. ASSUME NEW r \in Runs
      PROVE  /\ Located(r) /\ view[r] \in Row
             /\ stage[r] \in {"preprocess", "classify", "extract", "validate"}
  BY <1>a DEF LocatedInv, TypeOK, Stages
<1>c. ASSUME NEW r \in Runs, NEW new, Save(r, new)
      PROVE  target[r] = d /\ doc'[d].status = new.status /\ new.status # view[r].status
  BY <1>a, <1>c DEF Save, Flush, Column, TypeOK
<1>1. ASSUME NEW r \in Runs, Announce(r)
      PROVE  target[r] = d /\ pc[r] # "idle" /\ Busy(r)' /\ doc'[d].status \in InProgress
  <2> DEFINE new == [view[r] EXCEPT !.status = StatusOf[stage[r]]]
  <2>1. Save(r, new) /\ pc[r] = "announce" /\ pc'[r] \in {"handle", "insert"}
    BY <1>1, <1>a DEF Announce, Go, TypeOK
  <2>2. stage[r] \in {"preprocess", "extract", "validate"}
    BY <1>b, <2>1 DEF Located
  <2>3. new.status \in InProgress
    BY <1>b, <2>2 DEF Row, StatusOf, InProgress
  <2> HIDE DEF new
  <2>4. QED
    BY <1>c, <2>1, <2>3 DEF Busy, InStage
<1>2. ASSUME NEW r \in Runs, Preprocess(r)
      PROVE  FALSE
  <2>1. Save(r, [view[r] EXCEPT !.text = TRUE])
    BY <1>2 DEF Preprocess
  <2>2. [view[r] EXCEPT !.text = TRUE].status = view[r].status
    BY <1>b DEF Row
  <2>3. QED
    BY <1>c, <2>1, <2>2
<1>3. ASSUME NEW r \in Runs, SetType(r)
      PROVE  FALSE
  <2>1. PICK t \in DocumentType : Save(r, [view[r] EXCEPT !.docType = t])
    BY <1>3 DEF SetType
  <2>2. [view[r] EXCEPT !.docType = t].status = view[r].status
    BY <1>b DEF Row
  <2>3. QED
    BY <1>c, <2>1, <2>2
<1>4. ASSUME NEW r \in Runs, Finish(r)
      PROVE  doc'[d].status = "ready"
  <2> DEFINE new(p) == [view[r] EXCEPT !.data = [schema |-> view[r].docType, payload |-> p],
                                       !.status = "ready", !.completed = TRUE]
  <2>1. PICK p \in Payloads : Save(r, new(p))
    BY <1>4 DEF Finish
  <2>2. new(p).status = "ready"
    BY <1>b DEF Row
  <2> HIDE DEF new
  <2>3. QED
    BY <1>c, <2>1, <2>2
<1>5. ASSUME NEW r \in Runs, Handle(r)
      PROVE  doc'[d].status = "failed"
  <2> DEFINE new == [view[r] EXCEPT !.status = "failed", !.error = TRUE,
                                    !.completed = TRUE]
  <2>1. Save(r, new)
    BY <1>5 DEF Handle
  <2>2. new.status = "failed"
    BY <1>b DEF Row
  <2> HIDE DEF new
  <2>3. QED
    BY <1>c, <2>1, <2>2
<1>6. ASSUME NEW r \in Runs,
             \/ \E e \in Docs : Start(r, e)
             \/ Load(r) \/ Insert(r) \/ Answer(r) \/ Validate(r) \/ Retry(r) \/ BodyRaises(r)
             \/ StageSucceeds(r) \/ StageFails(r) \/ Return(r) \/ Interrupt(r)
      PROVE  FALSE
  BY <1>6 DEF Start, Load, Insert, Answer, Validate, Retry, BodyRaises,
              StageSucceeds, StageFails, Return, Interrupt
<1>7. CASE UNCHANGED vars
  BY <1>7 DEF vars
<1>8. "ready" \in Settled /\ "failed" \in Settled
      /\ "ready" \notin InProgress /\ "failed" \notin InProgress
  BY DEF Settled, InProgress
<1>9. QED
  BY <1>1, <1>2, <1>3, <1>4, <1>5, <1>6, <1>7, <1>8 DEF Next, Step

\* A run that committed nothing yet commits a first status or stays so.
LEMMA UntouchedStays ==
  ASSUME CopyStatusInv, RowsInv, [Next]_vars, NEW r \in Runs, Untouched(r),
         doc[target[r]].status = "uploaded", doc'[target[r]].status = "uploaded"
  PROVE  Untouched(r)'
<1>a. TypeOK /\ Located(r) /\ target[r] \in Docs /\ view[r] \in Row
  BY DEF CopyStatusInv, LocatedInv, TypeOK, Located, Untouched
<1>1. CASE Load(r)
  BY <1>1, <1>a DEF Load, Go, TypeOK, Located, Untouched
<1>2. ~Announce(r)
  <2> SUFFICES ASSUME Announce(r) PROVE FALSE
    OBVIOUS
  <2> DEFINE new == [view[r] EXCEPT !.status = StatusOf[stage[r]]]
  <2>1. Save(r, new) /\ stage[r] = "preprocess" /\ view[r].status = "uploaded"
    BY DEF Announce, Untouched
  <2>2. new.status = "preprocessing"
    BY <1>a, <2>1 DEF Row, StatusOf
  <2> HIDE DEF new
  <2>3. doc'[target[r]].status = "preprocessing"
    BY <1>a, <2>1, <2>2 DEF Save, Flush, Column, TypeOK
  <2>4. QED
    BY <2>3
<1>3. CASE Interrupt(r)
  BY <1>3, <1>a DEF Interrupt, Go, TypeOK, Untouched
<1>4. /\ \A d \in Docs : ~Start(r, d)
      /\ ~Insert(r) /\ ~Preprocess(r) /\ ~Answer(r) /\ ~Validate(r) /\ ~Retry(r)
      /\ ~BodyRaises(r) /\ ~StageSucceeds(r) /\ ~StageFails(r) /\ ~SetType(r)
      /\ ~Finish(r) /\ ~Handle(r) /\ ~Return(r)
  BY DEF Untouched, Start, Insert, Preprocess, Answer, Validate, Retry, BodyRaises,
         StageSucceeds, StageFails, SetType, Finish, Handle, Return
<1>5. ASSUME NEW q \in Runs \ {r}, (\E d \in Docs : Start(q, d)) \/ Step(q) \/ Interrupt(q)
      PROVE  Untouched(r)'
  BY <1>5, <1>a, StepIsLocal DEF Untouched
<1>6. CASE UNCHANGED vars
  BY <1>6 DEF vars, Untouched
<1>7. QED
  BY <1>1, <1>2, <1>3, <1>4, <1>5, <1>6 DEF Next, Step

LEMMA NextOutcome == OutcomeInv /\ [Next]_vars => OutcomeInv'
<1> SUFFICES ASSUME OutcomeInv, [Next]_vars PROVE OutcomeInv'
  OBVIOUS
<1>a. CopyStatusInv /\ RowsInv /\ LocatedInv /\ CopyStatusInv' /\ RowsInv'
  BY NextCopyStatus, NextRows DEF OutcomeInv, RowsInv
<1>1. ASSUME NEW d \in Docs, doc'[d].status \in InProgress
      PROVE  \E r \in RunsOn(d)' : Busy(r)'
  <2>1. CASE doc'[d].status # doc[d].status
    <3>1. PICK r \in Runs : target[r] = d /\ pc[r] # "idle" /\ Busy(r)'
      BY <1>1, <1>a, <2>1, WriterIsBusy
    <3>2. target'[r] = d
      BY <1>a, <3>1, RunsStartOnce
    <3>3. QED
      BY <3>1, <3>2 DEF RunsOn
  <2>2. CASE doc'[d].status = doc[d].status
    <3>1. PICK w \in Runs : target[w] = d /\ Busy(w)
      BY <1>1, <2>2 DEF OutcomeInv, Accounted, RunsOn
    <3>2. Busy(w)'
      BY <1>1, <1>a, <3>1, BusyStays DEF Settled, InProgress
    <3>3. target'[w] = d
      BY <1>a, <3>1, RunsStartOnce DEF Busy, InStage
    <3>4. QED
      BY <3>2, <3>3 DEF RunsOn
  <2>3. QED
    BY <2>1, <2>2
<1>2. ASSUME NEW d \in Docs, doc'[d].status = "uploaded", NEW r \in Runs, target'[r] = d
      PROVE  Untouched(r)'
  <2>1. doc[d].status = "uploaded"
    BY <1>2, <1>a, WriterIsBusy DEF Settled, InProgress
  <2>2. CASE target[r] = d
    BY <1>2, <1>a, <2>1, <2>2, UntouchedStays DEF OutcomeInv, Fresh, RunsOn
  <2>3. CASE target[r] # d
    <3>1. pc[r] = "idle" /\ pc'[r] = "load" /\ view' = view
      BY <1>2, <1>a, <2>3, RunsStartOnce
    <3>2. view[r].status = "uploaded"
      BY <1>a, <3>1 DEF RowsInv, CopyInv, Uploaded
    <3>3. QED
      BY <3>1, <3>2 DEF Untouched
  <2>4. QED
    BY <2>2, <2>3
<1>3. QED
  BY <1>a, <1>1, <1>2 DEF OutcomeInv, Accounted, Fresh, RunsOn

\* When every run on a document has returned, the document is READY or FAILED,
\* whatever the order in which the runs wrote their columns.
THEOREM ReturnedRunsSettle == Spec => []ReturnedRunsLeaveSettled
<1>1. OutcomeInv => ReturnedRunsLeaveSettled
  <2> SUFFICES ASSUME OutcomeInv, NEW d \in Docs, RunsOn(d) # {},
                      \A r \in RunsOn(d) : pc[r] = "returned"
               PROVE  doc[d].status \in Settled
    BY DEF ReturnedRunsLeaveSettled
  <2>1. doc[d].status \notin InProgress
    BY DEF OutcomeInv, Accounted, Busy, InStage
  <2>2. doc[d].status # "uploaded"
    BY DEF OutcomeInv, Fresh, Untouched
  <2>3. doc[d].status \in DocumentStatus
    BY DEF OutcomeInv, RowsInv, LocatedInv, TypeOK, Row
  <2>4. QED
    BY <2>1, <2>2, <2>3 DEF DocumentStatus
<1>2. QED
  BY <1>1, InitOutcome, NextOutcome, PTL DEF Spec

-----------------------------------------------------------------------------
(* Giving up *)

\* A run with an exception in hand calls the LLM no more; extract has used all
\* its attempts when the exception is a transient one.
FailureOf(r) ==
  /\ failure[r] # "none" => pc[r] \in {"failure", "handle", "returning"} \cup Ended
  /\ failure[r] = "transient" /\ stage[r] = "extract" => calls[r] = MaxAttempts

FailureInv == LocatedInv /\ \A r \in Runs : FailureOf(r)

LEMMA InitFailure == Init => FailureInv
BY InitLocated DEF Init, FailureInv, FailureOf

LEMMA NextFailure == FailureInv /\ [Next]_vars => FailureInv'
<1> SUFFICES ASSUME FailureInv, [Next]_vars PROVE FailureInv'
  OBVIOUS
<1>a. LocatedInv /\ LocatedInv' /\ TypeOK /\ \A r \in Runs : FailureOf(r) /\ Located(r)
  BY NextLocated DEF FailureInv, LocatedInv
<1>1. ASSUME NEW r \in Runs, BodyRaises(r)
      PROVE  \A q \in Runs : FailureOf(q)'
  <2>1. pc[r] = "work" /\ stage' = stage /\ \A q \in Runs :
          q # r => pc'[q] = pc[q] /\ failure'[q] = failure[q] /\ calls'[q] = calls[q]
    BY <1>1, <1>a DEF BodyRaises, Go, TypeOK
  <2>2. pc'[r] = "failure" /\ failure'[r] \in RaisedBy(r)
    BY <1>1, <1>a DEF BodyRaises, Go, TypeOK
  <2>3. stage[r] = "extract" /\ failure'[r] = "transient" => calls'[r] = MaxAttempts
    <3> SUFFICES ASSUME stage[r] = "extract", failure'[r] = "transient"
                 PROVE  calls'[r] = MaxAttempts
      OBVIOUS
    <3>1. ~Retryable(r)
      BY <2>2 DEF RaisedBy
    <3>2. calls'[r] = calls[r] + 1
      BY <1>1, <1>a DEF BodyRaises, LLMStages, TypeOK
    <3>3. calls[r] \in Nat /\ calls[r] < MaxAttempts
      BY <1>a, <2>1 DEF TypeOK, Located
    <3>4. QED
      BY <3>1, <3>2, <3>3, MaxAttemptsAssumption DEF Retryable
  <2>4. QED
    BY <1>a, <2>1, <2>2, <2>3 DEF FailureOf
<1>2. ASSUME NEW r \in Runs, Announce(r)
      PROVE  \A q \in Runs : FailureOf(q)'
  <2>1. failure[r] = "none" /\ UNCHANGED <<stage, calls>>
    BY <1>2, <1>a DEF Announce, FailureOf, Ended
  <2>2. \A q \in Runs \ {r} : pc'[q] = pc[q] /\ failure'[q] = failure[q]
    BY <1>2, <1>a DEF Announce, Go, TypeOK
  <2>3. failure'[r] = "none" \/ (failure'[r] = "no_extractor" /\ pc'[r] = "handle")
    BY <1>2, <1>a, <2>1 DEF Announce, Go, TypeOK
  <2>4. QED
    BY <1>a, <2>1, <2>2, <2>3 DEF FailureOf
<1>3. ASSUME NEW r \in Runs,
             \/ \E d \in Docs : Start(r, d)
             \/ Load(r) \/ Insert(r) \/ Preprocess(r) \/ Answer(r) \/ Validate(r)
             \/ Retry(r) \/ StageSucceeds(r) \/ SetType(r) \/ Finish(r)
      PROVE  \A q \in Runs : FailureOf(q)'
  <2>1. failure' = failure /\ failure[r] = "none"
    BY <1>3, <1>a DEF Start, Load, Insert, Preprocess, Answer, Validate, Retry,
       StageSucceeds, SetType, Finish, FailureOf, Ended
  <2>2. \A q \in Runs \ {r} : pc'[q] = pc[q] /\ calls'[q] = calls[q] /\ stage'[q] = stage[q]
    BY <1>3, <1>a DEF Start, Load, Insert, Preprocess, Answer, Validate, Retry,
       StageSucceeds, SetType, Finish, Go, TypeOK
  <2>3. QED
    BY <1>a, <2>1, <2>2 DEF FailureOf
<1>4. ASSUME NEW r \in Runs, StageFails(r) \/ Handle(r) \/ Return(r) \/ Interrupt(r)
      PROVE  \A q \in Runs : FailureOf(q)'
  <2>1. UNCHANGED <<failure, calls, stage>>
    BY <1>4 DEF StageFails, Handle, Return, Interrupt
  <2>2. \A q \in Runs \ {r} : pc'[q] = pc[q]
    BY <1>4, <1>a DEF StageFails, Handle, Return, Interrupt, Go, TypeOK
  <2>3. pc'[r] \in {"failure", "handle", "returning"} \cup Ended
    BY <1>4, <1>a DEF StageFails, Handle, Return, Interrupt, Go, TypeOK, Ended
  <2>4. QED
    BY <1>a, <2>1, <2>2, <2>3 DEF FailureOf
<1>5. ASSUME UNCHANGED vars
      PROVE  \A q \in Runs : FailureOf(q)'
  BY <1>5, <1>a DEF vars, FailureOf
<1>6. QED
  BY <1>a, <1>1, <1>2, <1>3, <1>4, <1>5 DEF Next, Step, FailureInv

\* extract gives up on a transient error after exactly MaxAttempts calls, and no
\* stage calls the LLM more often.
THEOREM GivesUp == Spec => []GivesUpAfterMaxAttempts
<1>1. FailureInv => GivesUpAfterMaxAttempts
  <2> SUFFICES ASSUME FailureInv, NEW r \in Runs
               PROVE  /\ calls[r] <= MaxAttempts
                      /\ failure[r] = "transient" /\ stage[r] = "extract" =>
                           calls[r] = MaxAttempts
    BY DEF GivesUpAfterMaxAttempts
  <2>1. calls[r] \in 0 .. MaxAttempts
    BY DEF FailureInv, LocatedInv, TypeOK
  <2>2. QED
    BY <2>1, MaxAttemptsAssumption DEF FailureInv, FailureOf
<1>2. QED
  BY <1>1, InitFailure, NextFailure, PTL DEF Spec

-----------------------------------------------------------------------------
(* What a caller sees *)

Statuses == [d \in Docs |-> doc[d].status]
Phases == [r \in Runs |-> PhaseOf(r)]

\* What a commit by r shows of the documents.
Writes(r, s) == Statuses' = [Statuses EXCEPT ![target[r]] = s]

\* What a step by r shows of the runs.
Reaches(r, p) == Phases' = [Phases EXCEPT ![r] = p]

\* A commit writes the status if it changed in the session, and no other
\* document's.
LEMMA SaveShows ==
  ASSUME TypeOK, NEW r \in Runs, target[r] \in Docs, NEW new, Save(r, new)
  PROVE  /\ new.status # view[r].status => Writes(r, new.status)
         /\ new.status = view[r].status => Statuses' = Statuses
         /\ view'[r] = new
BY DEF Save, Flush, Column, TypeOK, Statuses, Writes

\* A run's phase is its own.
LEMMA StepReaches ==
  ASSUME TypeOK, NEW r \in Runs,
         (\E d \in Docs : Start(r, d)) \/ Step(r) \/ Interrupt(r)
  PROVE  Reaches(r, PhaseOf(r)')
<1>1. \A q \in Runs \ {r} : PhaseOf(q)' = PhaseOf(q)
  BY StepIsLocal DEF PhaseOf
<1> QED
  BY <1>1 DEF Reaches, Phases

\* The steps of DocumentLifecycle, read through the mapping.
LEMMA MoveShown ==
  ASSUME NEW r \in Runs, NEW from, NEW to, PhaseOf(r) = from, Reaches(r, to)
  PROVE  Lifecycle!Move(r, from, to)
BY DEF Lifecycle!Move, Reaches, Phases

LEMMA CommitShown ==
  ASSUME NEW r \in Runs, NEW s, Writes(r, s)
  PROVE  Lifecycle!Commit(r, s)
BY DEF Lifecycle!Commit, Writes, Statuses

Shown == [Lifecycle!LifecycleNext]_(Lifecycle!lifecycleVars)

LEMMA StutterShown ==
  ASSUME Statuses' = Statuses, Phases' = Phases, target' = target
  PROVE  Shown
BY DEF Shown, Lifecycle!lifecycleVars, Statuses, Phases

LEMMA AdvanceShown ==
  ASSUME NEW r \in Runs, Lifecycle!Advance(r)
  PROVE  Shown
BY DEF Shown, Lifecycle!LifecycleNext

-----------------------------------------------------------------------------
(* Step by step *)

\* What the invariants say of one run.
Known(r) ==
  /\ CopyStatus(r) /\ Located(r) /\ Progress(r) /\ AuditOf(r) /\ view[r] \in Row
  /\ stage[r] \in {"preprocess", "classify", "extract", "validate"}

LEMMA RunsAreKnown ==
  ASSUME QuietInv
  PROVE  TypeOK /\ \A r \in Runs : Known(r)
BY DEF QuietInv, CopyStatusInv, StatusInv, ProgressInv, AuditInv, LocatedInv, TypeOK, Stages,
       Known

\* In the stages and on the way back a run's phase is the status it holds.
LEMMA PhaseInStage ==
  ASSUME NEW r \in Runs, InStage(r) \/ pc[r] = "returning"
  PROVE  PhaseOf(r) = view[r].status
BY DEF PhaseOf, InStage

LEMMA StartShown ==
  ASSUME TypeOK, NEW r \in Runs, NEW d \in Docs, Start(r, d)
  PROVE  Shown
<1>1. PhaseOf(r) = "idle" /\ PhaseOf(r)' = "started"
  BY DEF Start, Go, TypeOK, PhaseOf
<1>2. Lifecycle!Move(r, "idle", "started")
  BY <1>1, StepReaches, MoveShown
<1>3. target' = [target EXCEPT ![r] = d] /\ Statuses' = Statuses
  BY DEF Start, Statuses
<1> QED
  BY <1>2, <1>3 DEF Shown, Lifecycle!LifecycleNext, Lifecycle!Begin, Statuses

LEMMA LoadShown ==
  ASSUME TypeOK, NEW r \in Runs, Known(r), Load(r)
  PROVE  Lifecycle!Advance(r)
<1> DEFINE to == IF doc[target[r]].status = "preprocessing" THEN "resumed" ELSE "loaded"
<1>1. target[r] \in Docs /\ stage[r] = "preprocess" /\ UNCHANGED <<target, doc, stage>>
  BY DEF Load, Known, Located
<1>2. pc'[r] = "announce" /\ view'[r] = doc[target[r]]
  BY DEF Load, Go, TypeOK
<1>3. PhaseOf(r) = "started" /\ PhaseOf(r)' = to
  BY <1>1, <1>2 DEF Load, PhaseOf
<1>4. Lifecycle!Move(r, "started", to)
  BY <1>3, StepReaches, MoveShown DEF Step
<1>5. Lifecycle!ReadRow(r)
  BY <1>1, <1>4 DEF Lifecycle!ReadRow, Statuses
<1> QED
  BY <1>5 DEF Lifecycle!Advance

LEMMA AnnounceShown ==
  ASSUME TypeOK, NEW r \in Runs, Known(r), Announce(r)
  PROVE  Lifecycle!Advance(r)
<1> DEFINE new == [view[r] EXCEPT !.status = StatusOf[stage[r]]]
<1>1. /\ Save(r, new) /\ pc[r] = "announce" /\ target[r] \in Docs
      /\ UNCHANGED <<target, stage>>
  BY DEF Announce, Known, Located
<1>2. stage[r] \in {"preprocess", "extract", "validate"} /\ pc'[r] \in {"handle", "insert"}
  BY DEF Announce, Known, Located, Go, TypeOK
<1>3. new.status = StatusOf[stage[r]]
  BY DEF Known, Row
<1> HIDE DEF new
<1>4. /\ new.status # view[r].status => Writes(r, new.status)
      /\ new.status = view[r].status => Statuses' = Statuses
      /\ view'[r] = new
  BY <1>1, SaveShows
<1>5. PhaseOf(r)' = new.status
  BY <1>2, <1>4 DEF PhaseOf
<1>6. Lifecycle!Move(r, PhaseOf(r), new.status)
  BY <1>5, StepReaches, MoveShown DEF Step
<1>7. CASE stage[r] = "preprocess"
  <2>1. new.status = "preprocessing"
    BY <1>3, <1>7 DEF StatusOf
  <2>2. CASE view[r].status = "preprocessing"
    <3>1. PhaseOf(r) = "resumed"
      BY <1>1, <1>7, <2>2 DEF PhaseOf
    <3> QED
      BY <1>1, <1>4, <1>6, <2>1, <2>2, <3>1
      DEF Lifecycle!Advance, Lifecycle!EnterPreprocess, Statuses
  <2>3. CASE view[r].status # "preprocessing"
    <3>1. PhaseOf(r) = "loaded"
      BY <1>1, <1>7, <2>3 DEF PhaseOf
    <3>2. Lifecycle!Commit(r, "preprocessing")
      BY <1>4, <2>1, <2>3, CommitShown
    <3> QED
      BY <1>1, <1>6, <2>1, <3>1, <3>2 DEF Lifecycle!Advance, Lifecycle!EnterPreprocess
  <2> QED
    BY <2>2, <2>3
<1>8. CASE stage[r] = "extract"
  <2>1. InStage(r) /\ view[r].status = "preprocessing" /\ new.status = "extracting"
    BY <1>1, <1>3, <1>8 DEF Known, CopyStatus, InStage, Expected, StatusOf
  <2>2. Lifecycle!Commit(r, "extracting")
    BY <1>4, <2>1, CommitShown
  <2> QED
    BY <1>1, <1>6, <2>1, <2>2, PhaseInStage DEF Lifecycle!Advance, Lifecycle!EnterExtract
<1>9. CASE stage[r] = "validate"
  <2>1. InStage(r) /\ view[r].status = "extracting" /\ new.status = "validating"
    BY <1>1, <1>3, <1>9 DEF Known, CopyStatus, InStage, Expected, StatusOf
  <2>2. Lifecycle!Commit(r, "validating")
    BY <1>4, <2>1, CommitShown
  <2> QED
    BY <1>1, <1>6, <2>1, <2>2, PhaseInStage DEF Lifecycle!Advance, Lifecycle!EnterValidate
<1> QED
  BY <1>2, <1>7, <1>8, <1>9

\* The steps inside a stage, and from a stage to the next, are not to be seen.
LEMMA StageShown ==
  ASSUME TypeOK, NEW r \in Runs, Known(r), InStage(r), InStage(r)', UNCHANGED target,
         Step(r), view'[r].status = view[r].status,
         doc' = doc \/ \E new : Save(r, new) /\ new.status = view[r].status
  PROVE  Shown
<1>1. Statuses' = Statuses
  <2>1. target[r] \in Docs
    BY DEF Known, Located, InStage
  <2> QED
    BY <2>1, SaveShows DEF Statuses
<1>2. PhaseOf(r) = view[r].status
  BY PhaseInStage
<1>3. PhaseOf(r)' = view'[r].status
  BY DEF PhaseOf, InStage
<1>4. Phases' = Phases
  BY <1>2, <1>3, StepReaches DEF Reaches, Phases
<1> QED
  BY <1>1, <1>4, StutterShown

LEMMA InsideShown ==
  ASSUME TypeOK, NEW r \in Runs, Known(r),
         \/ Insert(r) \/ Answer(r) \/ Validate(r) \/ Retry(r) \/ BodyRaises(r)
         \/ StageSucceeds(r) \/ StageFails(r)
  PROVE  Shown
<1>1. UNCHANGED <<doc, view, target>> /\ InStage(r) /\ Step(r)
  BY DEF Insert, Answer, Validate, Retry, BodyRaises, StageSucceeds, StageFails, InStage, Step
<1>2. CASE StageSucceeds(r)
  BY <1>1, <1>2, StageShown
  DEF StageSucceeds, AfterStage, Go, TypeOK, InStage, Known
<1>3. CASE \/ Insert(r) \/ Answer(r) \/ Validate(r) \/ Retry(r) \/ BodyRaises(r)
           \/ StageFails(r)
  <2>1. pc'[r] \in {"work", "success", "failure", "handle"}
    BY <1>3 DEF Insert, Answer, Validate, Retry, BodyRaises, StageFails, Go, TypeOK
  <2> QED
    BY <1>1, <2>1, StageShown DEF InStage
<1> QED
  BY <1>2, <1>3

LEMMA SavesInsideShown ==
  ASSUME TypeOK, NEW r \in Runs, Known(r), Preprocess(r) \/ SetType(r)
  PROVE  Shown
<1>1. PICK new : Save(r, new) /\ new.status = view[r].status
  <2>1. CASE Preprocess(r)
    <3>1. Save(r, [view[r] EXCEPT !.text = TRUE])
      BY <2>1 DEF Preprocess
    <3>2. [view[r] EXCEPT !.text = TRUE].status = view[r].status
      BY DEF Known, Row
    <3> QED
      BY <3>1, <3>2
  <2>2. CASE SetType(r)
    <3>1. PICK t \in DocumentType : Save(r, [view[r] EXCEPT !.docType = t])
      BY <2>2 DEF SetType
    <3>2. [view[r] EXCEPT !.docType = t].status = view[r].status
      BY DEF Known, Row
    <3> QED
      BY <3>1, <3>2
  <2> QED
    BY <2>1, <2>2
<1>2. view'[r] = new
  BY <1>1 DEF Save, TypeOK
<1>3. /\ InStage(r) /\ UNCHANGED target /\ Step(r)
      /\ \/ pc'[r] = "success"
         \/ pc'[r] = "announce" /\ stage'[r] = "extract"
  BY DEF Preprocess, SetType, Go, TypeOK, InStage, Step
<1>4. InStage(r)'
  BY <1>3 DEF InStage
<1> QED
  BY <1>1, <1>2, <1>3, <1>4, StageShown

LEMMA FinishShown ==
  ASSUME TypeOK, NEW r \in Runs, Known(r), Finish(r)
  PROVE  Lifecycle!Advance(r)
<1> DEFINE new(p) == [view[r] EXCEPT !.data = [schema |-> view[r].docType, payload |-> p],
                                     !.status = "ready", !.completed = TRUE]
<1>1. PICK p \in Payloads : Save(r, new(p))
  BY DEF Finish
<1>2. new(p).status = "ready"
  BY DEF Known, Row
<1> HIDE DEF new
<1>3. /\ InStage(r) /\ view[r].status = "validating" /\ target[r] \in Docs
      /\ UNCHANGED target /\ pc'[r] = "returning"
  BY DEF Finish, Known, Located, CopyStatus, InStage, Expected, Go, TypeOK
<1>4. Writes(r, "ready") /\ view'[r] = new(p)
  BY <1>1, <1>2, <1>3, SaveShows
<1>5. PhaseOf(r) = "validating" /\ PhaseOf(r)' = "ready"
  BY <1>2, <1>3, <1>4, PhaseInStage DEF PhaseOf
<1>6. Lifecycle!Move(r, "validating", "ready")
  BY <1>5, StepReaches, MoveShown DEF Step
<1>7. Lifecycle!Commit(r, "ready")
  BY <1>4, CommitShown
<1> QED
  BY <1>3, <1>6, <1>7 DEF Lifecycle!Advance, Lifecycle!Complete

LEMMA HandleShown ==
  ASSUME TypeOK, NEW r \in Runs, Known(r), Handle(r)
  PROVE  Lifecycle!Advance(r)
<1>1. InStage(r) /\ pc[r] = "handle" /\ target[r] \in Docs /\ UNCHANGED target
  BY DEF Handle, InStage, Known, Located
<1>2. PhaseOf(r) = view[r].status /\ view[r].status = Expected(r)
  BY <1>1, PhaseInStage DEF Known, CopyStatus
<1>3. CASE session'[r] = "expired"
  <2>1. UNCHANGED doc /\ PhaseOf(r)' = "raised"
    BY <1>3 DEF Handle, Go, TypeOK, PhaseOf
  <2>2. PhaseOf(r) \in InProgress
    BY <1>2 DEF Expected, Known, InProgress
  <2>3. Lifecycle!Move(r, PhaseOf(r), "raised")
    BY <2>1, StepReaches, MoveShown DEF Step
  <2> QED
    BY <1>1, <2>1, <2>2, <2>3
    DEF Lifecycle!Advance, Lifecycle!RaiseError, Lifecycle!InProgress, InProgress, Statuses
<1>4. CASE session'[r] # "expired"
  <2> DEFINE new == [view[r] EXCEPT !.status = "failed", !.error = TRUE, !.completed = TRUE]
  <2>1. Save(r, new) /\ pc'[r] = "returning"
    BY <1>4 DEF Handle, Go, TypeOK
  <2>2. new.status = "failed"
    BY DEF Known, Row
  <2> HIDE DEF new
  <2>3. session[r] = "clean"
    BY <1>1, <1>4 DEF Handle, Rollback, TypeOK, Known, AuditOf
  <2>4. view[r].status = "extracting"
    BY <1>1, <1>2, <2>3 DEF Known, Progress, Expected
  <2>5. Writes(r, "failed") /\ view'[r] = new
    BY <1>1, <2>1, <2>2, <2>4, SaveShows
  <2>6. PhaseOf(r)' = "failed"
    BY <2>1, <2>2, <2>5 DEF PhaseOf
  <2>7. Lifecycle!Move(r, "extracting", "failed")
    BY <1>2, <2>4, <2>6, StepReaches, MoveShown DEF Step
  <2>8. Lifecycle!Commit(r, "failed")
    BY <2>5, CommitShown
  <2> QED
    BY <1>1, <2>7, <2>8 DEF Lifecycle!Advance, Lifecycle!GiveUp
<1> QED
  BY <1>3, <1>4

LEMMA ReturnShown ==
  ASSUME TypeOK, NEW r \in Runs, Known(r), Return(r)
  PROVE  Lifecycle!Advance(r)
<1>1. /\ pc[r] = "returning" /\ pc'[r] = "returned" /\ UNCHANGED <<doc, view, target>>
      /\ view[r].status \in {"ready", "failed"}
  BY DEF Return, Go, TypeOK, Known, CopyStatus, Settled
<1>2. PhaseOf(r) = view[r].status
  BY <1>1, PhaseInStage
<1>3. PhaseOf(r)' = IF view[r].status = "ready" THEN "succeeded" ELSE "unsuccessful"
  BY <1>1 DEF PhaseOf
<1>4. Lifecycle!Move(r, PhaseOf(r), PhaseOf(r)')
  BY StepReaches, MoveShown DEF Step
<1> QED
  BY <1>1, <1>2, <1>3, <1>4 DEF Lifecycle!Advance, Lifecycle!ReturnDocument, Statuses

LEMMA InterruptShown ==
  ASSUME TypeOK, NEW r \in Runs, Known(r), Interrupt(r)
  PROVE  Shown
<1>1. Live(r) /\ UNCHANGED <<doc, target, view>> /\ PhaseOf(r)' = "cut"
  BY DEF Interrupt, Go, TypeOK, PhaseOf
<1>2. PhaseOf(r) \notin {"idle", "succeeded", "unsuccessful", "raised", "cut"}
  <2>1. pc[r] = "load" \/ InStage(r) \/ pc[r] = "returning"
          \/ (pc[r] = "announce" /\ stage[r] = "preprocess")
    BY <1>1 DEF Live, TypeOK, PC, Ended, InStage
  <2>2. view[r].status \in DocumentStatus
    BY DEF Known, Row
  <2> QED
    BY <2>1, <2>2, PhaseInStage
    DEF PhaseOf, InStage, DocumentStatus, InProgress, Settled
<1>3. Reaches(r, "cut")
  BY <1>1, StepReaches
<1>4. Lifecycle!CutOff(r)
  BY <1>1, <1>2, <1>3
  DEF Lifecycle!CutOff, Lifecycle!Running, Lifecycle!Outcome, Reaches, Phases, Statuses
<1> QED
  BY <1>4 DEF Shown, Lifecycle!LifecycleNext

LEMMA NextShown == QuietInv /\ [Next]_vars => Shown
<1> SUFFICES ASSUME QuietInv, [Next]_vars PROVE Shown
  OBVIOUS
<1>1. TypeOK /\ \A r \in Runs : Known(r)
  BY RunsAreKnown
<1>2. ASSUME NEW r \in Runs, Step(r) PROVE Shown
  <2>1. CASE \/ Load(r) \/ Announce(r) \/ Finish(r) \/ Handle(r) \/ Return(r)
    BY <1>1, <2>1, AdvanceShown, LoadShown, AnnounceShown, FinishShown, HandleShown,
       ReturnShown
  <2> QED
    BY <1>1, <1>2, <2>1, InsideShown, SavesInsideShown DEF Step
<1>3. CASE UNCHANGED vars
  BY <1>3, StutterShown DEF vars, Statuses, Phases, PhaseOf
<1> QED
  BY <1>1, <1>2, <1>3, StartShown, InterruptShown DEF Next

LEMMA InitShown == Init => Lifecycle!LifecycleInit
BY DEF Init, Uploaded, PhaseOf, Lifecycle!LifecycleInit

\* What DocumentLifecycle promises short of fairness.
LifecycleSafety ==
  Lifecycle!LifecycleInit /\ [][Lifecycle!LifecycleNext]_(Lifecycle!lifecycleVars)

\* For any number of overlapping runs, the callers of process() see the statuses
\* and endings that DocumentLifecycle lists, in its order, and nothing else.
THEOREM ImplementsSafely == Spec => LifecycleSafety
<1>1. QuietInv /\ [Next]_vars => [Lifecycle!LifecycleNext]_(Lifecycle!lifecycleVars)
  BY NextShown DEF Shown
<1> QED
  BY <1>1, InitShown, InitQuiet, NextQuiet, PTL DEF Spec, LifecycleSafety

-----------------------------------------------------------------------------
(* Errors are kept *)

\* A run gives up in its last commit, with the error in its copy; only a run
\* without an extractor gets to write FAILED.
ErrorOf(r) ==
  /\ GaveUp(r) => view[r].error /\ pc[r] \in {"returning", "returned", "cut"}
  /\ pc[r] = "handle" /\ session[r] = "clean" => failure[r] = "no_extractor"

Kept(d) == doc[d].error => \E r \in RunsOn(d) : GaveUp(r)

ErrorInv ==
  /\ QuietInv /\ FailureInv
  /\ \A r \in Runs : ErrorOf(r)
  /\ \A d \in Docs : Kept(d)

LEMMA InitError == Init => ErrorInv
<1> SUFFICES ASSUME Init PROVE ErrorInv
  OBVIOUS
<1>1. QuietInv /\ FailureInv
  BY InitQuiet, InitFailure
<1>2. \A r \in Runs : ErrorOf(r)
  BY DEF Init, ErrorOf, GaveUp
<1>3. \A d \in Docs : Kept(d)
  BY DEF Init, Kept, Uploaded
<1> QED
  BY <1>1, <1>2, <1>3 DEF ErrorInv

\* A commit that leaves the error of the copy alone leaves that of the row alone.
LEMMA SaveSameError ==
  ASSUME TypeOK, NEW r \in Runs, target[r] \in Docs, NEW new, Save(r, new),
         new.error = view[r].error
  PROVE  \A d \in Docs : doc'[d].error = doc[d].error
BY DEF Save, Flush, Column, TypeOK

LEMMA ErrorsStand ==
  ASSUME TypeOK, NEW r \in Runs, Known(r), Step(r), ~Handle(r)
  PROVE  \A d \in Docs : doc'[d].error = doc[d].error
<1>1. CASE Announce(r)
  <2> DEFINE new == [view[r] EXCEPT !.status = StatusOf[stage[r]]]
  <2>1. Save(r, new) /\ target[r] \in Docs
    BY <1>1 DEF Announce, Known, Located
  <2>2. new.error = view[r].error
    BY DEF Known, Row
  <2> HIDE DEF new
  <2> QED
    BY <2>1, <2>2, SaveSameError
<1>2. CASE Preprocess(r)
  <2> DEFINE new == [view[r] EXCEPT !.text = TRUE]
  <2>1. Save(r, new) /\ target[r] \in Docs
    BY <1>2 DEF Preprocess, Known, Located
  <2>2. new.error = view[r].error
    BY DEF Known, Row
  <2> HIDE DEF new
  <2> QED
    BY <2>1, <2>2, SaveSameError
<1>3. CASE SetType(r)
  <2> DEFINE new(t) == [view[r] EXCEPT !.docType = t]
  <2>1. PICK t \in DocumentType : Save(r, new(t))
    BY <1>3 DEF SetType
  <2>2. target[r] \in Docs /\ new(t).error = view[r].error
    BY <1>3 DEF SetType, Known, Located, Row
  <2> HIDE DEF new
  <2> QED
    BY <2>1, <2>2, SaveSameError
<1>4. CASE Finish(r)
  <2> DEFINE new(p) == [view[r] EXCEPT !.data = [schema |-> view[r].docType, payload |-> p],
                                       !.status = "ready", !.completed = TRUE]
  <2>1. PICK p \in Payloads : Save(r, new(p))
    BY <1>4 DEF Finish
  <2>2. target[r] \in Docs /\ new(p).error = view[r].error
    BY <1>4 DEF Finish, Known, Located, Row
  <2> HIDE DEF new
  <2> QED
    BY <2>1, <2>2, SaveSameError
<1>5. CASE \/ Load(r) \/ Insert(r) \/ Answer(r) \/ Validate(r) \/ Retry(r) \/ BodyRaises(r)
           \/ StageSucceeds(r) \/ StageFails(r) \/ Return(r)
  BY <1>5 DEF Load, Insert, Answer, Validate, Retry, BodyRaises, StageSucceeds, StageFails,
              Return
<1> QED
  BY <1>1, <1>2, <1>3, <1>4, <1>5 DEF Step

\* A step of one run leaves the failures of the others alone.
LEMMA FailureIsLocal ==
  ASSUME TypeOK, NEW r \in Runs, NEW q \in Runs \ {r},
         (\E d \in Docs : Start(r, d)) \/ Step(r) \/ Interrupt(r)
  PROVE  failure'[q] = failure[q]
BY DEF TypeOK, Start, Step, Load, Announce, Insert, Preprocess, Answer, Validate, Retry,
       BodyRaises, StageSucceeds, StageFails, SetType, Finish, Handle, Return, Interrupt

\* What a step makes of the run that takes it.
LEMMA ErrorOfStep ==
  ASSUME TypeOK, NEW r \in Runs, Known(r), Known(r)', FailureOf(r), FailureOf(r)', ErrorOf(r),
         (\E d \in Docs : Start(r, d)) \/ Step(r) \/ Interrupt(r)
  PROVE  ErrorOf(r)' /\ (GaveUp(r) => GaveUp(r)')
<1>1. CASE Announce(r)
  <2>1. /\ pc[r] = "announce" /\ pc'[r] \in {"handle", "insert"} /\ session' = session
        /\ pc'[r] = "handle" => failure'[r] = "no_extractor"
    BY <1>1 DEF Announce, Go, TypeOK
  <2>2. InStage(r)' => view'[r].status \in InProgress
    BY DEF Known, CopyStatus, Expected, InProgress
  <2> QED
    BY <2>1, <2>2 DEF ErrorOf, GaveUp, InStage, InProgress
<1>2. CASE Handle(r)
  <2>1. CASE session'[r] = "expired"
    <3>1. pc'[r] = "raised" /\ pc[r] = "handle" /\ UNCHANGED <<view, failure>>
      BY <1>2, <2>1 DEF Handle, Go, TypeOK
    <3>2. view[r].status \in InProgress
      BY <3>1 DEF Known, CopyStatus, InStage, Expected, InProgress
    <3> QED
      BY <3>1, <3>2 DEF ErrorOf, GaveUp, InProgress
  <2>2. CASE session'[r] # "expired"
    <3> DEFINE new == [view[r] EXCEPT !.status = "failed", !.error = TRUE, !.completed = TRUE]
    <3>1. /\ Save(r, new) /\ pc'[r] = "returning" /\ pc[r] = "handle"
      BY <1>2, <2>2 DEF Handle, Go, TypeOK
    <3>2. new.error = TRUE
      BY DEF Known, Row
    <3> HIDE DEF new
    <3>3. view'[r] = new
      BY <3>1 DEF Save, TypeOK
    <3>4. ~GaveUp(r)
      BY <3>1 DEF ErrorOf
    <3> QED
      BY <3>1, <3>2, <3>3, <3>4 DEF ErrorOf
  <2> QED
    BY <2>1, <2>2
<1>3. CASE Return(r) \/ Interrupt(r)
  <2>1. /\ UNCHANGED <<view, failure, session>> /\ pc'[r] \in {"returned", "cut"}
        /\ Live(r) /\ (pc'[r] = "returned" => pc[r] = "returning")
    BY <1>3 DEF Return, Interrupt, Go, TypeOK, Live, Ended
  <2>2. GaveUp(r) = GaveUp(r)'
    BY <2>1 DEF GaveUp
  <2> QED
    BY <2>1, <2>2 DEF ErrorOf
<1>4. CASE StageFails(r)
  <2>1. /\ pc[r] = "failure" /\ pc'[r] = "handle" /\ UNCHANGED <<view, failure>>
        /\ session[r] = "open" /\ session'[r] = "expired"
    BY <1>4 DEF StageFails, Go, TypeOK, Known, AuditOf, Rollback
  <2> QED
    BY <2>1 DEF ErrorOf, GaveUp
<1>5. CASE \/ \E d \in Docs : Start(r, d)
           \/ Load(r) \/ Insert(r) \/ Preprocess(r) \/ Answer(r) \/ Validate(r) \/ Retry(r)
           \/ BodyRaises(r) \/ StageSucceeds(r) \/ SetType(r) \/ Finish(r)
  <2>1. pc[r] \in {"idle", "load", "insert", "work", "success", "set_type", "finish"}
    BY <1>5 DEF Start, Load, Insert, Preprocess, Answer, Validate, Retry, BodyRaises,
                StageSucceeds, SetType, Finish
  <2>2. failure'[r] # "no_extractor"
    <3>1. failure[r] = "none"
      BY <2>1 DEF FailureOf, Ended
    <3>2. failure'[r] = failure[r] \/ failure'[r] \in RaisedBy(r)
      BY <1>5 DEF Start, Load, Insert, Preprocess, Answer, Validate, Retry, BodyRaises,
                  StageSucceeds, SetType, Finish, TypeOK
    <3> QED
      BY <3>1, <3>2 DEF RaisedBy
  <2>3. pc'[r] # "handle"
    <3>1. AfterStage(r).pc # "handle"
      BY DEF AfterStage, Known
    <3> QED
      BY <1>5, <3>1 DEF Start, Load, Insert, Preprocess, Answer, Validate, Retry, BodyRaises,
                        StageSucceeds, SetType, Finish, Go, TypeOK
  <2>4. ~GaveUp(r)
    BY <2>1 DEF ErrorOf
  <2> QED
    BY <2>2, <2>3, <2>4 DEF ErrorOf, GaveUp
<1> QED
  BY <1>1, <1>2, <1>3, <1>4, <1>5 DEF Step

LEMMA NextError == ErrorInv /\ [Next]_vars => ErrorInv'
<1> SUFFICES ASSUME ErrorInv, [Next]_vars PROVE ErrorInv'
  OBVIOUS
<1>1. QuietInv' /\ FailureInv' /\ TypeOK /\ LocatedInv
  BY NextQuiet, NextFailure DEF ErrorInv, QuietInv, CopyStatusInv, LocatedInv
<1>2. \A r \in Runs : Known(r) /\ FailureOf(r) /\ ErrorOf(r)
  BY RunsAreKnown DEF ErrorInv, FailureInv
<1>3. \A r \in Runs : FailureOf(r)'
  BY <1>1 DEF FailureInv
<1>4. \A r \in Runs : Known(r)'
  BY <1>1 DEF QuietInv, CopyStatusInv, StatusInv, ProgressInv, AuditInv, LocatedInv, TypeOK,
              Stages, Known
<1>5. ASSUME NEW q \in Runs PROVE ErrorOf(q)' /\ (GaveUp(q) => GaveUp(q)')
  <2>1. ASSUME NEW r \in Runs, (\E d \in Docs : Start(r, d)) \/ Step(r) \/ Interrupt(r)
        PROVE  ErrorOf(q)' /\ (GaveUp(q) => GaveUp(q)')
    <3>1. CASE q = r
      BY <1>1, <1>2, <1>3, <1>4, <2>1, <3>1, ErrorOfStep
    <3>2. CASE q # r
      BY <1>1, <1>2, <2>1, <3>2, StepIsLocal, FailureIsLocal DEF ErrorOf, GaveUp
    <3> QED
      BY <3>1, <3>2
  <2>2. CASE UNCHANGED vars
    BY <1>2, <2>2 DEF vars, ErrorOf, GaveUp
  <2> QED
    BY <2>1, <2>2 DEF Next
<1>6. ASSUME NEW d \in Docs, doc'[d].error PROVE \E r \in RunsOn(d)' : GaveUp(r)'
  <2>1. CASE doc[d].error
    <3>1. PICK q \in Runs : target[q] = d /\ GaveUp(q)
      BY <2>1 DEF ErrorInv, Kept, RunsOn
    <3>2. target'[q] = d
      BY <1>1, <1>2, <3>1, RunsStartOnce DEF ErrorOf
    <3> QED
      BY <1>5, <3>1, <3>2 DEF RunsOn
  <2>2. CASE ~doc[d].error
    <3>1. PICK r \in Runs : Handle(r)
      BY <1>1, <1>2, <1>6, <2>2, ErrorsStand DEF Next, Start, Interrupt, vars
    <3> DEFINE new == [view[r] EXCEPT !.status = "failed", !.error = TRUE, !.completed = TRUE]
    <3>2. Save(r, new) /\ session'[r] # "expired" /\ pc[r] = "handle" /\ failure' = failure
          /\ target' = target
      BY <1>6, <2>2, <3>1 DEF Handle
    <3>3. new.status = "failed"
      BY <1>2 DEF Known, Row
    <3> HIDE DEF new
    <3>4. target[r] = d /\ view'[r] = new
      BY <1>1, <1>6, <2>2, <3>2 DEF Save, TypeOK
    <3>5. session[r] = "clean"
      BY <1>1, <1>2, <3>1, <3>2 DEF Handle, Rollback, TypeOK, Known, AuditOf
    <3>6. GaveUp(r)'
      BY <1>2, <3>2, <3>3, <3>4, <3>5 DEF ErrorOf, GaveUp
    <3> QED
      BY <3>2, <3>4, <3>6 DEF RunsOn
  <2> QED
    BY <2>1, <2>2
<1> QED
  BY <1>1, <1>5, <1>6 DEF ErrorInv, Kept

\* For any number of overlapping runs a row has an error if and only if some run
\* on it gave up: success keeps it, and stale sessions do not write it away.
THEOREM ErrorsKept == Spec => []ErrorsAreKept
<1>1. ASSUME ErrorInv PROVE ErrorsAreKept
  <2>1. ASSUME NEW d \in Docs, NEW r \in RunsOn(d), GaveUp(r) PROVE doc[d].error
    <3>1. Grows(view[r], doc[d]) /\ view[r].error
      BY <1>1, <2>1
      DEF ErrorInv, ErrorOf, QuietInv, StatusInv, ProgressInv, CopyInv, RunsOn
    <3> QED
      BY <3>1 DEF Grows
  <2>2. \A d \in Docs : doc[d].error \in BOOLEAN
    BY <1>1, RunsAreKnown DEF ErrorInv, TypeOK, Row
  <2> QED
    BY <1>1, <2>1, <2>2 DEF ErrorsAreKept, ErrorInv, Kept
<1> QED
  BY <1>1, InitError, NextError, PTL DEF Spec

-----------------------------------------------------------------------------
(* Progress *)

\* The steps that a run can still make: those of the stages to come, at most
\* MaxAttempts + 8 for each, and those of the stage it is in.
Block == MaxAttempts + 9
StagesToDo == [preprocess |-> 4 * Block, classify |-> 3 * Block, extract |-> 2 * Block,
               validate |-> Block]

InStageToDo(r) ==
  CASE pc[r] = "idle"     -> MaxAttempts + 8
    [] pc[r] = "load"     -> MaxAttempts + 7
    [] pc[r] = "announce" -> MaxAttempts + 6
    [] pc[r] = "insert"   -> MaxAttempts + 5
    [] pc[r] = "work"     -> MaxAttempts - calls[r] + 4
    [] pc[r] \in {"success", "failure"} -> 3
    [] OTHER -> 2

ToDo(r) ==
  CASE pc[r] \in Ended       -> 0
    [] pc[r] = "returning"   -> 1
    [] pc[r] = "handle"      -> 2
    [] pc[r] = "finish"      -> 3
    [] OTHER -> 3 + StagesToDo[stage[r]] + InStageToDo(r)

\* Every step takes one run nearer to its end and none back.
RunsGoForward ==
  [][/\ \A r \in Runs : ToDo(r)' <= ToDo(r)
     /\ \E r \in Runs : ToDo(r)' < ToDo(r)]_vars

\* It is a number of steps, linear in the number of attempts.
LEMMA ToDoType ==
  ASSUME LocatedInv
  PROVE  \A r \in Runs : ToDo(r) \in 0 .. 5 * MaxAttempts + 47
<1> TAKE r \in Runs
<1>1. pc[r] \in PC /\ stage[r] \in Stages /\ calls[r] \in 0 .. MaxAttempts /\ MaxAttempts \in Nat
  BY MaxAttemptsAssumption DEF LocatedInv, TypeOK
<1>2. InStageToDo(r) \in 2 .. MaxAttempts + 8
  BY <1>1, MaxAttemptsAssumption DEF InStageToDo
<1>3. StagesToDo[stage[r]] \in 0 .. 4 * Block
  BY <1>1 DEF StagesToDo, Stages, Block
<1> QED
  BY <1>1, <1>2, <1>3 DEF ToDo, Block

\* Inside a stage and from each stage to the next.
LEMMA RunGoesForward ==
  ASSUME LocatedInv, NEW r \in Runs, (\E d \in Docs : Start(r, d)) \/ Step(r) \/ Interrupt(r)
  PROVE  ToDo(r)' < ToDo(r)
<1>1. /\ TypeOK /\ Located(r) /\ MaxAttempts \in Nat \ {0}
      /\ pc[r] \in PC /\ stage[r] \in Stages /\ calls[r] \in 0 .. MaxAttempts
  BY MaxAttemptsAssumption DEF LocatedInv, TypeOK
<1> USE DEF Block, StagesToDo
<1>2. CASE \E d \in Docs : Start(r, d)
  BY <1>1, <1>2 DEF Start, Go, TypeOK, Located, ToDo, InStageToDo, Ended
<1>3. CASE Load(r)
  BY <1>1, <1>3 DEF Load, Go, TypeOK, Located, ToDo, InStageToDo, Ended
<1>4. CASE Announce(r)
  <2>1. /\ pc[r] = "announce" /\ pc'[r] \in {"handle", "insert"}
        /\ stage' = stage
    BY <1>1, <1>4 DEF Announce, Go, TypeOK
  <2> QED
    BY <1>1, <2>1 DEF ToDo, InStageToDo, Stages, Ended
<1>5. CASE Insert(r)
  BY <1>1, <1>5 DEF Insert, Go, TypeOK, ToDo, InStageToDo, Stages, Ended
<1>6. CASE Preprocess(r) \/ Answer(r) \/ Validate(r) \/ BodyRaises(r)
  <2>1. pc[r] = "work" /\ pc'[r] \in {"success", "failure"} /\ stage' = stage /\ calls[r] < MaxAttempts
    BY <1>1, <1>6 DEF Preprocess, Answer, Validate, BodyRaises, Go, TypeOK, Located
  <2> QED
    BY <1>1, <2>1 DEF ToDo, InStageToDo, Stages, Ended
<1>7. CASE Retry(r)
  <2>1. pc[r] = "work" /\ pc'[r] = "work" /\ stage' = stage /\ calls'[r] = calls[r] + 1
    BY <1>1, <1>7 DEF Retry, TypeOK
  <2> QED
    BY <1>1, <2>1 DEF ToDo, InStageToDo, Stages, Ended
<1>8. CASE StageSucceeds(r)
  <2>1. pc[r] = "success" /\ pc'[r] = AfterStage(r).pc /\ stage'[r] = AfterStage(r).stage
    BY <1>1, <1>8 DEF StageSucceeds, Go, TypeOK
  <2>2. \/ /\ stage[r] = "preprocess"
           /\ \/ pc'[r] = "insert" /\ stage'[r] = "classify"
              \/ pc'[r] = "announce" /\ stage'[r] = "extract"
        \/ stage[r] = "classify" /\ pc'[r] = "set_type" /\ stage'[r] = "classify"
        \/ stage[r] = "extract" /\ pc'[r] = "announce" /\ stage'[r] = "validate"
        \/ stage[r] = "validate" /\ pc'[r] = "finish" /\ stage'[r] = "validate"
    BY <1>1, <2>1 DEF AfterStage, Stages
  <2> QED
    BY <1>1, <2>1, <2>2 DEF ToDo, InStageToDo, Ended
<1>9. CASE StageFails(r)
  BY <1>1, <1>9 DEF StageFails, Go, TypeOK, ToDo, InStageToDo, Stages, Ended
<1>10. CASE SetType(r)
  <2>1. pc[r] = "set_type" /\ stage[r] = "classify" /\ pc'[r] = "announce" /\ stage'[r] = "extract"
    BY <1>1, <1>10 DEF SetType, Go, TypeOK, Located
  <2> QED
    BY <1>1, <2>1 DEF ToDo, InStageToDo, Ended
<1>11. CASE Finish(r) \/ Return(r)
  <2>1. \/ pc[r] = "finish" /\ pc'[r] = "returning"
        \/ pc[r] = "returning" /\ pc'[r] = "returned"
    BY <1>1, <1>11 DEF Finish, Return, Go, TypeOK
  <2> QED
    BY <2>1 DEF ToDo, Ended
<1>12. CASE Handle(r)
  <2>1. pc[r] = "handle" /\ pc'[r] \in {"raised", "returning"}
    BY <1>1, <1>12 DEF Handle, Go, TypeOK
  <2> QED
    BY <2>1 DEF ToDo, Ended
<1>13. CASE Interrupt(r)
  <2>1. pc[r] \notin {"idle"} \cup Ended /\ pc'[r] = "cut"
    BY <1>1, <1>13 DEF Interrupt, Go, TypeOK, Live
  <2>2. ToDo(r)' = 0
    BY <2>1 DEF ToDo, Ended
  <2>3. ToDo(r) > 0
    BY <1>1, <2>1 DEF ToDo, InStageToDo, Stages
  <2> QED
    BY <2>2, <2>3
<1> QED
  BY <1>2, <1>3, <1>4, <1>5, <1>6, <1>7, <1>8, <1>9, <1>10, <1>11, <1>12, <1>13 DEF Step

\* However many attempts a stage may make and whatever fails, a call of process()
\* takes a bounded number of steps: nothing is retried for ever, no stage entered
\* twice.
THEOREM RunsForward == Spec => RunsGoForward
<1> DEFINE Forward == /\ \A r \in Runs : ToDo(r)' <= ToDo(r)
                      /\ \E r \in Runs : ToDo(r)' < ToDo(r)
<1>a. LocatedInv => \A q \in Runs : ToDo(q) \in Nat
  BY ToDoType, MaxAttemptsAssumption
<1>b. LocatedInv' => (\A q \in Runs : ToDo(q) \in Nat)'
  BY <1>a, PTL
<1>1. ASSUME LocatedInv, LocatedInv', Next PROVE Forward
  <2>1. PICK r \in Runs : (\E d \in Docs : Start(r, d)) \/ Step(r) \/ Interrupt(r)
    BY <1>1 DEF Next
  <2>2. ToDo(r)' < ToDo(r)
    BY <1>1, <2>1, RunGoesForward
  <2>3. \A q \in Runs \ {r} : pc'[q] = pc[q] /\ stage'[q] = stage[q] /\ calls'[q] = calls[q]
    <3>1. ASSUME NEW q \in Runs \ {r} PROVE calls'[q] = calls[q]
      BY <1>1, <2>1, <3>1
      DEF LocatedInv, TypeOK, Step, Start, Load, Announce, Insert, Preprocess, Answer, Validate,
          Retry, BodyRaises, StageSucceeds, StageFails, SetType, Finish, Handle, Return, Interrupt
    <3> QED
      BY <1>1, <2>1, <3>1, StepIsLocal DEF LocatedInv
  <2>4. \A q \in Runs \ {r} : ToDo(q)' = ToDo(q)
    BY <2>3 DEF ToDo, InStageToDo
  <2>5. \A q \in Runs : ToDo(q) \in Nat
    BY <1>1, <1>a
  <2>6. \A q \in Runs : ToDo(q)' \in Nat
    BY <1>1, <1>b
  <2> HIDE DEF ToDo
  <2>7. \A q \in Runs : ToDo(q)' <= ToDo(q)
    <3> TAKE q \in Runs
    <3>1. CASE q = r
      BY <2>2, <2>5, <2>6, <3>1
    <3>2. CASE q # r
      BY <2>4, <2>5, <3>2
    <3> QED
      BY <3>1, <3>2
  <2> QED
    BY <2>2, <2>7
<1>2. LocatedInv /\ LocatedInv' /\ [Next]_vars => [Forward]_vars
  <2> HIDE DEF Forward
  <2> QED
    BY <1>1
<1> QED
  BY <1>2, InitLocated, NextLocated, PTL DEF Spec, RunsGoForward
=============================================================================
