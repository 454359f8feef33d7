---------------------- MODULE DocumentPipelineProofs ----------------------
(***************************************************************************)
(* Proofs about DocumentPipeline, for every set of documents, runs, types  *)
(* and payloads and every number of attempts: the rows that are committed, *)
(* the audit trail, which agrees with them for any number of runs in any   *)
(* interleaving, and what a run on its own can rely on: that its copy is   *)
(* the committed row, the data have the schema of the row's type and the   *)
(* status follows its lifecycle.                                           *)
(***************************************************************************)
EXTENDS DocumentPipeline, TLAPS

-----------------------------------------------------------------------------
(* Commits *)

\* A commit of well-typed rows gives a well-typed row.
LEMMA FlushType ==
  ASSUME NEW committed \in Row, NEW old \in Row, NEW new \in Row
  PROVE  Flush(committed, old, new) \in Row
BY DEF Flush, Column, Row

\* A commit from a session that holds the committed row writes all of its copy.
LEMMA FlushCurrent ==
  ASSUME NEW old \in Row, NEW new \in Row
  PROVE  Flush(old, old, new) = new
BY DEF Flush, Column, Row

\* Save keeps rows well-typed.
LEMMA SaveType ==
  ASSUME TypeOK, NEW r \in Runs, target[r] \in Docs, NEW new \in Row, Save(r, new)
  PROVE  doc' \in [Docs -> Row] /\ view' \in [Runs -> Row]
<1>1. Flush(doc[target[r]], view[r], new) \in Row
  BY FlushType DEF TypeOK
<1>2. QED
  BY <1>1 DEF Save, TypeOK

-----------------------------------------------------------------------------
(* Where a run can be *)

\* A run that started has its document; its position fits its stage; extract and
\* validate are entered only with a registered type; there is an attempt left
\* whenever the LLM is about to be called.
Located(r) ==
  /\ pc[r] # "idle" => target[r] \in Docs
  /\ pc[r] \in {"idle", "load"} => stage[r] = "preprocess"
  /\ pc[r] = "announce" => stage[r] # "classify"
  /\ pc[r] = "set_type" => stage[r] = "classify"
  /\ pc[r] = "finish" => stage[r] = "validate"
  /\ \/ stage[r] = "validate"
     \/ stage[r] = "extract" /\ pc[r] \in {"insert", "work", "success", "failure"}
     => view[r].docType \in Registered
  /\ pc[r] = "work" => calls[r] < MaxAttempts
  /\ pc[r] = "work" /\ stage[r] = "classify" => calls[r] = 0

LocatedInv == TypeOK /\ \A r \in Runs : Located(r)

\* Every initial state is well-typed.
LEMMA InitLocated == Init => LocatedInv
<1> SUFFICES ASSUME Init PROVE LocatedInv
  OBVIOUS
<1>1. \A t \in DocumentType : Uploaded(t) \in Row
  BY DEF Uploaded, Row, DocumentStatus
<1>2. TypeOK
  BY <1>1, MaxAttemptsAssumption
     DEF Init, TypeOK, Stages, AuditStatus, PC, Failures, DocumentType
<1>3. \A r \in Runs : Located(r)
  BY DEF Init, Located
<1>4. QED
  BY <1>2, <1>3 DEF LocatedInv

\* Every step keeps the state well-typed and the runs located.
LEMMA NextLocated == LocatedInv /\ [Next]_vars => LocatedInv'
<1> SUFFICES ASSUME LocatedInv, [Next]_vars PROVE LocatedInv'
  OBVIOUS
<1> USE DEF LocatedInv
<1>1. ASSUME NEW r \in Runs, NEW d \in Docs, Start(r, d)
      PROVE  LocatedInv'
  <2>1. TypeOK'
    BY <1>1 DEF Start, TypeOK, Go, PC
  <2>2. \A q \in Runs : Located(q)'
    BY <1>1 DEF Start, TypeOK, Go, Located
  <2>3. QED
    BY <2>1, <2>2
<1>2. ASSUME NEW r \in Runs, Load(r)
      PROVE  LocatedInv'
  <2>1. TypeOK'
    BY <1>2 DEF Load, TypeOK, Go, PC, Located
  <2>2. \A q \in Runs : Located(q)'
    BY <1>2 DEF Load, TypeOK, Go, Located
  <2>3. QED
    BY <2>1, <2>2
<1>3. ASSUME NEW r \in Runs, Announce(r)
      PROVE  LocatedInv'
  <2> DEFINE new == [view[r] EXCEPT !.status = StatusOf[stage[r]]]
  <2>1. stage[r] \in {"preprocess", "extract", "validate"} /\ target[r] \in Docs
    BY <1>3 DEF Announce, TypeOK, Located, Stages
  <2>2. new \in Row /\ new.docType = view[r].docType
    <3>1. StatusOf[stage[r]] \in DocumentStatus
      BY <2>1 DEF StatusOf, DocumentStatus, InProgress
    <3>2. view[r] \in Row
      BY DEF TypeOK
    <3>3. QED
      BY <3>1, <3>2 DEF Row
  <2>3. Save(r, new)
    BY <1>3 DEF Announce
  <2>4. TypeOK'
    BY <1>3, <2>1, <2>2, <2>3, SaveType DEF Announce, TypeOK, Go, PC, Failures
  <2>5. \A q \in Runs : Located(q)'
    BY <1>3, <2>1, <2>2, <2>3 DEF Announce, Save, TypeOK, Go, Located, HasExtractor
  <2>6. QED
    BY <2>4, <2>5
<1>4. ASSUME NEW r \in Runs, Insert(r)
      PROVE  LocatedInv'
  <2>1. TypeOK'
    BY <1>4, MaxAttemptsAssumption DEF Insert, TypeOK, Go, Log, PC, AuditStatus
  <2>2. \A q \in Runs : Located(q)'
    BY <1>4, MaxAttemptsAssumption DEF Insert, TypeOK, Go, Located
  <2>3. QED
    BY <2>1, <2>2
<1>5. ASSUME NEW r \in Runs, Preprocess(r)
      PROVE  LocatedInv'
  <2> DEFINE new == [view[r] EXCEPT !.text = TRUE]
  <2>1. target[r] \in Docs
    BY <1>5 DEF Preprocess, Located
  <2>2. new \in Row /\ new.docType = view[r].docType
    <3>1. view[r] \in Row
      BY DEF TypeOK
    <3>2. QED
      BY <3>1 DEF Row
  <2>3. Save(r, new)
    BY <1>5 DEF Preprocess
  <2>4. TypeOK'
    BY <1>5, <2>1, <2>2, <2>3, SaveType DEF Preprocess, TypeOK, Go, PC
  <2>5. \A q \in Runs : Located(q)'
    BY <1>5, <2>1, <2>2, <2>3 DEF Preprocess, Save, TypeOK, Go, Located
  <2>6. QED
    BY <2>4, <2>5
<1>6. ASSUME NEW r \in Runs, Answer(r)
      PROVE  LocatedInv'
  <2>1. calls[r] \in Nat /\ calls[r] + 1 \in 0 .. MaxAttempts
    BY <1>6, MaxAttemptsAssumption DEF Answer, TypeOK, Located
  <2>2. TypeOK'
    BY <1>6, <2>1 DEF Answer, TypeOK, Go, PC
  <2>3. \A q \in Runs : Located(q)'
    BY <1>6 DEF Answer, TypeOK, Go, Located
  <2>4. QED
    BY <2>2, <2>3
<1>7. ASSUME NEW r \in Runs, Validate(r)
      PROVE  LocatedInv'
  BY <1>7 DEF Validate, TypeOK, Go, PC, Located
<1>8. ASSUME NEW r \in Runs, Retry(r)
      PROVE  LocatedInv'
  <2>1. stage[r] = "extract" /\ calls[r] \in Nat /\ calls[r] + 1 < MaxAttempts
    BY <1>8, MaxAttemptsAssumption DEF Retry, Retryable, TypeOK
  <2>2. TypeOK'
    BY <1>8, <2>1, MaxAttemptsAssumption DEF Retry, TypeOK
  <2>3. \A q \in Runs : Located(q)'
    BY <1>8, <2>1 DEF Retry, TypeOK, Located
  <2>4. QED
    BY <2>2, <2>3
<1>9. ASSUME NEW r \in Runs, BodyRaises(r)
      PROVE  LocatedInv'
  <2>1. calls[r] \in Nat /\ calls[r] + 1 \in 0 .. MaxAttempts
    BY <1>9, MaxAttemptsAssumption DEF BodyRaises, TypeOK, Located
  <2>2. RaisedBy(r) \subseteq Failures
    BY DEF RaisedBy, Failures
  <2>3. TypeOK'
    BY <1>9, <2>1, <2>2 DEF BodyRaises, TypeOK, Go, PC
  <2>4. \A q \in Runs : Located(q)'
    BY <1>9 DEF BodyRaises, TypeOK, Go, Located
  <2>5. QED
    BY <2>3, <2>4
<1>10. ASSUME NEW r \in Runs, StageSucceeds(r)
       PROVE  LocatedInv'
  <2>1. /\ AfterStage(r).stage \in Stages
        /\ AfterStage(r).pc \in {"insert", "announce", "set_type", "finish"}
    BY DEF AfterStage, TypeOK, Stages
  <2>2. TypeOK'
    BY <1>10, <2>1 DEF StageSucceeds, TypeOK, Go, Log, PC, AuditStatus
  <2>3. Located(r)'
    BY <1>10 DEF StageSucceeds, AfterStage, TypeOK, Go, Located, Stages
  <2>4. \A q \in Runs \ {r} : Located(q)'
    BY <1>10 DEF StageSucceeds, TypeOK, Go, Located
  <2>5. QED
    BY <2>2, <2>3, <2>4
<1>11. ASSUME NEW r \in Runs, StageFails(r)
       PROVE  LocatedInv'
  <2>1. TypeOK'
    BY <1>11 DEF StageFails, TypeOK, Go, Log, PC, AuditStatus, Rollback
  <2>2. \A q \in Runs : Located(q)'
    BY <1>11 DEF StageFails, TypeOK, Go, Located
  <2>3. QED
    BY <2>1, <2>2
<1>12. ASSUME NEW r \in Runs, SetType(r)
       PROVE  LocatedInv'
  <2>1. PICK t \in DocumentType : Save(r, [view[r] EXCEPT !.docType = t])
    BY <1>12 DEF SetType
  <2> DEFINE new == [view[r] EXCEPT !.docType = t]
  <2>2. target[r] \in Docs /\ new \in Row
    <3>1. view[r] \in Row
      BY DEF TypeOK
    <3>2. target[r] \in Docs
      BY <1>12 DEF SetType, Located
    <3>3. QED
      BY <3>1, <3>2 DEF Row
  <2>3. TypeOK'
    BY <1>12, <2>1, <2>2, SaveType DEF SetType, TypeOK, Go, PC, Stages
  <2>4. \A q \in Runs : Located(q)'
    BY <1>12, <2>1, <2>2 DEF SetType, Save, TypeOK, Go, Located
  <2>5. QED
    BY <2>3, <2>4
<1>13. ASSUME NEW r \in Runs, Finish(r)
       PROVE  LocatedInv'
  <2> DEFINE new(p) ==
        [view[r] EXCEPT !.data = [schema |-> view[r].docType, payload |-> p],
                        !.status = "ready", !.completed = TRUE]
  <2>1. PICK p \in Payloads : Save(r, new(p))
    BY <1>13 DEF Finish
  <2>2. target[r] \in Docs /\ view[r].docType \in Registered
    BY <1>13 DEF Finish, Located
  <2>3. new(p) \in Row /\ new(p).docType = view[r].docType
    <3>1. view[r] \in Row
      BY DEF TypeOK
    <3>2. "ready" \in DocumentStatus /\ [schema |-> view[r].docType, payload |-> p] \in Data
      BY <2>2 DEF Data, DocumentStatus, Settled
    <3>3. QED
      BY <3>1, <3>2 DEF Row
  <2>4. TypeOK'
    BY <1>13, <2>1, <2>2, <2>3, SaveType DEF Finish, TypeOK, Go, PC
  <2>5. \A q \in Runs : Located(q)'
    <3> HIDE DEF new
    <3> QED
      BY <1>13, <2>1, <2>2, <2>3 DEF Finish, Save, TypeOK, Go, Located
  <2>6. QED
    BY <2>4, <2>5
<1>14. ASSUME NEW r \in Runs, Handle(r)
       PROVE  LocatedInv'
  <2> DEFINE new == [view[r] EXCEPT !.status = "failed", !.error = TRUE,
                                    !.completed = TRUE]
  <2>1. target[r] \in Docs
    BY <1>14 DEF Handle, Located
  <2>2. new \in Row /\ new.docType = view[r].docType
    <3>1. view[r] \in Row
      BY DEF TypeOK
    <3>2. "failed" \in DocumentStatus
      BY DEF DocumentStatus, Settled
    <3>3. QED
      BY <3>1, <3>2 DEF Row
  <2>3. session' \in [Runs -> {"clean", "open", "expired"}]
    BY <1>14 DEF Handle, TypeOK, Rollback
  <2>4. CASE session'[r] = "expired"
    BY <1>14, <2>3, <2>4 DEF Handle, TypeOK, Go, PC, Ended, Located
  <2>5. CASE session'[r] # "expired"
    <3>1. Save(r, new) /\ Go(r, "returning")
      BY <1>14, <2>5 DEF Handle
    <3>2. TypeOK'
      BY <1>14, <2>1, <2>2, <2>3, <3>1, SaveType DEF Handle, TypeOK, Go, PC
    <3>3. \A q \in Runs : Located(q)'
      BY <1>14, <2>1, <2>2, <3>1 DEF Handle, Save, TypeOK, Go, Located
    <3>4. QED
      BY <3>2, <3>3
  <2>6. QED
    BY <2>4, <2>5
<1>15. ASSUME NEW r \in Runs, Return(r)
       PROVE  LocatedInv'
  BY <1>15 DEF Return, TypeOK, Go, PC, Ended, Located
<1>16. ASSUME NEW r \in Runs, Interrupt(r)
       PROVE  LocatedInv'
  BY <1>16 DEF Interrupt, Live, TypeOK, Go, PC, Ended, Located
<1>17. CASE UNCHANGED vars
  BY <1>17 DEF vars, TypeOK, Located
<1>18. QED
  BY <1>1, <1>2, <1>3, <1>4, <1>5, <1>6, <1>7, <1>8, <1>9, <1>10, <1>11, <1>12,
     <1>13, <1>14, <1>15, <1>16, <1>17 DEF Next, Step

\* The state stays well-typed.
THEOREM TypeCorrect == Spec => []TypeOK
<1>1. LocatedInv => TypeOK
  BY DEF LocatedInv
<1>2. QED
  BY <1>1, InitLocated, NextLocated, PTL DEF Spec

-----------------------------------------------------------------------------
(* Settled rows are whole *)

\* Nothing that old has is missing from new.
Grows(old, new) ==
  /\ old.text => new.text
  /\ old.data # NoData => new.data # NoData
  /\ old.error => new.error
  /\ old.completed => new.completed

Whole(row) ==
  /\ row.status = "ready" => row.data # NoData /\ row.completed
  /\ row.status = "failed" => row.error /\ row.completed

\* A run's copy never has what the committed row lacks; before the row is read
\* the copy is empty.
CopyInv ==
  \A r \in Runs :
    /\ pc[r] \in {"idle", "load"} => view[r] = Uploaded("unknown")
    /\ target[r] \in Docs => Grows(view[r], doc[target[r]])

\* The ways a step changes rows and copies: not at all, by reading a row, or by
\* a commit that takes nothing away and settles only rows that are whole.
Reads(r) == doc' = doc /\ view' = [view EXCEPT ![r] = doc[target[r]]]

Commits(r, new) ==
  /\ new \in Row /\ Save(r, new) /\ pc[r] # "load"
  /\ Grows(view[r], new)
  /\ new.status # view[r].status => Whole(new)

RowChange ==
  \/ UNCHANGED <<doc, view>>
  \/ \E r \in Runs : /\ target[r] \in Docs /\ Live(r) /\ UNCHANGED <<target, raced>>
                     /\ pc'[r] \notin {"idle", "load"}
                     /\ Reads(r) \/ \E new \in Row : Commits(r, new)

\* Every step is one of these.
LEMMA StepChangesRows == LocatedInv /\ [Next]_vars => RowChange
<1> SUFFICES ASSUME LocatedInv, [Next]_vars PROVE RowChange
  OBVIOUS
<1> USE DEF LocatedInv
<1>a. \A r \in Runs : view[r] \in Row
  BY DEF TypeOK
<1>b. \A r \in Runs : pc[r] # "idle" => target[r] \in Docs
  BY DEF Located
<1>1. ASSUME NEW r \in Runs, Load(r)
      PROVE  RowChange
  BY <1>1, <1>b DEF Load, Go, TypeOK, RowChange, Reads, Live, Ended
<1>2. ASSUME NEW r \in Runs, Announce(r)
      PROVE  RowChange
  <2> DEFINE new == [view[r] EXCEPT !.status = StatusOf[stage[r]]]
  <2>1. stage[r] \in {"preprocess", "extract", "validate"} /\ pc[r] = "announce"
    BY <1>2 DEF Announce, TypeOK, Located, Stages
  <2>2. StatusOf[stage[r]] \in InProgress
    BY <2>1 DEF StatusOf, InProgress
  <2>3. StatusOf[stage[r]] \in DocumentStatus
    BY <2>2 DEF DocumentStatus
  <2>4. new \in Row /\ Grows(view[r], new) /\ Whole(new)
    BY <1>a, <2>2, <2>3 DEF Row, Grows, Whole, InProgress
  <2>5. Save(r, new) /\ pc'[r] \in {"handle", "insert"} /\ UNCHANGED <<target, raced>>
    BY <1>2 DEF Announce, Go, TypeOK
  <2> HIDE DEF new
  <2>6. QED
    BY <1>b, <2>1, <2>4, <2>5 DEF RowChange, Commits, Live, Ended
<1>3. ASSUME NEW r \in Runs, Preprocess(r)
      PROVE  RowChange
  <2> DEFINE new == [view[r] EXCEPT !.text = TRUE]
  <2>1. new \in Row /\ Grows(view[r], new) /\ new.status = view[r].status
    BY <1>a DEF Row, Grows
  <2>2. Save(r, new) /\ pc[r] = "work" /\ pc'[r] = "success" /\ UNCHANGED <<target, raced>>
    BY <1>3 DEF Preprocess, Go, TypeOK
  <2> HIDE DEF new
  <2>3. QED
    BY <1>b, <2>1, <2>2 DEF RowChange, Commits, Live, Ended
<1>4. ASSUME NEW r \in Runs, SetType(r)
      PROVE  RowChange
  <2>1. PICK t \in DocumentType : Save(r, [view[r] EXCEPT !.docType = t])
    BY <1>4 DEF SetType
  <2> DEFINE new == [view[r] EXCEPT !.docType = t]
  <2>2. new \in Row /\ Grows(view[r], new) /\ new.status = view[r].status
    BY <1>a DEF Row, Grows
  <2>3. Save(r, new) /\ pc[r] = "set_type" /\ pc'[r] = "announce" /\ UNCHANGED <<target, raced>>
    BY <1>4, <2>1 DEF SetType, Go, TypeOK
  <2> HIDE DEF new
  <2>4. QED
    BY <1>b, <2>2, <2>3 DEF RowChange, Commits, Live, Ended
<1>5. ASSUME NEW r \in Runs, Finish(r)
      PROVE  RowChange
  <2> DEFINE d(p) == [schema |-> view[r].docType, payload |-> p]
             new(p) == [view[r] EXCEPT !.data = d(p), !.status = "ready",
                                       !.completed = TRUE]
  <2>1. PICK p \in Payloads : Save(r, new(p))
    BY <1>5 DEF Finish
  <2>2. d(p) \in Data /\ d(p) # NoData
    BY <1>5, NoDataAssumption DEF Finish, Located, Data
  <2> HIDE DEF d
  <2>3. new(p) \in Row /\ Grows(view[r], new(p)) /\ Whole(new(p))
    BY <1>a, <2>2 DEF Row, Grows, Whole, DocumentStatus, Settled
  <2>4. pc[r] = "finish" /\ pc'[r] = "returning" /\ UNCHANGED <<target, raced>>
    BY <1>5 DEF Finish, Go, TypeOK
  <2> HIDE DEF new
  <2>5. QED
    BY <1>b, <2>1, <2>3, <2>4 DEF RowChange, Commits, Live, Ended
<1>6. ASSUME NEW r \in Runs, Handle(r)
      PROVE  RowChange
  <2> DEFINE new == [view[r] EXCEPT !.status = "failed", !.error = TRUE,
                                    !.completed = TRUE]
  <2>1. new \in Row /\ Grows(view[r], new) /\ Whole(new)
    BY <1>a DEF Row, Grows, Whole, DocumentStatus, Settled
  <2>2. pc[r] = "handle" /\ pc'[r] \in {"raised", "returning"} /\ UNCHANGED <<target, raced>>
    BY <1>6 DEF Handle, Go, TypeOK
  <2>3. UNCHANGED <<doc, view>> \/ Save(r, new)
    BY <1>6 DEF Handle
  <2> HIDE DEF new
  <2>4. QED
    BY <1>b, <2>1, <2>2, <2>3 DEF RowChange, Commits, Live, Ended
<1>7. ASSUME NEW r \in Runs,
             \/ \E d \in Docs : Start(r, d)
             \/ Insert(r) \/ Answer(r) \/ Validate(r) \/ Retry(r) \/ BodyRaises(r)
             \/ StageSucceeds(r) \/ StageFails(r) \/ Return(r) \/ Interrupt(r)
      PROVE  RowChange
  BY <1>7 DEF RowChange, Start, Insert, Answer, Validate, Retry, BodyRaises,
              StageSucceeds, StageFails, Return, Interrupt
<1>8. CASE UNCHANGED vars
  BY <1>8 DEF vars, RowChange
<1>9. QED
  BY <1>1, <1>2, <1>3, <1>4, <1>5, <1>6, <1>7, <1>8 DEF Next, Step

\* A commit takes nothing away from the row either, although it writes only the
\* columns that changed, and the row ends up with all that the copy has.
LEMMA FlushGrows ==
  ASSUME NEW committed \in Row, NEW old \in Row, NEW new \in Row,
         Grows(old, new), Grows(old, committed)
  PROVE  /\ Grows(committed, Flush(committed, old, new))
         /\ Grows(new, Flush(committed, old, new))
BY DEF Grows, Flush, Column, Row

\* It leaves the status alone or settles the row with what the copy has.
LEMMA FlushWhole ==
  ASSUME NEW committed \in Row, NEW old \in Row, NEW new \in Row,
         Grows(old, new), Grows(old, committed), Whole(committed),
         new.status # old.status => Whole(new)
  PROVE  Whole(Flush(committed, old, new))
<1> DEFINE row == Flush(committed, old, new)
<1>1. Grows(committed, row) /\ Grows(new, row)
  BY FlushGrows
<1>2. CASE new.status # old.status
  <2>1. row.status = new.status
    BY <1>2 DEF Flush, Column
  <2>2. QED
    BY <1>1, <1>2, <2>1 DEF Whole, Grows
<1>3. CASE new.status = old.status
  <2>1. row.status = committed.status
    BY <1>3 DEF Flush, Column
  <2>2. QED
    BY <1>1, <2>1 DEF Whole, Grows
<1>4. QED
  BY <1>2, <1>3

LEMMA GrowsTransitive ==
  ASSUME NEW a, NEW b, NEW c, Grows(a, b), Grows(b, c)
  PROVE  Grows(a, c)
BY DEF Grows

RowsInv == LocatedInv /\ CopyInv /\ \A d \in Docs : Whole(doc[d])

\* A run gets its document when it starts and keeps it, and no run goes back to
\* before its read.
LEMMA RunsStartOnce ==
  ASSUME LocatedInv, [Next]_vars, NEW q \in Runs
  PROVE  /\ pc'[q] \in {"idle", "load"} => pc[q] \in {"idle", "load"}
         /\ \/ target'[q] = target[q]
            \/ pc[q] = "idle" /\ pc'[q] = "load" /\ UNCHANGED <<doc, view, audit>>
<1> USE DEF LocatedInv
<1>1. ASSUME NEW r \in Runs, NEW d \in Docs, Start(r, d)
      PROVE  /\ pc'[q] \in {"idle", "load"} => pc[q] \in {"idle", "load"}
             /\ \/ target'[q] = target[q]
                \/ pc[q] = "idle" /\ pc'[q] = "load" /\ UNCHANGED <<doc, view, audit>>
  BY <1>1 DEF Start, Go, TypeOK
<1>2. ASSUME NEW r \in Runs, Step(r) \/ Interrupt(r)
      PROVE  target' = target /\ \E to \in PC \ {"idle", "load"} : Go(r, to) \/ pc' = pc
  <2>1. AfterStage(r).pc \in PC \ {"idle", "load"}
    BY DEF AfterStage, TypeOK, Stages, PC
  <2>2. QED
    BY <1>2, <2>1 DEF Step, Interrupt, Load, Announce, Insert, Preprocess, Answer,
       Validate, Retry, BodyRaises, StageSucceeds, StageFails, SetType, Finish, Handle,
       Return, PC, Ended, Go
<1>3. CASE UNCHANGED vars
  BY <1>3 DEF vars
<1>4. QED
  BY <1>1, <1>2, <1>3 DEF Next, Go, TypeOK

LEMMA InitRows == Init => RowsInv
<1> SUFFICES ASSUME Init PROVE RowsInv
  OBVIOUS
<1>1. LocatedInv
  BY InitLocated
<1>2. CopyInv
  BY NoDocAssumption DEF Init, CopyInv
<1>3. \A d \in Docs : Whole(doc[d])
  BY DEF Init, Uploaded, Whole
<1>4. QED
  BY <1>1, <1>2, <1>3 DEF RowsInv

LEMMA NextRows == RowsInv /\ [Next]_vars => RowsInv'
<1> SUFFICES ASSUME RowsInv, [Next]_vars PROVE RowsInv'
  OBVIOUS
<1>a. LocatedInv /\ CopyInv /\ LocatedInv'
  BY NextLocated DEF RowsInv
<1>b. /\ doc \in [Docs -> Row] /\ view \in [Runs -> Row]
      /\ doc' \in [Docs -> Row] /\ view' \in [Runs -> Row]
  BY <1>a DEF LocatedInv, TypeOK
<1>c. \A q \in Runs : target'[q] \in Docs /\ target'[q] # target[q] =>
                       view'[q] = Uploaded("unknown")
  BY <1>a, RunsStartOnce DEF CopyInv
<1>d. \A row : Grows(Uploaded("unknown"), row)
  BY DEF Grows, Uploaded
<1>1. CASE UNCHANGED <<doc, view>>
  <2>1. CopyInv'
    BY <1>1, <1>a, <1>c, <1>d, RunsStartOnce DEF CopyInv
  <2>2. QED
    BY <1>1, <1>a, <2>1 DEF RowsInv
<1>2. ASSUME NEW r \in Runs, target[r] \in Docs, Live(r),
             pc'[r] \notin {"idle", "load"}, Reads(r)
      PROVE  RowsInv'
  <2>1. \A q \in Runs : view'[q] = IF q = r THEN doc[target[r]] ELSE view[q]
    BY <1>2, <1>b DEF Reads
  <2>2. target'[r] = target[r] /\ doc' = doc
    BY <1>2, <1>a, RunsStartOnce DEF Reads
  <2>3. Grows(doc[target[r]], doc[target[r]])
    BY DEF Grows
  <2>4. ASSUME NEW q \in Runs
        PROVE  /\ pc'[q] \in {"idle", "load"} => view'[q] = Uploaded("unknown")
               /\ target'[q] \in Docs => Grows(view'[q], doc'[target'[q]])
    BY <1>2, <1>a, <1>c, <1>d, <2>1, <2>2, <2>3, RunsStartOnce DEF CopyInv
  <2>5. QED
    BY <1>a, <2>2, <2>4 DEF CopyInv, RowsInv
<1>3. ASSUME NEW r \in Runs, target[r] \in Docs, Live(r),
             pc'[r] \notin {"idle", "load"}, NEW new \in Row, Commits(r, new)
      PROVE  RowsInv'
  <2> DEFINE d == target[r]
             row == Flush(doc[d], view[r], new)
  <2>1. \A e \in Docs : doc'[e] = IF e = d THEN row ELSE doc[e]
    BY <1>3, <1>b DEF Commits, Save
  <2>2. \A q \in Runs : view'[q] = IF q = r THEN new ELSE view[q]
    BY <1>3, <1>b DEF Commits, Save
  <2>3. Grows(view[r], doc[d]) /\ Grows(view[r], new) /\ doc[d] \in Row /\ view[r] \in Row
    BY <1>3, <1>a, <1>b DEF CopyInv, Commits
  <2>4. Grows(doc[d], row) /\ Grows(new, row)
    BY <2>3, FlushGrows
  <2>5. Whole(row)
    BY <1>3, <2>3, FlushWhole DEF RowsInv, Commits
  <2>6. \A e \in Docs : Whole(doc'[e]) /\ Grows(doc[e], doc'[e])
    BY <2>1, <2>4, <2>5 DEF RowsInv, Grows
  <2>7. target'[r] = d
    BY <1>3, <1>a, RunsStartOnce
  <2> HIDE DEF row
  <2>8. ASSUME NEW q \in Runs, target'[q] \in Docs
        PROVE  Grows(view'[q], doc'[target'[q]])
    <3>1. CASE q = r
      BY <3>1, <1>3, <2>1, <2>2, <2>4, <2>7
    <3>2. CASE q # r /\ target'[q] # target[q]
      BY <3>2, <2>8, <1>c, <1>d
    <3>3. CASE q # r /\ target'[q] = target[q]
      <4>1. Grows(view[q], doc[target[q]]) /\ view'[q] = view[q]
        BY <3>3, <2>8, <2>2, <1>a DEF CopyInv
      <4>2. QED
        BY <3>3, <4>1, <2>6, <2>8, GrowsTransitive
    <3>4. QED
      BY <3>1, <3>2, <3>3
  <2>9. ASSUME NEW q \in Runs, pc'[q] \in {"idle", "load"}
        PROVE  view'[q] = Uploaded("unknown")
    BY <1>3, <1>a, <2>2, <2>9, RunsStartOnce DEF CopyInv
  <2>10. QED
    BY <1>a, <2>6, <2>8, <2>9 DEF RowsInv, CopyInv
<1>4. QED
  BY <1>1, <1>2, <1>3, <1>a, StepChangesRows DEF RowChange

\* A READY row has data and a time of completion, a FAILED one an error, for any
\* number of runs in any interleaving.
THEOREM SettledRowsWhole == Spec => []SettledRowsAreWhole
<1>1. RowsInv => SettledRowsAreWhole
  BY DEF RowsInv, Whole, SettledRowsAreWhole
<1>2. QED
  BY <1>1, InitRows, NextRows, PTL DEF Spec

-----------------------------------------------------------------------------
(* How a run ended *)

\* A step of one run leaves what belongs to another run alone.
LEMMA StepIsLocal ==
  ASSUME TypeOK, NEW r \in Runs, NEW q \in Runs \ {r},
         (\E d \in Docs : Start(r, d)) \/ Step(r) \/ Interrupt(r)
  PROVE  /\ audit'[q] = audit[q] /\ pc'[q] = pc[q] /\ stage'[q] = stage[q]
         /\ session'[q] = session[q] /\ target'[q] = target[q] /\ view'[q] = view[q]
<1>1. ASSUME NEW d \in Docs, Start(r, d)
      PROVE  target'[q] = target[q] /\ pc'[q] = pc[q]
             /\ UNCHANGED <<audit, stage, session, view>>
  BY <1>1 DEF Start, Go, TypeOK
<1>2. CASE Load(r) \/ Announce(r) \/ Preprocess(r) \/ SetType(r) \/ Finish(r) \/ Handle(r)
  BY <1>2 DEF TypeOK, Load, Announce, Preprocess, SetType, Finish, Handle, Save, Go
<1>3. CASE Insert(r) \/ StageSucceeds(r) \/ StageFails(r)
  BY <1>3 DEF TypeOK, Insert, StageSucceeds, StageFails, Log, Go
<1>4. CASE Answer(r) \/ Validate(r) \/ Retry(r) \/ BodyRaises(r) \/ Return(r) \/ Interrupt(r)
  BY <1>4 DEF TypeOK, Answer, Validate, Retry, BodyRaises, Return, Interrupt, Go
<1>5. QED
  BY <1>1, <1>2, <1>3, <1>4 DEF Step

\* The one row of a run that may be open or failed is that of the stage it is
\* in; the session tells whether process() can still write.
AuditOf(r) ==
  /\ \A s \in Stages :
       /\ audit[r][s] = "running" =>
            s = stage[r] /\ pc[r] \in {"work", "success", "failure", "cut"}
       /\ audit[r][s] = "failed" =>
            /\ s = stage[r]
            /\ pc[r] = "cut" \/ (pc[r] \in {"handle", "raised"} /\ session[r] = "expired")
  /\ pc[r] \in {"work", "success", "failure"} => audit[r][stage[r]] = "running"
  /\ pc[r] = "raised" \/ (pc[r] = "handle" /\ session[r] = "expired") =>
       audit[r][stage[r]] = "failed"
  /\ pc[r] \in {"idle", "load", "announce", "insert", "set_type", "finish",
                "returning", "returned"} => session[r] = "clean"
  /\ pc[r] \in {"work", "failure"} => session[r] = "open"
  /\ pc[r] = "handle" => session[r] # "open"

AuditInv == LocatedInv /\ \A r \in Runs : AuditOf(r)

LEMMA InitAudit == Init => AuditInv
BY InitLocated DEF Init, AuditInv, AuditOf

LEMMA NextAudit == AuditInv /\ [Next]_vars => AuditInv'
<1> SUFFICES ASSUME AuditInv, [Next]_vars PROVE AuditInv'
  OBVIOUS
<1>a. LocatedInv /\ LocatedInv' /\ TypeOK
  BY NextLocated DEF AuditInv, LocatedInv
<1>b. \A r \in Runs : AuditOf(r) /\ Located(r) /\ stage[r] \in Stages
  BY <1>a DEF AuditInv, LocatedInv, TypeOK
<1>1. ASSUME NEW r \in Runs, NEW d \in Docs, Start(r, d)
      PROVE  AuditOf(r)'
  BY <1>1, <1>a, <1>b DEF Start, Go, TypeOK, AuditOf
<1>2. ASSUME NEW r \in Runs, Load(r)
      PROVE  AuditOf(r)'
  BY <1>2, <1>a, <1>b DEF Load, Go, TypeOK, AuditOf
<1>3. ASSUME NEW r \in Runs, Announce(r)
      PROVE  AuditOf(r)'
  BY <1>3, <1>a, <1>b DEF Announce, Go, TypeOK, AuditOf
<1>4. ASSUME NEW r \in Runs, Insert(r)
      PROVE  AuditOf(r)'
  BY <1>4, <1>a, <1>b DEF Insert, Go, Log, TypeOK, AuditOf
<1>5. ASSUME NEW r \in Runs, Preprocess(r)
      PROVE  AuditOf(r)'
  BY <1>5, <1>a, <1>b DEF Preprocess, Go, TypeOK, AuditOf
<1>6. ASSUME NEW r \in Runs, Answer(r) \/ Validate(r) \/ Retry(r)
      PROVE  AuditOf(r)'
  BY <1>6, <1>a, <1>b DEF Answer, Validate, Retry, Go, TypeOK, AuditOf
<1>7. ASSUME NEW r \in Runs, BodyRaises(r)
      PROVE  AuditOf(r)'
  BY <1>7, <1>a, <1>b DEF BodyRaises, Go, TypeOK, AuditOf
<1>8. ASSUME NEW r \in Runs, StageSucceeds(r)
      PROVE  AuditOf(r)'
  <2>1. AfterStage(r).pc \in {"insert", "announce", "set_type", "finish"}
    BY <1>b DEF AfterStage, Stages
  <2>2. \A s \in Stages : audit'[r][s] # "running" /\ audit'[r][s] # "failed"
    BY <1>8, <1>a, <1>b DEF StageSucceeds, Log, TypeOK, AuditOf
  <2>3. session'[r] = "clean" /\ pc'[r] = AfterStage(r).pc
    BY <1>8, <1>a DEF StageSucceeds, Go, TypeOK
  <2>4. QED
    BY <2>1, <2>2, <2>3 DEF AuditOf
<1>9. ASSUME NEW r \in Runs, StageFails(r)
      PROVE  AuditOf(r)'
  <2>1. session'[r] = "expired" /\ pc'[r] = "handle" /\ stage' = stage
    BY <1>9, <1>a, <1>b DEF StageFails, Go, Rollback, TypeOK, AuditOf
  <2>2. \A s \in Stages : audit'[r][s] = IF s = stage[r] THEN "failed" ELSE audit[r][s]
    BY <1>9, <1>a DEF StageFails, Log, TypeOK
  <2>3. pc[r] = "failure"
    BY <1>9 DEF StageFails
  <2>4. QED
    BY <1>b, <2>1, <2>2, <2>3 DEF AuditOf
<1>10. ASSUME NEW r \in Runs, SetType(r) \/ Finish(r)
       PROVE  AuditOf(r)'
  <2>1. UNCHANGED <<audit, session>> /\ pc[r] \in {"set_type", "finish"}
    BY <1>10 DEF SetType, Finish
  <2>2. pc'[r] \in {"announce", "returning"}
    BY <1>10, <1>a DEF SetType, Finish, Go, TypeOK
  <2>3. \A s \in Stages : audit[r][s] # "running" /\ audit[r][s] # "failed"
    BY <1>b, <2>1 DEF AuditOf
  <2>4. session[r] = "clean"
    BY <1>b, <2>1 DEF AuditOf
  <2>5. QED
    BY <2>1, <2>2, <2>3, <2>4 DEF AuditOf
<1>11. ASSUME NEW r \in Runs, Handle(r)
       PROVE  AuditOf(r)'
  <2>1. session'[r] = session[r] /\ pc[r] = "handle" /\ UNCHANGED <<audit, stage>>
    BY <1>11, <1>a, <1>b DEF Handle, Rollback, TypeOK, AuditOf
  <2>2. pc'[r] = IF session[r] = "expired" THEN "raised" ELSE "returning"
    BY <1>11, <1>a, <2>1 DEF Handle, Go, TypeOK
  <2>3. session[r] \in {"clean", "expired"}
    BY <1>a, <1>b, <2>1 DEF TypeOK, AuditOf
  <2>4. QED
    BY <1>b, <2>1, <2>2, <2>3 DEF AuditOf
<1>12. ASSUME NEW r \in Runs, Return(r) \/ Interrupt(r)
       PROVE  AuditOf(r)'
  BY <1>12, <1>a, <1>b DEF Return, Interrupt, Live, Go, TypeOK, AuditOf
<1>13. ASSUME NEW r \in Runs, (\E d \in Docs : Start(r, d)) \/ Step(r) \/ Interrupt(r)
       PROVE  AuditInv'
  <2>1. AuditOf(r)'
    BY <1>1, <1>2, <1>3, <1>4, <1>5, <1>6, <1>7, <1>8, <1>9, <1>10, <1>11, <1>12,
       <1>13 DEF Step
  <2>2. \A q \in Runs \ {r} : AuditOf(q)'
    BY <1>13, <1>a, <1>b, StepIsLocal DEF AuditOf
  <2>3. QED
    BY <1>a, <2>1, <2>2 DEF AuditInv
<1>14. CASE UNCHANGED vars
  BY <1>14, <1>a, <1>b DEF vars, AuditInv, AuditOf
<1>15. QED
  BY <1>13, <1>14 DEF Next

\* The audit rows of a run tell how it ended: no row stays open when process()
\* returned or raised, and a run that raised failed exactly in its last stage.
THEOREM AuditTells == Spec => []AuditTellsOutcome
<1>1. AuditInv => AuditTellsOutcome
  <2> SUFFICES ASSUME AuditInv, NEW r \in Runs
               PROVE  AuditTellsOutcome!(r)
    BY DEF AuditTellsOutcome
  <2>1. AuditOf(r) /\ stage[r] \in Stages
    BY DEF AuditInv, LocatedInv, TypeOK
  <2>2. QED
    BY <2>1 DEF AuditOf
<1>2. QED
  BY <1>1, InitAudit, NextAudit, PTL DEF Spec

-----------------------------------------------------------------------------
(* The committed status is backed by the audit trail *)

\* Rows only grow.
LEMMA RowsGrow ==
  ASSUME RowsInv, [Next]_vars, NEW d \in Docs
  PROVE  Grows(doc[d], doc'[d])
<1>1. Grows(doc[d], doc[d])
  BY DEF Grows
<1>2. ASSUME NEW r \in Runs, target[r] \in Docs, NEW new \in Row, Commits(r, new)
      PROVE  Grows(doc[d], doc'[d])
  <2> DEFINE row == Flush(doc[target[r]], view[r], new)
  <2>1. doc \in [Docs -> Row] /\ view[r] \in Row /\ Grows(view[r], doc[target[r]])
    BY <1>2 DEF RowsInv, LocatedInv, TypeOK, CopyInv
  <2>2. Grows(doc[target[r]], row)
    BY <1>2, <2>1, FlushGrows DEF Commits
  <2>3. doc'[d] = IF d = target[r] THEN row ELSE doc[d]
    BY <1>2, <2>1 DEF Commits, Save
  <2> HIDE DEF row
  <2>4. QED
    BY <1>1, <2>2, <2>3
<1>3. QED
  BY <1>1, <1>2, StepChangesRows DEF RowsInv, RowChange, Reads

\* So do the copies that the runs hold.
LEMMA CopiesGrow ==
  ASSUME RowsInv, [Next]_vars, NEW q \in Runs
  PROVE  Grows(view[q], view'[q])
<1>1. Grows(view[q], view[q]) /\ view \in [Runs -> Row]
  BY DEF Grows, RowsInv, LocatedInv, TypeOK
<1>2. ASSUME NEW r \in Runs, target[r] \in Docs, Reads(r)
      PROVE  Grows(view[q], view'[q])
  BY <1>1, <1>2 DEF Reads, RowsInv, CopyInv
<1>3. ASSUME NEW r \in Runs, NEW new \in Row, Commits(r, new)
      PROVE  Grows(view[q], view'[q])
  BY <1>1, <1>3 DEF Commits, Save
<1>4. QED
  BY <1>1, <1>2, <1>3, StepChangesRows DEF RowsInv, RowChange

Earlier == [preprocess |-> {}, classify |-> {"preprocess"},
            extract |-> {"preprocess", "classify"},
            validate |-> {"preprocess", "classify", "extract"}]

\* Which stages of a run have succeeded, from where it is.
Progress(r) ==
  /\ \A s \in Stages : audit[r][s] = "success" =>
       \/ s \in Earlier[stage[r]]
       \/ s = stage[r] /\ pc[r] \in {"set_type", "finish", "returning", "returned", "cut"}
  /\ stage[r] # "preprocess" => audit[r]["preprocess"] = "success"
  /\ stage[r] # "preprocess" \/ pc[r] = "success" => view[r].text
  /\ stage[r] = "validate" => audit[r]["extract"] = "success"
  /\ pc[r] = "finish" => audit[r]["validate"] = "success"
  /\ pc[r] = "handle" /\ session[r] = "clean" => stage[r] = "extract"

ProgressInv == AuditInv /\ CopyInv /\ \A r \in Runs : Progress(r)

\* Progress holds at the start and is kept by every step.
LEMMA InitProgress == Init => ProgressInv
<1> SUFFICES ASSUME Init PROVE ProgressInv
  OBVIOUS
<1>1. AuditInv /\ CopyInv
  BY InitAudit, InitRows DEF RowsInv
<1>2. \A r \in Runs : Progress(r)
  BY DEF Init, Progress, Stages
<1>3. QED
  BY <1>1, <1>2 DEF ProgressInv

LEMMA NextProgress == ProgressInv /\ RowsInv /\ [Next]_vars => ProgressInv'
<1> SUFFICES ASSUME ProgressInv, RowsInv, [Next]_vars PROVE ProgressInv'
  OBVIOUS
<1>a. TypeOK /\ AuditInv' /\ CopyInv'
  BY NextAudit, NextRows DEF ProgressInv, RowsInv, LocatedInv
<1>b. ASSUME NEW r \in Runs
      PROVE  /\ Progress(r) /\ AuditOf(r) /\ Located(r)
             /\ stage[r] \in {"preprocess", "classify", "extract", "validate"}
             /\ view[r].text => view'[r].text
  BY <1>a, CopiesGrow DEF ProgressInv, AuditInv, LocatedInv, TypeOK, Stages, Grows
<1>1. ASSUME NEW r \in Runs, NEW d \in Docs, Start(r, d)
      PROVE  Progress(r)'
  BY <1>1, <1>a, <1>b DEF Start, Go, TypeOK, Progress
<1>2. ASSUME NEW r \in Runs, Load(r)
      PROVE  Progress(r)'
  <2>1. pc'[r] = "announce" /\ stage[r] = "preprocess" /\ UNCHANGED <<stage, audit, session>>
    BY <1>2, <1>a, <1>b DEF Load, Go, TypeOK, Located
  <2>2. pc[r] = "load"
    BY <1>2 DEF Load
  <2>3. QED
    BY <1>b, <2>1, <2>2 DEF Progress
<1>3. ASSUME NEW r \in Runs, Announce(r)
      PROVE  Progress(r)'
  <2>1. pc'[r] \in {"handle", "insert"} /\ pc[r] = "announce"
        /\ (pc'[r] = "handle" => stage[r] = "extract")
        /\ UNCHANGED <<stage, audit, session>>
    BY <1>3, <1>a DEF Announce, Go, TypeOK
  <2>2. QED
    BY <1>b, <2>1 DEF Progress
<1>4. ASSUME NEW r \in Runs, Insert(r) \/ StageFails(r)
      PROVE  Progress(r)'
  <2>1. pc[r] \in {"insert", "failure"} /\ pc'[r] \in {"work", "handle"}
        /\ UNCHANGED <<stage, view>>
    BY <1>4, <1>a DEF Insert, StageFails, Go, TypeOK
  <2>2. pc'[r] = "handle" => session'[r] = "expired"
    BY <1>4, <1>a, <1>b DEF Insert, StageFails, Go, Rollback, TypeOK, AuditOf
  <2>3. \A s \in Stages : \/ audit'[r][s] = audit[r][s]
                          \/ s = stage[r] /\ audit'[r][s] # "success"
    BY <1>4, <1>a DEF Insert, StageFails, Log, TypeOK
  <2>4. audit[r][stage[r]] # "success"
    BY <1>b, <2>1 DEF Progress, Earlier, Stages
  <2>5. QED
    BY <1>b, <2>1, <2>2, <2>3, <2>4 DEF Progress, Stages
<1>5. ASSUME NEW r \in Runs, Preprocess(r)
      PROVE  Progress(r)'
  <2>1. pc'[r] = "success" /\ pc[r] = "work" /\ UNCHANGED <<stage, audit>>
    BY <1>5, <1>a DEF Preprocess, Go, TypeOK
  <2>2. view'[r].text
    BY <1>5, <1>a DEF Preprocess, Save, TypeOK, Row
  <2>3. QED
    BY <1>b, <2>1, <2>2 DEF Progress
<1>6. ASSUME NEW r \in Runs, Answer(r) \/ Validate(r) \/ Retry(r) \/ BodyRaises(r)
      PROVE  Progress(r)'
  <2>1. pc'[r] \in {"work", "success", "failure"} /\ pc[r] = "work"
        /\ UNCHANGED <<stage, audit, view>>
    BY <1>6, <1>a DEF Answer, Validate, Retry, BodyRaises, Go, TypeOK
  <2>2. pc'[r] = "success" => stage[r] # "preprocess"
    BY <1>6, <1>a DEF Answer, Validate, Retry, BodyRaises, LLMStages, Go, TypeOK
  <2>3. QED
    BY <1>b, <2>1, <2>2 DEF Progress
<1>7. ASSUME NEW r \in Runs, StageSucceeds(r)
      PROVE  Progress(r)'
  <2>1. pc[r] = "success" /\ view' = view /\ pc'[r] = AfterStage(r).pc
        /\ stage'[r] = AfterStage(r).stage
    BY <1>7, <1>a DEF StageSucceeds, Go, TypeOK
  <2>2. \A s \in Stages : audit'[r][s] = IF s = stage[r] THEN "success" ELSE audit[r][s]
    BY <1>7, <1>a DEF StageSucceeds, Log, TypeOK
  <2>3. /\ pc'[r] \in {"announce", "insert", "set_type", "finish"}
        /\ pc'[r] = "finish" => stage[r] = "validate"
        /\ stage'[r] = "validate" => stage[r] \in {"extract", "validate"}
        /\ stage[r] \in Earlier[stage'[r]] \/ (stage[r] = stage'[r]
             /\ pc'[r] \in {"set_type", "finish"})
        /\ Earlier[stage[r]] \subseteq Earlier[stage'[r]]
    BY <1>b, <2>1 DEF AfterStage, Earlier
  <2>4. QED
    BY <1>b, <2>1, <2>2, <2>3 DEF Progress, Stages
<1>8. ASSUME NEW r \in Runs, SetType(r) \/ Finish(r)
      PROVE  Progress(r)'
  <2>1. UNCHANGED audit /\ pc[r] \in {"set_type", "finish"}
    BY <1>8 DEF SetType, Finish
  <2>2. \/ pc'[r] = "announce" /\ stage[r] = "classify" /\ stage'[r] = "extract"
        \/ pc'[r] = "returning" /\ stage'[r] = stage[r] /\ stage[r] = "validate"
    <3>1. stage[r] = IF pc[r] = "set_type" THEN "classify" ELSE "validate"
      BY <1>b, <2>1 DEF Located
    <3>2. CASE SetType(r)
      BY <1>a, <3>1, <3>2 DEF SetType, Go, TypeOK
    <3>3. CASE Finish(r)
      BY <1>a, <3>1, <3>3 DEF Finish, Go, TypeOK
    <3>4. QED
      BY <1>8, <3>2, <3>3
  <2>3. QED
    BY <1>b, <2>1, <2>2 DEF Progress, Earlier
<1>9. ASSUME NEW r \in Runs, Handle(r) \/ Return(r) \/ Interrupt(r)
      PROVE  Progress(r)'
  <2>1. UNCHANGED <<audit, stage>> /\ pc[r] \notin {"idle", "returned", "raised", "cut"}
    BY <1>9 DEF Handle, Return, Interrupt, Live, Ended
  <2>2. pc'[r] \in {"raised", "returning", "returned", "cut"}
        /\ (pc'[r] = "returned" => pc[r] = "returning")
        /\ (pc'[r] = "returning" => pc[r] = "handle")
    BY <1>9, <1>a DEF Handle, Return, Interrupt, Go, TypeOK
  <2>3. pc'[r] = "raised" => pc[r] = "handle"
    BY <1>9, <1>a DEF Handle, Return, Interrupt, Go, TypeOK
  <2>4. QED
    BY <1>b, <2>1, <2>2, <2>3 DEF Progress
<1>10. ASSUME NEW r \in Runs, (\E d \in Docs : Start(r, d)) \/ Step(r) \/ Interrupt(r)
       PROVE  ProgressInv'
  <2>1. Progress(r)'
    BY <1>1, <1>2, <1>3, <1>4, <1>5, <1>6, <1>7, <1>8, <1>9, <1>10 DEF Step
  <2>2. \A q \in Runs \ {r} : Progress(q)'
    BY <1>10, <1>a, <1>b, StepIsLocal DEF Progress
  <2>3. QED
    BY <1>a, <2>1, <2>2 DEF ProgressInv
<1>11. CASE UNCHANGED vars
  BY <1>11, <1>a, <1>b DEF vars, ProgressInv, Progress
<1>12. QED
  BY <1>10, <1>11 DEF Next

\* What the audit rows of r must show before r writes a status.
BackedBy(r, status) ==
  /\ status \in {"extracting", "validating"} \cup Settled =>
       view[r].text /\ audit[r]["preprocess"] = "success"
  /\ status \in {"validating", "ready"} => audit[r]["extract"] = "success"
  /\ status = "ready" => audit[r]["validate"] = "success"

\* Every step that changes a committed status is a step of a run on that
\* document, whose audit rows back the new status.
LEMMA StatusIsBacked ==
  ASSUME ProgressInv, [Next]_vars, NEW d \in Docs, doc'[d].status # doc[d].status
  PROVE  \E r \in Runs : /\ target[r] = d /\ pc[r] # "idle"
                         /\ BackedBy(r, doc'[d].status) /\ audit' = audit
<1>a. TypeOK
  BY DEF ProgressInv, AuditInv, LocatedInv
<1>b. ASSUME NEW r \in Runs, NEW new, Save(r, new)
      PROVE  target[r] = d /\ doc'[d].status = new.status /\ new.status # view[r].status
  BY <1>a, <1>b DEF Save, Flush, Column, TypeOK
<1>c. ASSUME NEW r \in Runs
      PROVE  Progress(r) /\ Located(r) /\ AuditOf(r)
             /\ stage[r] \in {"preprocess", "classify", "extract", "validate"}
             /\ view[r] \in Row
  BY <1>a DEF ProgressInv, AuditInv, LocatedInv, TypeOK, Stages
<1>1. ASSUME NEW r \in Runs, Announce(r)
      PROVE  target[r] = d /\ pc[r] # "idle" /\ BackedBy(r, doc'[d].status) /\ audit' = audit
  <2> DEFINE new == [view[r] EXCEPT !.status = StatusOf[stage[r]]]
  <2>1. Save(r, new) /\ pc[r] = "announce" /\ audit' = audit
    BY <1>1 DEF Announce
  <2>2. new.status = StatusOf[stage[r]]
    BY <1>c DEF Row
  <2>3. stage[r] \in {"preprocess", "extract", "validate"}
    BY <1>c, <2>1 DEF Located
  <2>4. BackedBy(r, StatusOf[stage[r]])
    BY <1>c, <2>3 DEF BackedBy, Progress, StatusOf, Settled
  <2> HIDE DEF new
  <2>5. QED
    BY <1>b, <2>1, <2>2, <2>4
<1>2. ASSUME NEW r \in Runs, Preprocess(r) \/ SetType(r)
      PROVE  FALSE
  <2>1. PICK new \in Row : Save(r, new) /\ new.status = view[r].status
    <3>1. [view[r] EXCEPT !.text = TRUE] \in Row
          /\ \A t \in DocumentType : [view[r] EXCEPT !.docType = t] \in Row
      BY <1>c DEF Row
    <3>2. QED
      BY <1>2, <1>c, <3>1 DEF Preprocess, SetType, Row
  <2>2. QED
    BY <1>b, <2>1
<1>3. ASSUME NEW r \in Runs, Finish(r)
      PROVE  target[r] = d /\ pc[r] # "idle" /\ BackedBy(r, doc'[d].status) /\ audit' = audit
  <2>1. PICK p \in Payloads :
          Save(r, [view[r] EXCEPT !.data = [schema |-> view[r].docType, payload |-> p],
                                  !.status = "ready", !.completed = TRUE])
    BY <1>3 DEF Finish
  <2> DEFINE new == [view[r] EXCEPT !.data = [schema |-> view[r].docType, payload |-> p],
                                    !.status = "ready", !.completed = TRUE]
  <2>2. new.status = "ready"
    BY <1>c DEF Row
  <2>3. pc[r] = "finish" /\ stage[r] = "validate" /\ audit' = audit
    BY <1>3, <1>c DEF Finish, Located
  <2>4. BackedBy(r, "ready")
    BY <1>c, <2>3 DEF BackedBy, Progress
  <2> HIDE DEF new
  <2>5. QED
    BY <1>b, <2>1, <2>2, <2>3, <2>4 DEF new
<1>4. ASSUME NEW r \in Runs, Handle(r)
      PROVE  target[r] = d /\ pc[r] # "idle" /\ BackedBy(r, doc'[d].status) /\ audit' = audit
  <2> DEFINE new == [view[r] EXCEPT !.status = "failed", !.error = TRUE,
                                    !.completed = TRUE]
  <2>1. Save(r, new) /\ session'[r] # "expired" /\ pc[r] = "handle" /\ audit' = audit
    BY <1>4 DEF Handle
  <2>2. new.status = "failed"
    BY <1>c DEF Row
  <2>3. stage[r] = "extract"
    <3>1. session[r] = "clean"
      BY <1>4, <1>a, <1>c, <2>1 DEF Handle, Rollback, TypeOK, AuditOf
    <3>2. QED
      BY <1>c, <2>1, <3>1 DEF Progress
  <2>4. BackedBy(r, "failed")
    BY <1>c, <2>3 DEF BackedBy, Progress
  <2> HIDE DEF new
  <2>5. QED
    BY <1>b, <2>1, <2>2, <2>4
<1>5. ASSUME NEW r \in Runs,
             \/ \E e \in Docs : Start(r, e)
             \/ Load(r) \/ Insert(r) \/ Answer(r) \/ Validate(r) \/ Retry(r) \/ BodyRaises(r)
             \/ StageSucceeds(r) \/ StageFails(r) \/ Return(r) \/ Interrupt(r)
      PROVE  FALSE
  BY <1>5 DEF Start, Load, Insert, Answer, Validate, Retry, BodyRaises,
              StageSucceeds, StageFails, Return, Interrupt
<1>6. CASE UNCHANGED vars
  BY <1>6 DEF vars
<1>7. QED
  BY <1>1, <1>2, <1>3, <1>4, <1>5, <1>6 DEF Next, Step

\* A stage that has succeeded stays so, and its run stays on its document.
LEMMA PassedStays ==
  ASSUME ProgressInv, [Next]_vars, NEW d \in Docs, NEW s \in Stages, Passed(d, s)
  PROVE  Passed(d, s)'
<1>1. PICK r \in Runs : target[r] = d /\ audit[r][s] = "success"
  BY DEF Passed, RunsOn
<1>a. /\ TypeOK /\ Progress(r) /\ Located(r) /\ AuditOf(r)
      /\ stage[r] \in {"preprocess", "classify", "extract", "validate"}
  BY DEF ProgressInv, AuditInv, LocatedInv, TypeOK, Stages
<1>2. pc[r] # "idle"
  BY <1>1, <1>a DEF Progress, Located, Earlier
<1>3. target'[r] = d
  BY <1>1, <1>2, RunsStartOnce DEF ProgressInv, AuditInv
<1>4. pc[r] \in {"insert", "success", "failure"} => s # stage[r]
  BY <1>1, <1>a DEF Progress, Earlier
<1>5. ASSUME NEW q \in Runs, Insert(q) \/ StageSucceeds(q) \/ StageFails(q)
      PROVE  audit'[r][s] = "success"
  <2>1. PICK outcome : Log(q, outcome)
    BY <1>5 DEF Insert, StageSucceeds, StageFails
  <2>2. pc[q] \in {"insert", "success", "failure"}
    BY <1>5 DEF Insert, StageSucceeds, StageFails
  <2>3. QED
    BY <1>1, <1>a, <1>4, <2>1, <2>2 DEF Log, TypeOK
<1>6. ASSUME NEW q \in Runs,
             \/ \E e \in Docs : Start(q, e)
             \/ Load(q) \/ Announce(q) \/ Preprocess(q) \/ Answer(q) \/ Validate(q)
             \/ Retry(q) \/ BodyRaises(q) \/ SetType(q) \/ Finish(q) \/ Handle(q)
             \/ Return(q) \/ Interrupt(q)
      PROVE  audit' = audit
  BY <1>6 DEF Start, Load, Announce, Preprocess, Answer, Validate, Retry, BodyRaises,
              SetType, Finish, Handle, Return, Interrupt
<1>7. audit'[r][s] = "success"
  BY <1>1, <1>5, <1>6 DEF Next, Step, vars
<1>8. QED
  BY <1>3, <1>7 DEF Passed, RunsOn

Backed(d) ==
  /\ doc[d].status \in {"extracting", "validating"} \cup Settled =>
       doc[d].text /\ Passed(d, "preprocess")
  /\ doc[d].status \in {"validating", "ready"} => Passed(d, "extract")
  /\ doc[d].status = "ready" => Passed(d, "validate")

StatusInv == ProgressInv /\ RowsInv /\ \A d \in Docs : Backed(d)

LEMMA InitStatus == Init => StatusInv
BY InitProgress, InitRows DEF Init, StatusInv, Backed, Uploaded, Settled

LEMMA NextStatus == StatusInv /\ [Next]_vars => StatusInv'
<1> SUFFICES ASSUME StatusInv, [Next]_vars PROVE StatusInv'
  OBVIOUS
<1>1. ProgressInv /\ RowsInv /\ ProgressInv' /\ RowsInv'
  BY NextProgress, NextRows DEF StatusInv
<1>2. {"preprocess", "extract", "validate"} \subseteq Stages
  BY DEF Stages
<1>3. ASSUME NEW d \in Docs
      PROVE  Backed(d)'
  <2>1. CASE doc'[d].status = doc[d].status
    <3>1. Backed(d) /\ (doc[d].text => doc'[d].text)
      BY <1>1, RowsGrow DEF StatusInv, Grows
    <3>2. \A s \in Stages : Passed(d, s) => Passed(d, s)'
      BY <1>1, PassedStays
    <3>3. QED
      BY <1>2, <2>1, <3>1, <3>2 DEF Backed
  <2>2. CASE doc'[d].status # doc[d].status
    <3>1. PICK r \in Runs : /\ target[r] = d /\ pc[r] # "idle"
                            /\ BackedBy(r, doc'[d].status) /\ audit' = audit
      BY <1>1, <2>2, StatusIsBacked
    <3>2. target'[r] = d
      BY <1>1, <3>1, RunsStartOnce DEF RowsInv
    <3>3. \A s : audit[r][s] = "success" => Passed(d, s)'
      BY <3>1, <3>2 DEF Passed, RunsOn
    <3>4. view[r].text => doc'[d].text
      BY <1>1, <3>1, RowsGrow DEF RowsInv, CopyInv, Grows
    <3>5. QED
      BY <3>1, <3>3, <3>4 DEF Backed, BackedBy
  <2>3. QED
    BY <2>1, <2>2
<1>4. QED
  BY <1>1, <1>3 DEF StatusInv

\* The committed status of a document never claims more than the audit trail of
\* the runs on it shows.
THEOREM StatusBacked == Spec => []StatusBackedByAudit
<1>1. StatusInv => StatusBackedByAudit
  BY DEF StatusInv, Backed, StatusBackedByAudit
<1>2. QED
  BY <1>1, InitStatus, NextStatus, PTL DEF Spec

-----------------------------------------------------------------------------
(* Sessions are current *)

\* Two live runs on a document put it in raced.
RaceInv ==
  /\ LocatedInv
  /\ \A r, q \in Runs :
       r # q /\ Live(r) /\ Live(q) /\ target[r] = target[q] => target[r] \in raced

\* A run is live after a step only if it was before or has just started.
LEMMA LiveBefore ==
  ASSUME LocatedInv, [Next]_vars, NEW q \in Runs, Live(q)'
  PROVE  Live(q) \/ (pc[q] = "idle" /\ pc'[q] = "load")
<1> USE DEF LocatedInv
<1>1. ASSUME NEW r \in Runs, NEW d \in Docs, Start(r, d)
      PROVE  Live(q) \/ (pc[q] = "idle" /\ pc'[q] = "load")
  BY <1>1 DEF Start, Go, TypeOK, Live
<1>2. ASSUME NEW r \in Runs, Step(r) \/ Interrupt(r)
      PROVE  Live(q)
  <2>1. Live(r)
    BY <1>2 DEF Step, Load, Announce, Insert, Preprocess, Answer, Validate, Retry,
       BodyRaises, StageSucceeds, StageFails, SetType, Finish, Handle, Return,
       Interrupt, Live, Ended
  <2>2. q # r => pc'[q] = pc[q]
    BY <1>2, StepIsLocal
  <2>3. QED
    BY <2>1, <2>2 DEF Live
<1>3. CASE UNCHANGED vars
  BY <1>3 DEF vars, Live
<1>4. QED
  BY <1>1, <1>2, <1>3 DEF Next

\* A run that leaves "load" alive has read its row.
LEMMA LeavesLoad ==
  ASSUME LocatedInv, [Next]_vars, NEW q \in Runs,
         pc[q] = "load", Live(q)', pc'[q] # "load"
  PROVE  Load(q)
<1> USE DEF LocatedInv
<1>1. PICK r \in Runs : (\E d \in Docs : Start(r, d)) \/ Step(r) \/ Interrupt(r)
  BY DEF Next, vars
<1>2. r = q
  BY <1>1, StepIsLocal
<1>3. CASE Load(q) \/ Interrupt(q)
  BY <1>3 DEF Interrupt, Go, TypeOK, Live, Ended
<1>4. QED
  BY <1>1, <1>2, <1>3 DEF Start, Step, Announce, Insert, Preprocess, Answer, Validate,
     Retry, BodyRaises, StageSucceeds, StageFails, SetType, Finish, Handle, Return

LEMMA InitRace == Init => RaceInv
BY InitLocated DEF Init, RaceInv, Live

LEMMA NextRace == RaceInv /\ [Next]_vars => RaceInv' /\ raced \subseteq raced'
<1> SUFFICES ASSUME RaceInv, [Next]_vars
             PROVE  RaceInv' /\ raced \subseteq raced'
  OBVIOUS
<1>a. LocatedInv /\ LocatedInv' /\ TypeOK
  BY NextLocated DEF RaceInv, LocatedInv
<1>1. ASSUME NEW r \in Runs, NEW d \in Docs, Start(r, d)
      PROVE  RaceInv' /\ raced \subseteq raced'
  <2>1. raced \subseteq raced' /\ pc[r] = "idle"
    BY <1>1 DEF Start
  <2>2. \A q \in Runs : /\ q # r => pc'[q] = pc[q] /\ target'[q] = target[q]
                        /\ target'[r] = d
    BY <1>1, <1>a DEF Start, Go, TypeOK
  <2>3. \A q \in Runs \ {r} : Live(q) /\ target[q] = d => d \in raced'
    BY <1>1 DEF Start, RunsOn
  <2>4. ASSUME NEW p \in Runs, NEW q \in Runs, p # q, Live(p)', Live(q)',
               target'[p] = target'[q]
        PROVE  target'[p] \in raced'
    <3>1. CASE p # r /\ q # r
      BY <2>1, <2>2, <2>4, <3>1 DEF RaceInv, Live
    <3>2. CASE p = r \/ q = r
      BY <2>2, <2>3, <2>4, <3>2 DEF Live
    <3>3. QED
      BY <3>1, <3>2
  <2>5. QED
    BY <1>a, <2>1, <2>4 DEF RaceInv
<1>2. ASSUME UNCHANGED <<target, raced>>, \A q \in Runs : Live(q)' => Live(q)
      PROVE  RaceInv' /\ raced \subseteq raced'
  BY <1>2, <1>a DEF RaceInv
<1>3. ASSUME NEW r \in Runs, Step(r) \/ Interrupt(r)
      PROVE  UNCHANGED <<target, raced>> /\ \A q \in Runs : Live(q)' => Live(q)
  <2>1. UNCHANGED <<target, raced>>
    BY <1>3 DEF Step, Load, Announce, Insert, Preprocess, Answer, Validate, Retry,
       BodyRaises, StageSucceeds, StageFails, SetType, Finish, Handle, Return, Interrupt
  <2>2. Live(r)
    BY <1>3 DEF Step, Load, Announce, Insert, Preprocess, Answer, Validate, Retry,
       BodyRaises, StageSucceeds, StageFails, SetType, Finish, Handle, Return,
       Interrupt, Live, Ended
  <2>3. \A q \in Runs : q # r => pc'[q] = pc[q]
    BY <1>3, <1>a, StepIsLocal
  <2>4. QED
    BY <2>1, <2>2, <2>3 DEF Live
<1>4. CASE UNCHANGED vars
  BY <1>2, <1>4 DEF vars, Live
<1>5. QED
  BY <1>1, <1>2, <1>3, <1>4 DEF Next

CurrentInv == RaceInv /\ RowsInv /\ SessionsAreCurrent

LEMMA InitCurrent == Init => CurrentInv
BY InitRace, InitRows DEF Init, CurrentInv, SessionsAreCurrent, Live

LEMMA NextCurrent == CurrentInv /\ [Next]_vars => CurrentInv'
<1> SUFFICES ASSUME CurrentInv, [Next]_vars PROVE CurrentInv'
  OBVIOUS
<1>a. /\ RaceInv /\ RaceInv' /\ RowsInv /\ RowsInv' /\ LocatedInv
      /\ raced \subseteq raced'
  BY NextRace, NextRows DEF CurrentInv, RowsInv
<1>b. doc \in [Docs -> Row] /\ view \in [Runs -> Row]
  BY <1>a DEF LocatedInv, TypeOK
<1>1. ASSUME NEW q \in Runs, Live(q)', pc'[q] # "load", target'[q] \notin raced'
      PROVE  view'[q] = doc'[target'[q]]
  <2>1. Live(q) /\ target'[q] = target[q] /\ target[q] \in Docs
    BY <1>a, <1>1, LiveBefore, RunsStartOnce DEF LocatedInv, Located, Live
  <2>2. pc[q] # "load" => view[q] = doc[target[q]]
    BY <1>1, <1>a, <2>1 DEF CurrentInv, SessionsAreCurrent
  <2>3. pc[q] = "load" => Reads(q)
    BY <1>1, <1>a, LeavesLoad DEF Load, Reads
  <2>4. CASE UNCHANGED <<doc, view>>
    <3>1. CASE pc[q] # "load"
      BY <2>1, <2>2, <2>4, <3>1
    <3>2. CASE pc[q] = "load"
      BY <2>1, <2>4, <2>3, <3>2, <1>b DEF Reads
    <3>3. QED
      BY <3>1, <3>2
  <2>5. ASSUME NEW r \in Runs, target[r] \in Docs, Live(r), Reads(r)
        PROVE  view'[q] = doc'[target'[q]]
    BY <1>b, <2>1, <2>2, <2>5, <2>3 DEF Reads
  <2>6. ASSUME NEW r \in Runs, target[r] \in Docs, Live(r), UNCHANGED <<target, raced>>,
               NEW new \in Row, Commits(r, new)
        PROVE  view'[q] = doc'[target'[q]]
    <3>1. CASE r = q
      <4>1. view[q] = doc[target[q]] /\ new \in Row /\ Save(q, new)
        BY <2>2, <2>6, <3>1 DEF Commits
      <4>2. Flush(doc[target[q]], view[q], new) = new
        BY <1>b, <2>1, <4>1, FlushCurrent
      <4>3. QED
        BY <1>b, <2>1, <4>1, <4>2 DEF Save
    <3>2. CASE r # q
      <4>1. target[r] # target[q]
        BY <1>1, <1>a, <2>1, <2>6, <3>2 DEF RaceInv
      <4>2. doc'[target[q]] = doc[target[q]] /\ view'[q] = view[q]
        BY <1>b, <2>1, <2>6, <3>2, <4>1 DEF Commits, Save
      <4>3. CASE pc[q] # "load"
        BY <2>1, <2>2, <4>2, <4>3
      <4>4. CASE pc[q] = "load"
        BY <1>b, <2>1, <2>3, <4>2, <4>4 DEF Reads
      <4>5. QED
        BY <4>3, <4>4
    <3>3. QED
      BY <3>1, <3>2
  <2>7. QED
    BY <1>a, <2>4, <2>5, <2>6, StepChangesRows DEF RowChange
<1>2. QED
  BY <1>1, <1>a DEF CurrentInv, SessionsAreCurrent

\* As long as a document never had two runs at once, a run that has read the row
\* holds the committed row.
THEOREM SessionsCurrent == Spec => []SessionsAreCurrent
<1>1. CurrentInv => SessionsAreCurrent
  BY DEF CurrentInv
<1>2. QED
  BY <1>1, InitCurrent, NextCurrent, PTL DEF Spec

-----------------------------------------------------------------------------
(* The status of the copy *)

\* The status that the copy of a run has from its first commit to its last.
Expected(r) ==
  CASE stage[r] \in {"preprocess", "classify"} -> "preprocessing"
    [] stage[r] = "extract" -> IF pc[r] = "announce" THEN "preprocessing" ELSE "extracting"
    [] stage[r] = "validate" -> IF pc[r] = "announce" THEN "extracting" ELSE "validating"

InStage(r) ==
  \/ pc[r] \in {"insert", "work", "success", "failure", "set_type", "finish", "handle"}
  \/ pc[r] = "announce" /\ stage[r] # "preprocess"

CopyStatus(r) ==
  /\ InStage(r) => view[r].status = Expected(r)
  /\ pc[r] \in {"returning", "returned"} => view[r].status \in Settled

CopyStatusInv == LocatedInv /\ \A r \in Runs : CopyStatus(r)

\* It is what process() assigned last.
LEMMA InitCopyStatus == Init => CopyStatusInv
BY InitLocated DEF Init, CopyStatusInv, CopyStatus, InStage

LEMMA NextCopyStatus == CopyStatusInv /\ [Next]_vars => CopyStatusInv'
<1> SUFFICES ASSUME CopyStatusInv, [Next]_vars PROVE CopyStatusInv'
  OBVIOUS
<1>a. TypeOK /\ LocatedInv'
  BY NextLocated DEF CopyStatusInv, LocatedInv
<1>b. ASSUME NEW r \in Runs
      PROVE  /\ CopyStatus(r) /\ Located(r) /\ view[r] \in Row
             /\ stage[r] \in {"preprocess", "classify", "extract", "validate"}
  BY <1>a DEF CopyStatusInv, LocatedInv, TypeOK, Stages
<1>c. ASSUME NEW r \in Runs, NEW new, Save(r, new)
      PROVE  view'[r] = new
  BY <1>c, <1>a DEF Save, TypeOK
<1>1. ASSUME NEW r \in Runs, (\E d \in Docs : Start(r, d)) \/ Load(r)
      PROVE  CopyStatus(r)'
  <2>1. pc'[r] = "load" \/ (pc'[r] = "announce" /\ stage'[r] = "preprocess")
    BY <1>1, <1>a, <1>b DEF Start, Load, Go, TypeOK, Located
  <2>2. QED
    BY <2>1 DEF CopyStatus, InStage
<1>2. ASSUME NEW r \in Runs, Announce(r)
      PROVE  CopyStatus(r)'
  <2>1. stage[r] \in {"preprocess", "extract", "validate"} /\ stage' = stage
        /\ pc'[r] \in {"handle", "insert"}
    BY <1>2, <1>a, <1>b DEF Announce, Go, TypeOK, Located
  <2>2. view'[r].status = StatusOf[stage[r]]
    BY <1>2, <1>a, <1>b DEF Announce, Save, TypeOK, Row
  <2>3. QED
    BY <2>1, <2>2 DEF CopyStatus, InStage, Expected, StatusOf
<1>3. ASSUME NEW r \in Runs,
             \/ Insert(r) \/ Answer(r) \/ Validate(r) \/ Retry(r) \/ BodyRaises(r)
             \/ StageFails(r)
      PROVE  CopyStatus(r)'
  <2>1. /\ UNCHANGED <<view, stage>> /\ pc[r] \in {"insert", "work", "failure"}
        /\ pc'[r] \in {"work", "success", "failure", "handle"}
    BY <1>3, <1>a DEF Insert, Answer, Validate, Retry, BodyRaises, StageFails, Go, TypeOK
  <2>2. QED
    BY <1>b, <2>1 DEF CopyStatus, InStage, Expected
<1>4. ASSUME NEW r \in Runs, Preprocess(r) \/ SetType(r)
      PROVE  CopyStatus(r)'
  <2>1. view'[r].status = view[r].status
    <3>1. CASE Preprocess(r)
      <4>1. Save(r, [view[r] EXCEPT !.text = TRUE])
        BY <3>1 DEF Preprocess
      <4>2. view'[r] = [view[r] EXCEPT !.text = TRUE]
        BY <4>1, <1>c
      <4>3. QED
        BY <4>2, <1>b DEF Row
    <3>2. CASE SetType(r)
      <4>1. PICK t : Save(r, [view[r] EXCEPT !.docType = t])
        BY <3>2 DEF SetType
      <4>2. view'[r] = [view[r] EXCEPT !.docType = t]
        BY <4>1, <1>c
      <4>3. QED
        BY <4>2, <1>b DEF Row
    <3>3. QED
      BY <1>4, <3>1, <3>2
  <2>2. \/ pc[r] = "work" /\ pc'[r] = "success" /\ stage' = stage
        \/ pc[r] = "set_type" /\ pc'[r] = "announce" /\ stage[r] = "classify"
             /\ stage'[r] = "extract"
    BY <1>4, <1>a, <1>b DEF Preprocess, SetType, Go, TypeOK, Located
  <2>3. QED
    BY <1>b, <2>1, <2>2 DEF CopyStatus, InStage, Expected
<1>5. ASSUME NEW r \in Runs, StageSucceeds(r)
      PROVE  CopyStatus(r)'
  <2>1. pc[r] = "success" /\ view' = view /\ pc'[r] = AfterStage(r).pc
        /\ stage'[r] = AfterStage(r).stage
    BY <1>5, <1>a DEF StageSucceeds, Go, TypeOK
  <2>2. QED
    BY <1>b, <2>1 DEF AfterStage, CopyStatus, InStage, Expected
<1>6. ASSUME NEW r \in Runs, Finish(r)
      PROVE  CopyStatus(r)'
  <2>1. view'[r].status = "ready" /\ pc'[r] = "returning"
    BY <1>6, <1>a, <1>b DEF Finish, Save, Go, TypeOK, Row
  <2>2. QED
    BY <2>1 DEF CopyStatus, InStage, Settled
<1>7. ASSUME NEW r \in Runs, Handle(r)
      PROVE  CopyStatus(r)'
  <2> DEFINE new == [view[r] EXCEPT !.status = "failed", !.error = TRUE,
                                    !.completed = TRUE]
  <2>1. Go(r, "raised") \/ (Save(r, new) /\ Go(r, "returning"))
    BY <1>7 DEF Handle
  <2>2. new.status = "failed"
    BY <1>b DEF Row
  <2> HIDE DEF new
  <2>3. pc'[r] = "raised" \/ (pc'[r] = "returning" /\ view'[r].status = "failed")
    BY <2>1, <2>2, <1>a, <1>c DEF Go, TypeOK
  <2>4. QED
    BY <2>3 DEF CopyStatus, InStage, Settled
<1>8. ASSUME NEW r \in Runs, Return(r) \/ Interrupt(r)
      PROVE  CopyStatus(r)'
  BY <1>8, <1>a, <1>b DEF Return, Interrupt, Go, TypeOK, CopyStatus, InStage
<1>9. ASSUME NEW r \in Runs, (\E d \in Docs : Start(r, d)) \/ Step(r) \/ Interrupt(r)
      PROVE  CopyStatusInv'
  <2>1. CopyStatus(r)'
    BY <1>1, <1>2, <1>3, <1>4, <1>5, <1>6, <1>7, <1>8, <1>9 DEF Step
  <2>2. \A q \in Runs \ {r} : CopyStatus(q)'
    BY <1>9, <1>a, <1>b, StepIsLocal DEF CopyStatus, InStage, Expected
  <2>3. QED
    BY <1>a, <2>1, <2>2 DEF CopyStatusInv
<1>10. CASE UNCHANGED vars
  BY <1>10, <1>a, <1>b DEF vars, CopyStatusInv, CopyStatus, InStage, Expected
<1>11. QED
  BY <1>9, <1>10 DEF Next

-----------------------------------------------------------------------------
(* Documents that never had two runs at once *)

QuietInv == CurrentInv /\ CopyStatusInv /\ StatusInv

LEMMA InitQuiet == Init => QuietInv
BY InitCurrent, InitCopyStatus, InitStatus DEF QuietInv

LEMMA NextQuiet == QuietInv /\ [Next]_vars => QuietInv'
BY NextCurrent, NextCopyStatus, NextStatus DEF QuietInv

\* What a step does to the row of such a document: it commits the text, the type
\* of a document in preprocessing, the next status, the failure of a document in
\* extracting, or the data of one in validating.
RowStep(old, new) ==
  \/ new.status = old.status /\ new.docType = old.docType /\ new.data = old.data
  \/ new.status = old.status /\ old.status = "preprocessing"
  \/ new.status \in InProgress /\ (old.status = new.status \/ new.status \in Successors(old.status))
  \/ new.status = "failed" /\ old.status = "extracting"
  \/ new.status = "ready" /\ old.status = "validating" /\ new.data.schema = new.docType

LEMMA QuietStep ==
  ASSUME QuietInv, [Next]_vars, NEW d \in Docs, d \notin raced'
  PROVE  RowStep(doc[d], doc'[d])
<1>a. TypeOK /\ LocatedInv /\ d \notin raced
  BY NextRace DEF QuietInv, CurrentInv, RaceInv, LocatedInv
<1>b. ASSUME NEW r \in Runs
      PROVE  /\ CopyStatus(r) /\ Located(r) /\ Progress(r) /\ AuditOf(r) /\ view[r] \in Row
             /\ stage[r] \in {"preprocess", "classify", "extract", "validate"}
  BY <1>a DEF QuietInv, CopyStatusInv, StatusInv, ProgressInv, AuditInv, LocatedInv,
              TypeOK, Stages
<1>c. RowStep(doc[d], doc[d])
  BY DEF RowStep
<1>d. ASSUME NEW r \in Runs, NEW new \in Row, Save(r, new), Live(r), pc[r] # "load",
             RowStep(view[r], new)
      PROVE  RowStep(doc[d], doc'[d])
  <2>1. CASE target[r] # d
    BY <1>a, <1>c, <1>d, <2>1 DEF Save, TypeOK
  <2>2. CASE target[r] = d
    <3>1. view[r] = doc[d]
      BY <1>a, <1>d, <2>2 DEF QuietInv, CurrentInv, SessionsAreCurrent
    <3>2. doc'[d] = Flush(doc[d], view[r], new)
      BY <1>a, <1>d, <2>2 DEF Save, TypeOK
    <3>3. doc'[d] = new
      BY <1>b, <1>d, <3>1, <3>2, FlushCurrent
    <3>4. QED
      BY <1>d, <3>1, <3>3
  <2>3. QED
    BY <2>1, <2>2
<1>1. ASSUME NEW r \in Runs, Announce(r)
      PROVE  RowStep(doc[d], doc'[d])
  <2> DEFINE new == [view[r] EXCEPT !.status = StatusOf[stage[r]]]
  <2>1. /\ Save(r, new) /\ pc[r] = "announce" /\ Live(r)
        /\ stage[r] \in {"preprocess", "extract", "validate"}
    BY <1>1, <1>b DEF Announce, Located, Live, Ended
  <2>2. StatusOf[stage[r]] \in InProgress
    BY <2>1 DEF StatusOf, InProgress
  <2>3. new \in Row /\ new.status = StatusOf[stage[r]]
    BY <1>b, <2>2 DEF Row, DocumentStatus
  <2>4. \/ StatusOf[stage[r]] = view[r].status
        \/ StatusOf[stage[r]] \in Successors(view[r].status)
    BY <1>b, <2>1 DEF CopyStatus, InStage, Expected, StatusOf, Successors
  <2> HIDE DEF new
  <2>5. RowStep(view[r], new)
    BY <2>2, <2>3, <2>4 DEF RowStep
  <2>6. QED
    BY <1>d, <2>1, <2>3, <2>5
<1>2. ASSUME NEW r \in Runs, Preprocess(r)
      PROVE  RowStep(doc[d], doc'[d])
  <2> DEFINE new == [view[r] EXCEPT !.text = TRUE]
  <2>1. Save(r, new) /\ pc[r] = "work" /\ Live(r)
    BY <1>2 DEF Preprocess, Live, Ended
  <2>2. new \in Row /\ RowStep(view[r], new)
    BY <1>b DEF Row, RowStep
  <2> HIDE DEF new
  <2>3. QED
    BY <1>d, <2>1, <2>2
<1>3. ASSUME NEW r \in Runs, SetType(r)
      PROVE  RowStep(doc[d], doc'[d])
  <2>1. PICK t \in DocumentType : Save(r, [view[r] EXCEPT !.docType = t])
    BY <1>3 DEF SetType
  <2> DEFINE new == [view[r] EXCEPT !.docType = t]
  <2>2. pc[r] = "set_type" /\ stage[r] = "classify" /\ Live(r)
    BY <1>3, <1>b DEF SetType, Located, Live, Ended
  <2>3. view[r].status = "preprocessing"
    BY <1>b, <2>2 DEF CopyStatus, InStage, Expected
  <2>4. new \in Row /\ new.status = view[r].status
    BY <1>b DEF Row
  <2> HIDE DEF new
  <2>5. RowStep(view[r], new)
    BY <2>3, <2>4 DEF RowStep
  <2>6. QED
    BY <1>d, <2>1, <2>2, <2>4, <2>5 DEF new
<1>4. ASSUME NEW r \in Runs, Finish(r)
      PROVE  RowStep(doc[d], doc'[d])
  <2> DEFINE dat(p) == [schema |-> view[r].docType, payload |-> p]
             new(p) == [view[r] EXCEPT !.data = dat(p), !.status = "ready",
                                       !.completed = TRUE]
  <2>1. PICK p \in Payloads : Save(r, new(p))
    BY <1>4 DEF Finish
  <2>2. /\ pc[r] = "finish" /\ stage[r] = "validate" /\ Live(r)
        /\ view[r].docType \in Registered
    BY <1>4, <1>b DEF Finish, Located, Live, Ended
  <2>3. dat(p) \in Data /\ dat(p).schema = view[r].docType
    BY <2>2 DEF Data
  <2> HIDE DEF dat
  <2>4. /\ new(p) \in Row /\ new(p).status = "ready"
        /\ new(p).data = dat(p) /\ new(p).docType = view[r].docType
    BY <1>b, <2>3 DEF Row, DocumentStatus, Settled
  <2>5. view[r].status = "validating"
    BY <1>b, <2>2 DEF CopyStatus, InStage, Expected
  <2> HIDE DEF new
  <2>6. RowStep(view[r], new(p))
    BY <2>3, <2>4, <2>5 DEF RowStep
  <2>7. QED
    BY <1>d, <2>1, <2>2, <2>4, <2>6
<1>5. ASSUME NEW r \in Runs, Handle(r)
      PROVE  RowStep(doc[d], doc'[d])
  <2> DEFINE new == [view[r] EXCEPT !.status = "failed", !.error = TRUE,
                                    !.completed = TRUE]
  <2>1. new \in Row /\ new.status = "failed"
    BY <1>b DEF Row, DocumentStatus, Settled
  <2>2. CASE doc' = doc
    BY <1>c, <2>2
  <2>3. CASE doc' # doc
    <3>1. Save(r, new) /\ session'[r] # "expired" /\ pc[r] = "handle" /\ Live(r)
      BY <1>5, <2>3 DEF Handle, Live, Ended
    <3>2. session[r] = "clean"
      BY <1>5, <1>a, <1>b, <3>1 DEF Handle, Rollback, TypeOK, AuditOf
    <3>3. stage[r] = "extract"
      BY <1>b, <3>1, <3>2 DEF Progress
    <3>4. view[r].status = "extracting"
      BY <1>b, <3>1, <3>3 DEF CopyStatus, InStage, Expected
    <3> HIDE DEF new
    <3>5. RowStep(view[r], new)
      BY <2>1, <3>4 DEF RowStep
    <3>6. QED
      BY <1>d, <2>1, <3>1, <3>5
  <2>4. QED
    BY <2>2, <2>3
<1>6. ASSUME NEW r \in Runs,
             \/ \E e \in Docs : Start(r, e)
             \/ Load(r) \/ Insert(r) \/ Answer(r) \/ Validate(r) \/ Retry(r) \/ BodyRaises(r)
             \/ StageSucceeds(r) \/ StageFails(r) \/ Return(r) \/ Interrupt(r)
      PROVE  doc' = doc
  BY <1>6 DEF Start, Load, Insert, Answer, Validate, Retry, BodyRaises,
              StageSucceeds, StageFails, Return, Interrupt
<1>7. CASE UNCHANGED vars
  BY <1>7, <1>c DEF vars
<1>8. QED
  BY <1>1, <1>2, <1>3, <1>4, <1>5, <1>6, <1>7, <1>c DEF Next, Step

\* A READY document has data of its own type, if it never had two runs at once.
THEOREM DataMatches == Spec => []DataMatchesType
<1>1. Init => DataMatchesType
  BY DEF Init, Uploaded, DataMatchesType
<1>2. QuietInv /\ DataMatchesType /\ [Next]_vars => DataMatchesType'
  <2> SUFFICES ASSUME QuietInv, DataMatchesType, [Next]_vars,
                      NEW d \in Docs, d \notin raced', doc'[d].status = "ready"
               PROVE  doc'[d].data.schema = doc'[d].docType
    BY DEF DataMatchesType
  <2>1. RowStep(doc[d], doc'[d])
    BY QuietStep
  <2>2. d \notin raced
    BY NextRace DEF QuietInv, CurrentInv
  <2>3. doc[d].status = "ready" => doc[d].data.schema = doc[d].docType
    BY <2>2 DEF DataMatchesType
  <2>4. QED
    BY <2>1, <2>3 DEF RowStep, InProgress
<1>3. QED
  BY <1>1, <1>2, InitQuiet, NextQuiet, PTL DEF Spec

\* The committed status of a document that never had two runs at once moves only to
\* one that the code commits after the one before.
THEOREM StatusFollows == Spec => StatusFollowsLifecycle
<1> DEFINE Moves == \A d \in Docs \ raced' :
              doc'[d].status # doc[d].status => doc'[d].status \in Successors(doc[d].status)
<1>1. QuietInv /\ [Next]_vars => [Moves]_vars
  <2> SUFFICES ASSUME QuietInv, [Next]_vars, NEW d \in Docs, d \notin raced',
                      doc'[d].status # doc[d].status
               PROVE  doc'[d].status \in Successors(doc[d].status)
    OBVIOUS
  <2>1. RowStep(doc[d], doc'[d])
    BY QuietStep
  <2>2. QED
    BY <2>1 DEF RowStep, Successors
<1>2. Spec => [][Moves]_vars
  BY <1>1, InitQuiet, NextQuiet, PTL DEF Spec
<1>3. QED
  BY <1>2 DEF StatusFollowsLifecycle
=============================================================================
