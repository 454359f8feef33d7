-------------------------- MODULE ConnectionPool --------------------------
(***************************************************************************)
(* The pool of database connections behind app/db/session.py and those who *)
(* take from it: runs of process(), the run() of a batch, and requests.    *)
(* Each has one session.  A session takes a connection at its first        *)
(* statement and gives it back at commit, rollback or close; when none is  *)
(* free the statement waits, for a limited time.                           *)
(*                                                                         *)
(* A user's pc is the await it is at.  Rows and statuses are left out, and *)
(* so is what makes a stage fail; the modules about them leave out the     *)
(* pool.                                                                   *)
(***************************************************************************)
EXTENDS Naturals, FiniteSets

CONSTANTS Batches, Background, Requests,
          Documents,    \* the documents of every batch
          Cap,          \* batch_max_concurrency
          Capacity,     \* pool_size and max_overflow together
          MoreStages    \* stages that follow preprocess

Tasks == Batches \X Documents
Runs == Tasks \cup Background
Users == Runs \cup Batches \cup Requests

ASSUME UsersAreFinite == IsFiniteSet(Batches \cup Background \cup Requests \cup Documents)
ASSUME KindsAreDisjoint ==
  /\ Runs \cap Batches = {} /\ Runs \cap Requests = {} /\ Batches \cap Requests = {}
  /\ Tasks \cap Background = {}
ASSUME CapacityAssumption == Capacity \in Nat \ {0} /\ Cap \in Nat \ {0} /\ MoreStages \in Nat

VARIABLES pc,     \* the await each user is at
          left,   \* stages that each run has still to begin
          held,   \* users whose session has a connection
          used    \* connections that the pool counts as given out

vars == <<pc, left, held, used>>

RunPC == {"idle", "load", "set_type", "announce", "insert", "refresh", "work", "close",
          "refetch", "record", "finish", "recheck", "ended"}
BatchPC == {"idle", "load", "mark", "gather", "reload", "final", "ended", "broken"}
RequestPC == {"idle", "query", "respond", "ended"}

Live(u) == pc[u] \notin {"idle", "ended", "broken"}
TasksOf(b) == {t \in Tasks : t[1] = b}
Go(u, from, to) == pc[u] = from /\ pc' = [pc EXCEPT ![u] = to]

-----------------------------------------------------------------------------
(* The pool *)

Full == used >= Capacity
CanTake(u) == u \in held \/ ~Full

\* Variant: overflow without a limit.
TakeUnlimited(u) ==
  \/ u \in held /\ UNCHANGED <<held, used>>
  \/ u \notin held /\ held' = held \cup {u} /\ used' = used + 1

\* A statement: the session keeps the connection it has, or takes one.
Take(u) ==
  \/ u \in held /\ UNCHANGED <<held, used>>
  \/ u \notin held /\ ~Full /\ held' = held \cup {u} /\ used' = used + 1

\* Rollback and close: what the session has goes back.
Give(u) ==
  /\ held' = held \ {u}
  /\ used' = IF u \in held THEN used - 1 ELSE used

\* A commit that writes: the statement needs a connection, and then gives it back.
TakeAndGive(u) == CanTake(u) /\ Give(u)

Init ==
  /\ pc = [u \in Users |-> "idle"]
  /\ left = [r \in Runs |-> MoreStages]
  /\ held = {}
  /\ used = 0

-----------------------------------------------------------------------------
(* process() *)

\* The semaphore lets the task in.
Admitted(t) ==
  /\ pc[t[1]] \in {"gather", "broken"}
  /\ Cardinality({s \in TasksOf(t[1]) : Live(s)}) < Cap

\* A background task calls process() at once.
Begin(r) ==
  /\ Go(r, "idle", "load")
  /\ r \in Tasks => Admitted(r)
  /\ UNCHANGED <<left, held, used>>

Load(r) == Go(r, "load", "announce") /\ Take(r) /\ UNCHANGED left

\* The commit of the type that classify found, before the next status.
SetType(r) == Go(r, "set_type", "announce") /\ TakeAndGive(r) /\ UNCHANGED left

\* The commit of a status.  After one of the later stages' there may be no
\* extractor, and FAILED is the last commit of process().
Announce(r) ==
  /\ \/ Go(r, "announce", "insert")
     \/ left[r] < MoreStages /\ Go(r, "announce", "finish")
  /\ TakeAndGive(r)
  /\ UNCHANGED left

InsertAudit(r) == Go(r, "insert", "refresh") /\ TakeAndGive(r) /\ UNCHANGED left

\* Variant: the audit row is not refreshed, and the stage runs without a transaction.
RefreshNothing(r) == Go(r, "refresh", "work") /\ UNCHANGED <<left, held, used>>

\* The refresh opens a transaction in which the stage then runs.
Refresh(r) == Go(r, "refresh", "work") /\ Take(r) /\ UNCHANGED left

\* The body of a stage answers: the storage or the LLM.  Only preprocess, the
\* first one, commits at its end.
Work(r) ==
  /\ Go(r, "work", "close")
  /\ IF left[r] = MoreStages THEN Give(r) ELSE UNCHANGED <<held, used>>
  /\ UNCHANGED left

\* Variant: the stage that follows is the same one again.
CloseAndRepeat(r) ==
  /\ TakeAndGive(r)
  /\ Go(r, "close", IF left[r] > 0 THEN "announce" ELSE "finish")
  /\ UNCHANGED left

\* The commit that closes the audit row.  A stage that follows has its status
\* committed first, except classify; classify itself is followed by its type.
\* Which of them follows is a matter of DocumentPipeline.
Close(r) ==
  /\ TakeAndGive(r)
  /\ \/ /\ left[r] > 0
        /\ \E next \in {"announce", "insert", "set_type"} : Go(r, "close", next)
        /\ left' = [left EXCEPT ![r] = @ - 1]
     \/ left[r] = 0 /\ Go(r, "close", "finish") /\ UNCHANGED left

\* The body of a stage raises: roll back, read the audit row again, mark it.
Fail(r) == Go(r, "work", "refetch") /\ Give(r) /\ UNCHANGED left
Refetch(r) == Go(r, "refetch", "record") /\ Take(r) /\ UNCHANGED left
Record(r) == Go(r, "record", "ended") /\ TakeAndGive(r) /\ UNCHANGED left

\* The last commit of process(), READY or FAILED.  A task of a batch reads the row
\* once more before its session is closed.
Finish(r) ==
  /\ Go(r, "finish", IF r \in Tasks THEN "recheck" ELSE "ended")
  /\ TakeAndGive(r)
  /\ UNCHANGED left

Recheck(r) == Go(r, "recheck", "ended") /\ TakeAndGive(r) /\ UNCHANGED left

-----------------------------------------------------------------------------
(* run() of a batch, and requests *)

Schedule(b) == Go(b, "idle", "load") /\ UNCHANGED <<left, held, used>>
LoadBatch(b) == Go(b, "load", "mark") /\ Take(b) /\ UNCHANGED left

\* Variant: the documents are read after the commit and the session stays open.
MarkRunningInOpenSession(b) == Go(b, "mark", "gather") /\ Take(b) /\ UNCHANGED left

\* RUNNING is committed and the first session closed before any task starts.
MarkRunning(b) == Go(b, "mark", "gather") /\ TakeAndGive(b) /\ UNCHANGED left

AllEnded(b) == \A t \in TasksOf(b) : pc[t] = "ended"

Gathered(b) ==
  /\ AllEnded(b)
  /\ Go(b, "gather", "reload")
  /\ UNCHANGED <<left, held, used>>

Reload(b) == Go(b, "reload", "final") /\ Take(b) /\ UNCHANGED left
Finalize(b) == Go(b, "final", "ended") /\ TakeAndGive(b) /\ UNCHANGED left

Receive(q) == Go(q, "idle", "query") /\ UNCHANGED <<left, held, used>>
Query(q) == Go(q, "query", "respond") /\ Take(q) /\ UNCHANGED left

\* The session of the request is closed when its handler is done, and before the
\* background tasks that it added, as FastAPI 0.110 to 0.117 do (later versions,
\* which pyproject.toml admits, close it after them).
Respond(q) == Go(q, "respond", "ended") /\ Give(q) /\ UNCHANGED left

-----------------------------------------------------------------------------
(* Failures *)

\* The awaits that execute a statement.
Needs(u) ==
  pc[u] \in {"load", "set_type", "announce", "insert", "refresh", "close", "refetch", "record",
             "finish", "recheck", "mark", "reload", "final", "query"}

\* An exception or a cancellation ends what the user does.  The one in a task's
\* last read is not caught and ends the run() that gathers, not the other tasks.
Stop(u) ==
  pc' = [v \in Users |->
           IF v = u THEN "ended"
           ELSE IF pc[u] = "recheck" /\ v = u[1] /\ pc[v] = "gather" THEN "broken"
           ELSE pc[v]]

\* Variant: a pool whose waiters wait for ever.
PoolTimeoutNever(u) == FALSE

\* No connection comes free in time: the statement raises, which ends process(),
\* run() and a request alike; their sessions have none to give back.
PoolTimeout(u) ==
  /\ Needs(u) /\ u \notin held /\ Full
  /\ Stop(u)
  /\ UNCHANGED <<left, held, used>>

\* Variant: a cancelled user does not close its session.
CutOffUnclosed(u) ==
  /\ Live(u) /\ pc[u] # "gather"
  /\ Stop(u)
  /\ held' = held \ {u}
  /\ UNCHANGED <<left, used>>

\* wait_for cancels a run, a client goes away, a statement fails: "async with"
\* closes the session.
CutOff(u) ==
  /\ Live(u) /\ pc[u] # "gather"
  /\ Stop(u)
  /\ Give(u)
  /\ UNCHANGED left

-----------------------------------------------------------------------------
\* The steps that take their turn by themselves, if they get a connection.
RunStep(r) ==
  \/ Load(r) \/ SetType(r) \/ Announce(r) \/ InsertAudit(r) \/ Refresh(r) \/ Close(r)
  \/ Refetch(r) \/ Record(r) \/ Finish(r) \/ Recheck(r)
BatchStep(b) == LoadBatch(b) \/ MarkRunning(b) \/ Gathered(b) \/ Reload(b) \/ Finalize(b)
RequestStep(q) == Query(q) \/ Respond(q)

Next ==
  \/ \E r \in Runs : Begin(r) \/ RunStep(r) \/ Work(r) \/ Fail(r)
  \/ \E b \in Batches : Schedule(b) \/ BatchStep(b)
  \/ \E q \in Requests : Receive(q) \/ RequestStep(q)
  \/ \E u \in Users : PoolTimeout(u) \/ CutOff(u)

Spec == Init /\ [][Next]_vars

\* The event loop resumes everyone who can go on.  Neither that a stage's body
\* answers nor that a waiter loses patience is assumed here.
FairSpec ==
  /\ Spec
  /\ \A r \in Runs : WF_vars(RunStep(r))
  /\ \A t \in Tasks : WF_vars(Begin(t))
  /\ \A b \in Batches : WF_vars(BatchStep(b))
  /\ \A q \in Requests : WF_vars(RequestStep(q))

-----------------------------------------------------------------------------
(* Properties *)

PoolTypeOK ==
  /\ pc \in [Users -> RunPC \cup BatchPC \cup RequestPC]
  /\ left \in [Runs -> 0 .. MoreStages]
  /\ held \subseteq Users
  /\ used \in 0 .. Capacity

\* The connections that the pool counts as given out are those that living users
\* hold, however their work ended: none is lost to a cancelled, failed or
\* timed-out user.
NoConnectionIsLost ==
  /\ used = Cardinality(held)
  /\ \A u \in held : Live(u)

\* A stage runs inside a transaction, so however many batches and background
\* tasks there are, no more than Capacity stages (LLM calls among them) are in
\* flight at once: the pool, not the semaphore, is what bounds them all.
StagesBoundedByPool == Cardinality({r \in Runs : pc[r] = "work"}) <= Capacity

\* What lets a user go on by itself, or when the body of its stage answers.
CanGoOn(u) ==
  \/ Needs(u) /\ CanTake(u)
  \/ pc[u] \in {"work", "respond"}
  \/ u \in Batches /\ pc[u] = "gather" /\ AllEnded(u)
  \/ u \in Tasks /\ pc[u] = "idle" /\ Admitted(u)

\* No deadlock of connections, slots and batches that wait for their tasks: while
\* anybody has something to do somebody can, without a timeout of the pool.
SomebodyCanGoOn == (\E u \in Users : Live(u)) => \E u \in Users : CanGoOn(u)

\* How much a user has still to do at most.
Place == [idle |-> 12, load |-> 11, set_type |-> 11, announce |-> 10, insert |-> 9, refresh |-> 8,
          work |-> 7, close |-> 6, refetch |-> 5, record |-> 4, finish |-> 3, recheck |-> 2,
          mark |-> 10, gather |-> 9, reload |-> 8, final |-> 7, broken |-> 1,
          query |-> 11, respond |-> 10, ended |-> 0]
Rank(u) == Place[pc[u]] + (IF u \in Runs THEN 12 * left[u] ELSE 0)

\* Whatever happens brings some user nearer to its end and takes nobody back, a
\* run that goes from one stage to the next included: with SomebodyCanGoOn, nothing
\* can go on for ever and nothing can get stuck.
EveryStepIsProgress ==
  [][/\ \A u \in Users : Rank(u)' <= Rank(u)
     /\ \E u \in Users : Rank(u)' < Rank(u)]_vars

\* Nobody waits in a circle: batches wait for tasks, tasks for slots and
\* connections, and everybody ends without any timeout of the pool, provided that
\* storage and LLM answer.
EveryUserEnds ==
  (\A r \in Runs : WF_vars(Work(r))) => \A u \in Users : Live(u) ~> ~Live(u)

\* A request ends although every connection is held by a stage whose LLM call
\* never answers: it is served or gives up.
EveryRequestEnds ==
  (\A q \in Requests : WF_vars(PoolTimeout(q))) =>
    \A q \in Requests : pc[q] = "query" ~> pc[q] = "ended"
=============================================================================
