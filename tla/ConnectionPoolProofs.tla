----------------------- MODULE ConnectionPoolProofs -----------------------
(***************************************************************************)
(* Proofs about ConnectionPool, for any number of batches, documents,      *)
(* background tasks and requests and any size of the pool: the connections *)
(* are accounted for and bound the stages in flight, nobody waits in a     *)
(* circle, and every step brings somebody nearer to its end.               *)
(***************************************************************************)
EXTENDS ConnectionPool, FiniteSetTheorems, TLAPS

\* A batch that waits for its documents holds no connection, a stage's body runs
\* only while its run holds one, and only batches gather.
PoolInv ==
  /\ PoolTypeOK
  /\ NoConnectionIsLost
  /\ \A u \in Users : pc[u] = "gather" => u \notin held
  /\ \A r \in Runs : pc[r] = "work" => r \in held
  /\ \A u \in Users : pc[u] \in {"gather", "broken"} => u \in Batches

AnyPC == RunPC \cup BatchPC \cup RequestPC

\* All the finiteness that counting needs.
LEMMA HeldIsFinite ==
  ASSUME held \subseteq Users
  PROVE  IsFiniteSet(held) /\ Cardinality(held) \in Nat
<1>1. IsFiniteSet(Batches) /\ IsFiniteSet(Background) /\ IsFiniteSet(Requests) /\ IsFiniteSet(Documents)
  BY UsersAreFinite, FS_Subset
<1>2. IsFiniteSet(Tasks)
  BY <1>1, FS_Product DEF Tasks
<1>3. IsFiniteSet(Users)
  BY <1>1, <1>2, FS_Union DEF Users, Runs
<1> QED
  BY <1>3, FS_Subset, FS_CardinalityType

\* Taking keeps the count right and within the capacity.
LEMMA TakeCounts ==
  ASSUME PoolTypeOK, used = Cardinality(held), NEW u \in Users, Take(u)
  PROVE  /\ held' = held \cup {u}
         /\ used' = Cardinality(held') /\ used' \in 0 .. Capacity
<1>1. CASE u \in held
  BY <1>1 DEF Take, PoolTypeOK
<1>2. CASE u \notin held
  <2>1. held' = held \cup {u} /\ used' = used + 1 /\ ~Full
    BY <1>2 DEF Take
  <2>2. Cardinality(held') = Cardinality(held) + 1
    BY <1>2, <2>1, HeldIsFinite, FS_AddElement DEF PoolTypeOK
  <2> QED
    BY <2>1, <2>2, CapacityAssumption DEF Full, PoolTypeOK
<1> QED
  BY <1>1, <1>2

\* Giving does too.
LEMMA GiveCounts ==
  ASSUME PoolTypeOK, used = Cardinality(held), NEW u \in Users, Give(u)
  PROVE  /\ held' = held \ {u}
         /\ used' = Cardinality(held') /\ used' \in 0 .. Capacity
<1>1. held' = held \ {u}
  BY DEF Give
<1>2. CASE u \in held
  <2>1. Cardinality(held') = Cardinality(held) - 1
    BY <1>1, <1>2, HeldIsFinite, FS_RemoveElement DEF PoolTypeOK
  <2>2. Cardinality(held') \in Nat
    BY <1>1, HeldIsFinite, FS_RemoveElement, FS_CardinalityType DEF PoolTypeOK
  <2> QED
    BY <1>1, <1>2, <2>1, <2>2, CapacityAssumption DEF Give, PoolTypeOK
<1>3. CASE u \notin held
  BY <1>1, <1>3 DEF Give, PoolTypeOK
<1> QED
  BY <1>2, <1>3

-----------------------------------------------------------------------------
(* Three kinds of steps of one user, and the stop of one. *)

\* A user goes on with a connection in hand.
LEMMA TakingStep ==
  ASSUME PoolInv, NEW u \in Users, NEW from, NEW to \in AnyPC \ {"idle", "ended", "broken", "gather"},
         Go(u, from, to), Take(u), left' \in [Runs -> 0 .. MoreStages]
  PROVE  PoolInv'
<1>1. held' = held \cup {u} /\ used' = Cardinality(held') /\ used' \in 0 .. Capacity
  BY TakeCounts DEF PoolInv, NoConnectionIsLost
<1>2. pc' \in [Users -> AnyPC] /\ pc'[u] = to /\ \A v \in Users \ {u} : pc'[v] = pc[v]
  BY DEF Go, PoolInv, PoolTypeOK, AnyPC
<1>3. PoolTypeOK'
  BY <1>1, <1>2 DEF PoolInv, PoolTypeOK, AnyPC
<1>4. NoConnectionIsLost'
  BY <1>1, <1>2 DEF PoolInv, PoolTypeOK, NoConnectionIsLost, Live
<1>5. \A v \in Users : pc'[v] = "gather" => v \notin held'
  BY <1>1, <1>2 DEF PoolInv
<1>6. \A r \in Runs : pc'[r] = "work" => r \in held'
  BY <1>1, <1>2 DEF PoolInv, Users
<1>7. \A v \in Users : pc'[v] \in {"gather", "broken"} => v \in Batches
  BY <1>2 DEF PoolInv
<1> QED
  BY <1>3, <1>4, <1>5, <1>6, <1>7 DEF PoolInv

\* A user goes on, or ends, with none.
LEMMA GivingStep ==
  ASSUME PoolInv, NEW u \in Users, NEW from, NEW to \in AnyPC \ {"work", "broken"},
         to = "gather" => u \in Batches, Go(u, from, to), Give(u), left' \in [Runs -> 0 .. MoreStages]
  PROVE  PoolInv'
<1>1. held' = held \ {u} /\ used' = Cardinality(held') /\ used' \in 0 .. Capacity
  BY GiveCounts DEF PoolInv, NoConnectionIsLost
<1>2. pc' \in [Users -> AnyPC] /\ pc'[u] = to /\ \A v \in Users \ {u} : pc'[v] = pc[v]
  BY DEF Go, PoolInv, PoolTypeOK, AnyPC
<1>3. PoolTypeOK'
  BY <1>1, <1>2 DEF PoolInv, PoolTypeOK, AnyPC
<1>4. NoConnectionIsLost'
  BY <1>1, <1>2 DEF PoolInv, PoolTypeOK, NoConnectionIsLost, Live
<1>5. \A v \in Users : pc'[v] = "gather" => v \notin held'
  BY <1>1, <1>2 DEF PoolInv
<1>6. \A r \in Runs : pc'[r] = "work" => r \in held'
  BY <1>1, <1>2 DEF PoolInv, Users
<1>7. \A v \in Users : pc'[v] \in {"gather", "broken"} => v \in Batches
  BY <1>2 DEF PoolInv
<1> QED
  BY <1>3, <1>4, <1>5, <1>6, <1>7 DEF PoolInv

\* A user goes on without touching the pool.
LEMMA QuietStep ==
  ASSUME PoolInv, NEW u \in Users, NEW from,
         NEW to \in AnyPC \ {"idle", "ended", "broken", "gather", "work"},
         Go(u, from, to), UNCHANGED <<left, held, used>>
  PROVE  PoolInv'
<1>1. pc' \in [Users -> AnyPC] /\ pc'[u] = to /\ \A v \in Users \ {u} : pc'[v] = pc[v]
  BY DEF Go, PoolInv, PoolTypeOK, AnyPC
<1>2. PoolTypeOK'
  BY <1>1 DEF PoolInv, PoolTypeOK, AnyPC
<1>3. NoConnectionIsLost'
  BY <1>1 DEF PoolInv, PoolTypeOK, NoConnectionIsLost, Live
<1>4. \A v \in Users : pc'[v] = "gather" => v \notin held'
  BY <1>1 DEF PoolInv
<1>5. \A r \in Runs : pc'[r] = "work" => r \in held'
  BY <1>1 DEF PoolInv, Users
<1>6. \A v \in Users : pc'[v] \in {"gather", "broken"} => v \in Batches
  BY <1>1 DEF PoolInv
<1> QED
  BY <1>2, <1>3, <1>4, <1>5, <1>6 DEF PoolInv

\* A user is stopped; the run() that it ends along with itself holds nothing.
LEMMA StoppingStep ==
  ASSUME PoolInv, NEW u \in Users, Stop(u), Give(u), UNCHANGED left
  PROVE  PoolInv'
<1>1. held' = held \ {u} /\ used' = Cardinality(held') /\ used' \in 0 .. Capacity
  BY GiveCounts DEF PoolInv, NoConnectionIsLost
<1>2. \A v \in Users : pc'[v] \in {pc[v], "ended", "broken"}
  BY DEF Stop
<1>3. \A v \in Users \ {u} : pc'[v] = pc[v] \/ (pc[v] = "gather" /\ pc'[v] = "broken")
  BY DEF Stop
<1>4. pc' \in [Users -> AnyPC] /\ pc'[u] = "ended"
  BY <1>2 DEF Stop, PoolInv, PoolTypeOK, AnyPC, BatchPC
<1>5. PoolTypeOK'
  BY <1>1, <1>4 DEF PoolInv, PoolTypeOK, AnyPC
<1>6. NoConnectionIsLost'
  BY <1>1, <1>3 DEF PoolInv, PoolTypeOK, NoConnectionIsLost, Live
<1>7. \A v \in Users : pc'[v] = "gather" => v \notin held'
  BY <1>1, <1>3, <1>4 DEF PoolInv
<1>8. \A r \in Runs : pc'[r] = "work" => r \in held'
  BY <1>1, <1>3, <1>4 DEF PoolInv, Users
<1>9. \A v \in Users : pc'[v] \in {"gather", "broken"} => v \in Batches
  BY <1>3, <1>4 DEF PoolInv
<1> QED
  BY <1>5, <1>6, <1>7, <1>8, <1>9 DEF PoolInv

-----------------------------------------------------------------------------
(* The invariant *)

LEMMA PoolInit == Init => PoolInv
<1> SUFFICES ASSUME Init PROVE PoolInv
  OBVIOUS
<1>1. Cardinality(held) = 0
  BY FS_EmptySet DEF Init
<1> QED
  BY <1>1, CapacityAssumption
  DEF Init, PoolInv, PoolTypeOK, NoConnectionIsLost, RunPC, Live, Runs, Users

LEMMA RunsKeepPoolInv ==
  ASSUME PoolInv, NEW r \in Runs, Begin(r) \/ RunStep(r) \/ Work(r) \/ Fail(r)
  PROVE  PoolInv'
<1> USE DEF AnyPC, RunPC, TakeAndGive
<1>0. r \in Users /\ left \in [Runs -> 0 .. MoreStages]
  BY DEF Users, PoolInv, PoolTypeOK
<1>1. CASE Begin(r)
  BY <1>0, <1>1, QuietStep DEF Begin
<1>2. CASE Load(r)
  BY <1>0, <1>2, TakingStep DEF Load
<1>3. CASE Announce(r)
  BY <1>0, <1>3, GivingStep DEF Announce
<1>4. CASE InsertAudit(r)
  BY <1>0, <1>4, GivingStep DEF InsertAudit
<1>5. CASE Refresh(r)
  BY <1>0, <1>5, TakingStep DEF Refresh
<1>6. CASE Work(r)
  <2>1. CASE Give(r)
    BY <1>0, <1>6, <2>1, GivingStep DEF Work
  <2>2. CASE UNCHANGED <<held, used>>
    BY <1>0, <1>6, <2>2, QuietStep DEF Work
  <2> QED
    BY <1>6, <2>1, <2>2 DEF Work
<1>7. CASE Close(r)
  <2>1. left' \in [Runs -> 0 .. MoreStages]
    BY <1>0, <1>7, CapacityAssumption DEF Close
  <2> QED
    BY <1>0, <1>7, <2>1, GivingStep DEF Close
<1>8. CASE Fail(r)
  BY <1>0, <1>8, GivingStep DEF Fail
<1>9. CASE Refetch(r)
  BY <1>0, <1>9, TakingStep DEF Refetch
<1>10. CASE Record(r)
  BY <1>0, <1>10, GivingStep DEF Record
<1>11. CASE Finish(r)
  BY <1>0, <1>11, GivingStep DEF Finish
<1>12. CASE Recheck(r)
  BY <1>0, <1>12, GivingStep DEF Recheck
<1>13. CASE SetType(r)
  BY <1>0, <1>13, GivingStep DEF SetType
<1> QED
  BY <1>1, <1>2, <1>3, <1>4, <1>5, <1>6, <1>7, <1>8, <1>9, <1>10, <1>11, <1>12, <1>13
  DEF RunStep

LEMMA BatchesKeepPoolInv ==
  ASSUME PoolInv, NEW b \in Batches, Schedule(b) \/ BatchStep(b)
  PROVE  PoolInv'
<1> USE DEF AnyPC, BatchPC, TakeAndGive
<1>0. b \in Users /\ left \in [Runs -> 0 .. MoreStages]
  BY DEF Users, PoolInv, PoolTypeOK
<1>1. CASE Schedule(b)
  BY <1>0, <1>1, QuietStep DEF Schedule
<1>2. CASE LoadBatch(b)
  BY <1>0, <1>2, TakingStep DEF LoadBatch
<1>3. CASE MarkRunning(b)
  BY <1>0, <1>3, GivingStep DEF MarkRunning
<1>4. CASE Gathered(b)
  BY <1>0, <1>4, QuietStep DEF Gathered
<1>5. CASE Reload(b)
  BY <1>0, <1>5, TakingStep DEF Reload
<1>6. CASE Finalize(b)
  BY <1>0, <1>6, GivingStep DEF Finalize
<1> QED
  BY <1>1, <1>2, <1>3, <1>4, <1>5, <1>6 DEF BatchStep

LEMMA RequestsKeepPoolInv ==
  ASSUME PoolInv, NEW q \in Requests, Receive(q) \/ RequestStep(q)
  PROVE  PoolInv'
<1> USE DEF AnyPC, RequestPC
<1>0. q \in Users /\ left \in [Runs -> 0 .. MoreStages]
  BY DEF Users, PoolInv, PoolTypeOK
<1>1. CASE Receive(q)
  BY <1>0, <1>1, QuietStep DEF Receive
<1>2. CASE Query(q)
  BY <1>0, <1>2, TakingStep DEF Query
<1>3. CASE Respond(q)
  BY <1>0, <1>3, GivingStep DEF Respond
<1> QED
  BY <1>1, <1>2, <1>3 DEF RequestStep

LEMMA PoolNext == PoolInv /\ [Next]_vars => PoolInv'
<1> SUFFICES ASSUME PoolInv, [Next]_vars PROVE PoolInv'
  OBVIOUS
<1>1. CASE \E r \in Runs : Begin(r) \/ RunStep(r) \/ Work(r) \/ Fail(r)
  BY <1>1, RunsKeepPoolInv
<1>2. CASE \E b \in Batches : Schedule(b) \/ BatchStep(b)
  BY <1>2, BatchesKeepPoolInv
<1>3. CASE \E q \in Requests : Receive(q) \/ RequestStep(q)
  BY <1>3, RequestsKeepPoolInv
<1>4. ASSUME NEW u \in Users, PoolTimeout(u) \/ CutOff(u)
      PROVE  PoolInv'
  <2>1. Stop(u) /\ Give(u) /\ UNCHANGED left
    BY <1>4 DEF PoolTimeout, CutOff, Give, PoolInv, PoolTypeOK
  <2> QED
    BY <2>1, StoppingStep
<1>5. CASE UNCHANGED vars
  BY <1>5 DEF vars, PoolInv, PoolTypeOK, NoConnectionIsLost, Live
<1> QED
  BY <1>1, <1>2, <1>3, <1>4, <1>5 DEF Next

LEMMA PoolInvariant == Spec => []PoolInv
  BY PoolInit, PoolNext, PTL DEF Spec

\* The pool never gives out more than Capacity connections, and every user is at
\* an await of its code.
THEOREM PoolTypeCorrect == Spec => []PoolTypeOK
<1>1. PoolInv => PoolTypeOK
  BY DEF PoolInv
<1> QED
  BY <1>1, PoolInvariant, PTL

\* However users end, by return, exception, cancellation or the pool's timeout,
\* every connection given out is held by a user that lives.
THEOREM ConnectionsAreKept == Spec => []NoConnectionIsLost
<1>1. PoolInv => NoConnectionIsLost
  BY DEF PoolInv
<1> QED
  BY <1>1, PoolInvariant, PTL

\* For any number of batches and background tasks, the stages in flight are at
\* most as many as the pool has connections.
THEOREM PoolBoundsStages == Spec => []StagesBoundedByPool
<1>1. ASSUME PoolInv PROVE StagesBoundedByPool
  <2> DEFINE working == {r \in Runs : pc[r] = "work"}
  <2>1. working \subseteq held
    BY <1>1 DEF PoolInv
  <2>2. Cardinality(working) <= Cardinality(held)
    BY <1>1, <2>1, HeldIsFinite, FS_Subset DEF PoolInv, PoolTypeOK
  <2>3. Cardinality(held) \in 0 .. Capacity
    BY <1>1 DEF PoolInv, PoolTypeOK, NoConnectionIsLost
  <2>4. Cardinality(working) \in Nat
    BY <1>1, <2>1, HeldIsFinite, FS_Subset, FS_CardinalityType DEF PoolInv, PoolTypeOK
  <2> QED
    BY <2>2, <2>3, <2>4, CapacityAssumption DEF StagesBoundedByPool
<1> QED
  BY <1>1, PoolInvariant, PTL
-----------------------------------------------------------------------------
(* Deadlock *)

\* While somebody holds a connection, a holder can go on; while nobody does, the
\* pool is not full and whoever waits for a connection gets one; and a batch that
\* waits for tasks of which none is live can start one or has them all.  So there is
\* no circle: as is the point of run()'s commit before it waits.
THEOREM PoolHasNoDeadlock == Spec => []SomebodyCanGoOn
<1>1. ASSUME PoolInv, NEW u \in Users, Live(u) PROVE \E v \in Users : CanGoOn(v)
  <2>0. /\ held \subseteq Users /\ used = Cardinality(held)
        /\ \A v \in held : Live(v) /\ pc[v] # "gather"
        /\ \A v \in Users : pc[v] \in {"gather", "broken"} => v \in Batches
    BY <1>1 DEF PoolInv, PoolTypeOK, NoConnectionIsLost
  <2>1. \A v \in Users : pc[v] \in AnyPC
    BY <1>1 DEF PoolInv, PoolTypeOK, AnyPC
  <2>2. ASSUME NEW v \in Users, Live(v), pc[v] # "gather" PROVE Needs(v) \/ pc[v] \in {"work", "respond"}
    BY <2>1, <2>2 DEF Live, Needs, AnyPC, RunPC, BatchPC, RequestPC
  <2>3. CASE held # {}
    <3>1. PICK v \in held : TRUE
      BY <2>3
    <3>2. v \in Users /\ Live(v) /\ pc[v] # "gather"
      BY <2>0, <3>1
    <3>3. CanGoOn(v)
      BY <2>2, <3>1, <3>2 DEF CanGoOn, CanTake
    <3> QED
      BY <3>2, <3>3
  <2>4. CASE held = {} /\ \E v \in Users : Live(v) /\ pc[v] # "gather"
    <3>1. PICK v \in Users : Live(v) /\ pc[v] # "gather"
      BY <2>4
    <3>2. used = 0
      BY <2>0, <2>4, FS_EmptySet
    <3>3. CanTake(v)
      BY <3>2, CapacityAssumption DEF CanTake, Full
    <3>4. CanGoOn(v)
      BY <2>2, <3>1, <3>3 DEF CanGoOn
    <3> QED
      BY <3>4
  <2>5. CASE \A v \in Users : Live(v) => pc[v] = "gather"
    <3>1. u \in Batches /\ pc[u] = "gather"
      BY <1>1, <2>0, <2>5
    <3>2. \A t \in TasksOf(u) : t \in Users /\ t \in Tasks /\ t \notin Batches /\ t[1] = u
      BY KindsAreDisjoint DEF TasksOf, Users, Runs
    <3>3. \A t \in TasksOf(u) : pc[t] \in {"idle", "ended"} /\ ~Live(t)
      BY <2>0, <2>5, <3>2 DEF Live
    <3>4. CASE AllEnded(u)
      BY <3>1, <3>4 DEF CanGoOn
    <3>5. CASE ~AllEnded(u)
      <4>1. PICK t \in TasksOf(u) : pc[t] = "idle"
        BY <3>3, <3>5 DEF AllEnded
      <4>2. {s \in TasksOf(t[1]) : Live(s)} = {}
        BY <3>2, <3>3, <4>1
      <4>3. Cardinality({s \in TasksOf(t[1]) : Live(s)}) < Cap
        BY <4>2, FS_EmptySet, CapacityAssumption
      <4>4. CanGoOn(t)
        BY <3>1, <3>2, <4>1, <4>3 DEF CanGoOn, Admitted
      <4> QED
        BY <3>2, <4>1, <4>4
    <3> QED
      BY <3>4, <3>5
  <2> QED
    BY <2>3, <2>4, <2>5
<1>2. PoolInv => SomebodyCanGoOn
  BY <1>1 DEF SomebodyCanGoOn
<1> QED
  BY <1>2, PoolInvariant, PTL

-----------------------------------------------------------------------------
(* Progress *)

\* A place is a number, and so is what a user has still to do.
LEMMA PlaceType == \A p \in AnyPC : Place[p] \in Nat
BY DEF AnyPC, RunPC, BatchPC, RequestPC, Place

LEMMA RankType ==
  ASSUME PoolTypeOK
  PROVE  \A u \in Users : Rank(u) \in Nat
<1> TAKE u \in Users
<1>1. Place[pc[u]] \in Nat
  BY PlaceType DEF PoolTypeOK, AnyPC
<1>2. u \in Runs => left[u] \in Nat
  BY CapacityAssumption DEF PoolTypeOK
<1> QED
  BY <1>1, <1>2 DEF Rank

\* A user that goes on to a later place of the same stage has less to do.
LEMMA PlaceFalls ==
  ASSUME PoolTypeOK, NEW u \in Users, NEW from \in AnyPC, NEW to \in AnyPC,
         Go(u, from, to), Place[to] < Place[from], UNCHANGED left
  PROVE  /\ \A v \in Users : Rank(v)' <= Rank(v)
         /\ \E v \in Users : Rank(v)' < Rank(v)
<1>1. pc[u] = from /\ pc'[u] = to /\ \A v \in Users \ {u} : pc'[v] = pc[v]
  BY DEF Go, PoolTypeOK
<1>2. \A v \in Users \ {u} : Rank(v)' = Rank(v)
  BY <1>1 DEF Rank
<1>3. Rank(u)' \in Nat /\ Rank(u)' < Rank(u)
  <2>1. u \in Runs => left[u] \in Nat /\ left'[u] = left[u]
    BY CapacityAssumption DEF PoolTypeOK
  <2> QED
    BY <1>1, <2>1, PlaceType DEF Rank
<1>4. \A v \in Users : Rank(v) \in Nat
  BY RankType
<1>5. \A v \in Users : Rank(v)' <= Rank(v)
  <2> TAKE v \in Users
  <2>1. CASE v = u
    BY <1>3, <1>4, <2>1
  <2>2. CASE v # u
    BY <1>2, <1>4, <2>2
  <2> QED
    BY <2>1, <2>2
<1> QED
  BY <1>3, <1>5

\* A user that is stopped has nothing left, and no more has a run() that it ends.
LEMMA StopFalls ==
  ASSUME PoolInv, NEW u \in Users, Live(u), Stop(u), UNCHANGED left
  PROVE  /\ \A v \in Users : Rank(v)' <= Rank(v)
         /\ \E v \in Users : Rank(v)' < Rank(v)
<1>1. PoolTypeOK /\ \A v \in Users : Rank(v) \in Nat
  BY RankType DEF PoolInv
<1>2. pc'[u] = "ended" /\ pc[u] \notin {"idle", "ended", "broken"}
  BY DEF Stop, Live
<1>3. \A v \in Users \ {u} : pc'[v] = pc[v] \/ (pc[v] = "gather" /\ pc'[v] = "broken")
  BY DEF Stop
<1>4. \A v \in Users : v \in Runs => left[v] \in Nat /\ left'[v] = left[v]
  BY <1>1, CapacityAssumption DEF PoolTypeOK
<1>5. \A v \in Users : pc[v] \in AnyPC
  BY <1>1 DEF PoolTypeOK, AnyPC
<1>6. /\ "ended" \in AnyPC /\ "broken" \in AnyPC /\ "gather" \in AnyPC
      /\ Place["ended"] = 0 /\ Place["broken"] = 1 /\ Place["gather"] = 9
  BY DEF AnyPC, RunPC, BatchPC, Place
<1>7. Place[pc[u]] > 0
  BY <1>2, <1>5 DEF AnyPC, RunPC, BatchPC, RequestPC, Place
<1> HIDE DEF Place
<1>8. Rank(u)' \in Nat /\ Rank(u)' < Rank(u)
  BY <1>2, <1>4, <1>5, <1>6, <1>7, PlaceType DEF Rank
<1>9. \A v \in Users : Rank(v)' <= Rank(v)
  <2> TAKE v \in Users
  <2>1. CASE v = u
    BY <1>1, <1>8, <2>1
  <2>2. CASE v # u /\ pc'[v] = pc[v]
    <3>1. Rank(v)' = Rank(v)
      BY <1>4, <2>2 DEF Rank
    <3> QED
      BY <1>1, <3>1
  <2>3. CASE v # u /\ pc[v] = "gather" /\ pc'[v] = "broken"
    BY <1>4, <1>6, <2>3 DEF Rank
  <2> QED
    BY <1>3, <2>1, <2>2, <2>3
<1> QED
  BY <1>8, <1>9

\* No user ever goes back, and every step takes one forward, for any number of
\* stages: what is left to do shrinks with every step of process(), of run() and of
\* a request, and with every failure.
THEOREM PoolStepsAreProgress == Spec => EveryStepIsProgress
<1> DEFINE Falls == /\ \A u \in Users : Rank(u)' <= Rank(u)
                    /\ \E u \in Users : Rank(u)' < Rank(u)
<1>1. ASSUME PoolInv, NEW r \in Runs, Begin(r) \/ RunStep(r) \/ Work(r) \/ Fail(r)
      PROVE  Falls
  <2>1. r \in Users /\ PoolTypeOK
    BY <1>1 DEF PoolInv, Users
  <2>2. CASE Close(r) /\ pc'[r] # "finish"
    <3>1. PICK next \in {"announce", "insert", "set_type"} :
            /\ pc[r] = "close" /\ pc' = [pc EXCEPT ![r] = next]
            /\ left[r] > 0 /\ left' = [left EXCEPT ![r] = @ - 1]
      BY <2>1, <2>2 DEF Close, Go, PoolTypeOK
    <3>2. left[r] \in Nat /\ left'[r] = left[r] - 1 /\ pc'[r] = next
      BY <2>1, <3>1, CapacityAssumption DEF PoolTypeOK
    <3>3. Rank(r) = 6 + 12 * left[r] /\ Rank(r)' = Place[next] + 12 * (left[r] - 1)
      BY <3>1, <3>2 DEF Rank, Place
    <3>8. Place[next] \in 9 .. 11
      BY DEF Place
    <3>4. Rank(r)' < Rank(r) /\ Rank(r)' <= Rank(r)
      <4> HIDE DEF Place
      <4> QED
        BY <3>2, <3>3, <3>8
    <3>5. \A u \in Users \ {r} : pc'[u] = pc[u] /\ (u \in Runs => left'[u] = left[u])
      BY <2>1, <3>1 DEF PoolTypeOK
    <3>6. \A u \in Users \ {r} : Rank(u)' = Rank(u)
      BY <3>5 DEF Rank
    <3>7. \A u \in Users : Rank(u) \in Nat
      BY <2>1, RankType
    <3> QED
      BY <2>1, <3>4, <3>6, <3>7
  <2>3. CASE ~(Close(r) /\ pc'[r] # "finish")
    <3>1. \E from, to \in RunPC : Go(r, from, to) /\ Place[to] < Place[from] /\ UNCHANGED left
      BY <1>1, <2>1, <2>3
      DEF Begin, RunStep, Load, SetType, Announce, InsertAudit, Refresh, Work, Close, Fail,
          Refetch, Record, Finish, Recheck, Go, RunPC, Place, PoolTypeOK
    <3> HIDE DEF Place
    <3> QED
      BY <2>1, <3>1, PlaceFalls DEF AnyPC
  <2> QED
    BY <2>2, <2>3
<1>2. ASSUME PoolInv, NEW b \in Batches, Schedule(b) \/ BatchStep(b)
      PROVE  Falls
  <2>1. b \in Users /\ PoolTypeOK
    BY <1>2 DEF PoolInv, Users
  <2>2. \E from, to \in BatchPC : Go(b, from, to) /\ Place[to] < Place[from] /\ UNCHANGED left
    BY <1>2 DEF Schedule, BatchStep, LoadBatch, MarkRunning, Gathered, Reload, Finalize, BatchPC, Place
  <2> HIDE DEF Place
  <2> QED
    BY <2>1, <2>2, PlaceFalls DEF AnyPC
<1>3. ASSUME PoolInv, NEW q \in Requests, Receive(q) \/ RequestStep(q)
      PROVE  Falls
  <2>1. q \in Users /\ PoolTypeOK
    BY <1>3 DEF PoolInv, Users
  <2>2. \E from, to \in RequestPC : Go(q, from, to) /\ Place[to] < Place[from] /\ UNCHANGED left
    BY <1>3 DEF Receive, RequestStep, Query, Respond, RequestPC, Place
  <2> HIDE DEF Place
  <2> QED
    BY <2>1, <2>2, PlaceFalls DEF AnyPC
<1>4. ASSUME PoolInv, NEW u \in Users, PoolTimeout(u) \/ CutOff(u)
      PROVE  Falls
  <2>1. Stop(u) /\ Live(u) /\ UNCHANGED left
    BY <1>4 DEF PoolTimeout, CutOff, Needs, Live
  <2> QED
    BY <1>4, <2>1, StopFalls
<1>5. PoolInv /\ Next => Falls
  <2> HIDE DEF Falls
  <2> QED
    BY <1>1, <1>2, <1>3, <1>4 DEF Next
<1>6. PoolInv /\ [Next]_vars => [Falls]_vars
  BY <1>5
<1> QED
  BY <1>6, PoolInvariant, PTL DEF Spec, EveryStepIsProgress
=============================================================================
