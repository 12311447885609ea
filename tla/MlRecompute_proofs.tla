-------------------------- MODULE MlRecompute_proofs --------------------------
(***************************************************************************)
(* Proofs about MlRecompute for every set of requests and jobs, whatever    *)
(* the clusterings find and however jobs overlap, fail and restart.         *)
(***************************************************************************)
EXTENDS MlRecompute, FiniteSetTheorems, WellFoundedInduction, TLAPS

TaskPhase == {"none", "queued", "clustering", "naming", "done"}

\* The types of the variables the proofs below depend on.
JobsTyped ==
    /\ saved \in [Job -> Status]
    /\ savedLogs \in [Job -> Nat]
    /\ lastCompleted \in Job \cup {NoJob}
    /\ lastAt \in BOOLEAN
    /\ logsAt \in Nat
    /\ task \in [Job -> TaskPhase]

JobsInv == JobsTyped /\ StatusInv /\ CountInv

\* The number of rows is a natural number.
LEMMA TotalIsNat == Cardinality(Present) \in Nat
<1>1. IsFiniteSet(Present)
  BY RecomputeAssumption, FS_Subset DEF Present
<1>2. QED
  BY <1>1, FS_CardinalityType

\* What a restart restores is a number: that of the last completed job, or 0.
LEMMA RestoredType ==
    ASSUME JobsTyped
    PROVE  RestoredLogs \in Nat
BY DEF JobsTyped, RestoredLogs

\* At the start there is no job.
LEMMA InitJobs == Init => JobsInv
<1> SUFFICES ASSUME Init PROVE JobsInv
  OBVIOUS
<1>1. JobsTyped
  BY DEF Init, JobsTyped, Status, TaskPhase
<1>2. StatusInv
  BY DEF Init, StatusInv
<1>3. RestoredLogs = 0
  BY DEF Init, RestoredLogs
<1>4. CountInv
  BY <1>3 DEF Init, CountInv
<1>5. QED
  BY <1>1, <1>2, <1>4 DEF JobsInv

\* A step that touches neither the job table nor the freshness globals, and moves
\* a coroutine only from clustering to naming, keeps the invariant.
LEMMA IdleStep ==
    ASSUME JobsInv, UNCHANGED <<saved, savedLogs, lastCompleted, lastAt, logsAt>>,
           \/ UNCHANGED task
           \/ \E j \in Job : /\ task[j] = "clustering"
                             /\ task' = [task EXCEPT ![j] = "naming"]
    PROVE  JobsInv'
<1>1. JobsTyped' /\ StatusInv'
  BY DEF JobsInv, JobsTyped, StatusInv, Status, TaskPhase
<1>2. CountInv'
  BY DEF JobsInv, CountInv, RestoredLogs
<1>3. QED
  BY <1>1, <1>2 DEF JobsInv

\* A new status for a job that is not completed keeps the counts: such a job has
\* none on disk.
LEMMA StatusStep ==
    ASSUME JobsInv, NEW j \in Job, NEW s \in Status, NEW p \in TaskPhase,
           saved[j] # "completed",
           saved' = [saved EXCEPT ![j] = s],
           task' = [task EXCEPT ![j] = p],
           p = "queued" => s = "pending",
           p \in {"clustering", "naming"} => s = "running",
           UNCHANGED <<savedLogs, lastCompleted, lastAt, logsAt>>
    PROVE  JobsInv'
<1>1. JobsTyped'
  BY DEF JobsInv, JobsTyped
<1>2. StatusInv'
  BY DEF JobsInv, JobsTyped, StatusInv
<1>3. CountInv'
  <2>1. RestoredLogs' = RestoredLogs
    BY DEF RestoredLogs
  <2>2. \A k \in Job : savedLogs'[k] > 0 => saved'[k] = "completed"
    BY DEF JobsInv, JobsTyped, CountInv
  <2>3. QED
    BY <2>1, <2>2 DEF JobsInv, CountInv
<1>4. QED
  BY <1>1, <1>2, <1>3 DEF JobsInv

\* A job that completes leaves the count it publishes, or, when its publication
\* breaks off, no count at all.
LEMMA PublishStep ==
    ASSUME JobsInv, NEW j \in Job, NEW reached \in Reached,
           task[j] \in {"queued", "naming"},
           PutJob(j, "completed"), lastCompleted' = j, Publish(j, reached), EndTask(j)
    PROVE  JobsInv'
<1> DEFINE total == Cardinality(Present)
<1>1. total \in Nat
  BY TotalIsNat
<1> HIDE DEF total
<1>2. saved[j] # "completed" /\ ~(savedLogs[j] > 0)
  BY DEF JobsInv, JobsTyped, StatusInv, CountInv
<1>3. /\ saved' = [saved EXCEPT ![j] = "completed"]
      /\ task' = [task EXCEPT ![j] = "done"]
  BY DEF PutJob, EndTask
<1>4. StatusInv'
  BY <1>3 DEF JobsInv, JobsTyped, StatusInv
<1>5. CASE reached = "all"
  <2>1. /\ lastAt' = TRUE
        /\ logsAt' = total
        /\ savedLogs' = [savedLogs EXCEPT ![j] = total]
    BY <1>5 DEF Publish, total
  <2>2. JobsTyped'
    BY <1>1, <1>3, <2>1 DEF JobsInv, JobsTyped, Status, TaskPhase
  <2>3. RestoredLogs' = total
    BY <2>1, RecomputeAssumption DEF RestoredLogs, JobsInv, JobsTyped
  <2>4. \A k \in Job : savedLogs'[k] > 0 => saved'[k] = "completed"
    BY <1>3, <2>1 DEF JobsInv, JobsTyped, CountInv
  <2>5. CountInv'
    BY <1>1, <2>1, <2>3, <2>4 DEF CountInv
  <2>6. QED
    BY <1>4, <2>2, <2>5 DEF JobsInv
<1>6. CASE reached # "all"
  <2>1. UNCHANGED <<lastAt, logsAt, savedLogs>>
    BY <1>6 DEF Publish, fresh
  <2>2. JobsTyped'
    BY <1>3, <2>1 DEF JobsInv, JobsTyped, Status, TaskPhase
  <2>3. RestoredLogs' = 0
    <3>1. savedLogs[j] = 0
      BY <1>2 DEF JobsInv, JobsTyped
    <3>2. QED
      BY <2>1, <3>1, RecomputeAssumption DEF RestoredLogs
  <2>4. \A k \in Job : savedLogs'[k] > 0 => saved'[k] = "completed"
    BY <1>3, <2>1 DEF JobsInv, JobsTyped, CountInv
  <2>5. CountInv'
    BY <2>2, <2>3, <2>4 DEF CountInv, JobsTyped
  <2>6. QED
    BY <1>4, <2>2, <2>5 DEF JobsInv
<1>7. QED
  BY <1>5, <1>6

\* A restart forgets the coroutines and falls back to what the last completed job
\* left on disk.
LEMMA RestartStep ==
    ASSUME JobsInv, Restart
    PROVE  JobsInv'
<1>1. /\ logsAt' = RestoredLogs
      /\ lastAt' = (lastCompleted # NoJob)
      /\ task' = [j \in Job |-> IF Alive(j) THEN "done" ELSE task[j]]
      /\ UNCHANGED <<saved, savedLogs, lastCompleted>>
  BY DEF Restart, disk
<1>2. JobsTyped'
  BY <1>1, RestoredType DEF JobsInv, JobsTyped, TaskPhase
<1>3. StatusInv'
  BY <1>1 DEF StatusInv, JobsInv, JobsTyped, Alive
<1>4. CountInv'
  <2>1. RestoredLogs' = RestoredLogs
    BY <1>1 DEF RestoredLogs
  <2>2. ~lastAt' => RestoredLogs = 0
    BY <1>1 DEF RestoredLogs
  <2>3. QED
    BY <1>1, <2>1, <2>2, RestoredType DEF JobsInv, CountInv
<1>5. QED
  BY <1>2, <1>3, <1>4 DEF JobsInv

\* Every step keeps the invariant.
LEMMA StepJobs ==
    ASSUME JobsInv, [Next]_vars
    PROVE  JobsInv'
<1> USE DEF Status, TaskPhase
<1>1. ASSUME NEW r \in Request, NEW s, JoinScenario(r, s) \/ OpenScenario(r)
      PROVE  JobsInv'
  BY <1>1, IdleStep DEF JoinScenario, OpenScenario, Record, fresh, work
<1>2. ASSUME NEW j \in Job, PostRecompute(j)
      PROVE  JobsInv'
  BY <1>2, StatusStep DEF PostRecompute, PutJob, fresh
<1>3. ASSUME NEW j \in Job, PostFails(j)
      PROVE  JobsInv'
  <2>1. /\ task' = [task EXCEPT ![j] = task[j]]
        /\ task[j] \in TaskPhase
        /\ task[j] \in {"none", "done"}
    BY <1>3 DEF PostFails, work, JobsInv, JobsTyped, StatusInv
  <2>2. QED
    BY <1>3, <2>1, StatusStep DEF PostFails, PutJob, fresh
<1>4. ASSUME NEW j \in Job, StartJob(j)
      PROVE  JobsInv'
  BY <1>4, StatusStep DEF StartJob, PutJob, fresh, JobsInv, StatusInv
<1>5. ASSUME NEW j \in Job, ReceiveClusters(j)
      PROVE  JobsInv'
  BY <1>5, IdleStep DEF ReceiveClusters, disk, fresh
<1>6. ASSUME NEW j \in Job, NameCluster(j)
      PROVE  JobsInv'
  BY <1>6, IdleStep DEF NameCluster, disk, fresh
<1>7. ASSUME NEW j \in Job, FailJob(j)
      PROVE  JobsInv'
  BY <1>7, StatusStep DEF FailJob, PutJob, EndTask, fresh, JobsInv, StatusInv
<1>8. ASSUME NEW j \in Job, NEW reached \in Reached,
             FinishJob(j, reached) \/ FinishEmptyJob(j, reached)
      PROVE  JobsInv'
  BY <1>8, PublishStep DEF FinishJob, FinishEmptyJob
<1>9. CASE Restart
  BY <1>9, RestartStep
<1>10. CASE UNCHANGED vars
  BY <1>10, IdleStep DEF vars, disk, fresh, work
<1>11. QED
  BY <1>1, <1>2, <1>3, <1>4, <1>5, <1>6, <1>7, <1>8, <1>9, <1>10 DEF Next, JobStep

\* The invariant of the job table holds in every reachable state.
THEOREM JobsInvariant == Spec => []JobsInv
<1>1. JobsInv /\ [Next]_vars => JobsInv'
  BY StepJobs
<1>2. QED
  BY <1>1, InitJobs, PTL DEF Spec

\* A restart never makes the read model look fresher than it did, after any mix of
\* overlapping, failing and half-published jobs: with the count of the last
\* completed job at most the one in memory, more logs count as new.
THEOREM RestartIsConservative == Spec => RestartConservative
<1>1. JobsInv /\ [Next]_vars =>
          [restarts' # restarts => LogsSince' >= LogsSince /\ (Stale => Stale')]_vars
  <2> SUFFICES ASSUME JobsInv, [Next]_vars, restarts' # restarts
               PROVE  LogsSince' >= LogsSince /\ (Stale => Stale')
    OBVIOUS
  <2>1. Restart
    BY DEF Next, JobStep, JoinScenario, OpenScenario, Record, PostRecompute, PostFails,
           StartJob, ReceiveClusters, NameCluster, FailJob, FinishJob, FinishEmptyJob,
           vars, bounds
  <2>2. Total' = Total
    BY <2>1 DEF Restart, disk, Total, Present
  <2>3. Total \in Nat
    BY TotalIsNat DEF Total
  <2>4. /\ logsAt' = RestoredLogs
        /\ RestoredLogs <= logsAt
        /\ ~lastAt => RestoredLogs = 0
        /\ RestoredLogs \in Nat
        /\ logsAt \in Nat
    BY <2>1, RestoredType DEF Restart, JobsInv, CountInv, JobsTyped
  <2>5. LogsSince' >= LogsSince
    BY <2>2, <2>3, <2>4 DEF LogsSince
  <2>6. Stale => LogsSince' > 0
    BY <2>2, <2>3, <2>4 DEF LogsSince, Stale
  <2>7. QED
    BY <2>5, <2>6 DEF Stale
<1>2. QED
  BY <1>1, JobsInvariant, PTL DEF Spec, RestartConservative

\* A persisted job only ever goes pending, running, completed or failed.
THEOREM StatusAdvances == Spec => StatusOnlyAdvances
<1> DEFINE Advance ==
        \A j \in Job : saved'[j] # saved[j] =>
            \/ saved[j] = "none" /\ saved'[j] = "pending"
            \/ saved[j] = "pending" /\ saved'[j] \in {"running", "completed"}
            \/ saved[j] = "running" /\ saved'[j] \in {"completed", "failed"}
<1>1. JobsInv /\ [Next]_vars => [Advance]_saved
  <2> SUFFICES ASSUME JobsInv, [Next]_vars
               PROVE  Advance \/ UNCHANGED saved
    OBVIOUS
  <2>1. ASSUME NEW j \in Job, NEW s,
               PutJob(j, s),
               \/ saved[j] = "none" /\ s = "pending"
               \/ saved[j] = "pending" /\ s \in {"running", "completed"}
               \/ saved[j] = "running" /\ s \in {"completed", "failed"}
        PROVE  Advance
    BY <2>1 DEF PutJob, JobsInv, JobsTyped
  <2> HIDE DEF Advance
  <2>2. ASSUME NEW j \in Job, PostRecompute(j) \/ PostFails(j)
        PROVE  Advance
    BY <2>1, <2>2 DEF PostRecompute, PostFails
  <2>3. ASSUME NEW j \in Job, StartJob(j) \/ FailJob(j)
        PROVE  Advance
    BY <2>1, <2>3 DEF StartJob, FailJob, JobsInv, StatusInv
  <2>4. ASSUME NEW j \in Job, NEW reached \in Reached,
               FinishJob(j, reached) \/ FinishEmptyJob(j, reached)
        PROVE  Advance
    BY <2>1, <2>4 DEF FinishJob, FinishEmptyJob, JobsInv, StatusInv
  <2>5. QED
    BY <2>2, <2>3, <2>4
       DEF Next, JobStep, JoinScenario, OpenScenario, Record, ReceiveClusters,
           NameCluster, Restart, vars, disk
<1>2. StatusOnlyAdvances <=> [][Advance]_saved
  BY DEF StatusOnlyAdvances
<1>3. QED
  BY <1>1, <1>2, JobsInvariant, PTL DEF Spec

(***************************************************************************)
(* Types. The next index is a number only because the clusters table is     *)
(* finite, and that follows from the finite copies the jobs work on.        *)
(***************************************************************************)
WorkFinite ==
    /\ IsFiniteSet(table)
    /\ IsFiniteSet(storeClusters)
    /\ \A j \in Job : IsFiniteSet(old[j]) /\ IsFiniteSet(todo[j])

TypeInv == TypeOK /\ WorkFinite

\* A finite, non-empty set of indices has a largest one.
LEMMA LargestExists ==
    ASSUME NEW T \in SUBSET Nat, IsFiniteSet(T), T # {}
    PROVE  \E m \in T : \A k \in T : k <= m
<1> DEFINE Top(S) == \E m \in S : \A k \in S : k <= m
           F == {S \in SUBSET T : S # {} /\ ~Top(S)}
<1>1. ASSUME F # {} PROVE FALSE
  <2>1. IsWellFoundedOn(StrictSubsetOrdering(T), SUBSET T)
    <3>1. IsWellFoundedOn(StrictSubsetOrdering(T), FiniteSubsetsOf(T))
      BY FS_StrictSubsetOrderingWellFounded
    <3>2. FiniteSubsetsOf(T) = SUBSET T
      BY FS_FiniteSubsetsOfFinite
    <3> QED
      BY <3>1, <3>2
  <2>2. F \subseteq SUBSET T
    OBVIOUS
  <2>3. PICK S \in F : \A U \in F : ~ (<<U, S>> \in StrictSubsetOrdering(T))
    <3> HIDE DEF F
    <3> QED
      BY <1>1, <2>1, <2>2, WFMin
  <2>4. S \subseteq T /\ S # {} /\ ~Top(S)
    OBVIOUS
  <2>5. PICK x \in S : TRUE
    BY <2>4
  <2>6. S \ {x} \notin F
    BY <2>3, <2>4, <2>5 DEF StrictSubsetOrdering
  <2>7. CASE S \ {x} = {}
    <3>1. \A k \in S : k = x
      BY <2>7
    <3>2. x \in Nat
      BY <2>4, <2>5
    <3> QED
      BY <2>4, <2>5, <3>1, <3>2
  <2>8. CASE S \ {x} # {}
    <3>1. PICK m \in S \ {x} : \A k \in S \ {x} : k <= m
      BY <2>4, <2>6, <2>8
    <3>2. m \in Nat /\ x \in Nat /\ S \subseteq Nat
      BY <2>4, <2>5
    <3>3. CASE x <= m
      BY <2>4, <3>1, <3>2, <3>3
    <3>4. CASE ~(x <= m)
      <4>1. \A k \in S : k <= x
        BY <3>1, <3>2, <3>4
      <4> QED
        BY <2>4, <2>5, <4>1
    <3> QED
      BY <3>3, <3>4
  <2> QED
    BY <2>7, <2>8
<1> QED
  BY <1>1

\* _hydrate_online_clusterer continues above every id it loads.
LEMMA IndexIsAbove ==
    ASSUME NEW T \in SUBSET Nat, IsFiniteSet(T)
    PROVE  IndexAbove(T) \in Nat /\ \A s \in T : s < IndexAbove(T)
<1>1. CASE T = {}
  BY <1>1 DEF IndexAbove
<1>2. CASE T # {}
  <2> DEFINE m == CHOOSE m \in T : \A k \in T : k <= m
  <2>1. m \in T /\ \A k \in T : k <= m
    BY <1>2, LargestExists
  <2>2. m \in Nat
    BY <2>1
  <2>3. IndexAbove(T) = 1 + m
    BY <1>2 DEF IndexAbove
  <2> HIDE DEF m
  <2> QED
    BY <2>1, <2>2, <2>3
<1> QED
  BY <1>1, <1>2

\* The scenarios a clustering found.
FoundIn(f, S) == {f[r] : r \in S} \ {Outlier}

\* A clustering uses finitely many indices, and gives nothing to rows outside its copy.
LEMMA ClusteringTyped ==
    ASSUME NEW S \in SUBSET Request, NEW oldIds \in SUBSET Nat, IsFiniteSet(oldIds),
           NEW f \in Clusterings(S, oldIds)
    PROVE  /\ f \in [Request -> Row]
           /\ FoundIn(f, S) \subseteq Nat
           /\ IsFiniteSet(FoundIn(f, S))
<1>1. PICK ids \in IdSets(oldIds, MaxClusters) :
         /\ f \in [Request -> ids \cup {Absent, Outlier}]
         /\ \A r \in Request : f[r] = Absent <=> r \notin S
  BY DEF Clusterings
<1>2. PICK M \in SUBSET oldIds, n \in 0 .. MaxClusters : ids = M \cup FreeIndices(M, n)
  BY DEF IdSets
<1>3. IsFiniteSet(M) /\ Cardinality(M) \in Nat
  BY FS_Subset, FS_CardinalityType
<1>4. n \in Nat
  BY RecomputeAssumption
<1>5. FreeIndices(M, n) \in SUBSET (0 .. n + Cardinality(M)) /\ IsFiniteSet(0 .. n + Cardinality(M))
  <2>1. FreeIndices(M, n) \in SUBSET (0 .. n + Cardinality(M))
    BY DEF FreeIndices
  <2> DEFINE b == n + Cardinality(M)
  <2>2. b \in Int
    BY <1>3, <1>4
  <2> HIDE DEF b
  <2>3. IsFiniteSet(0 .. b)
    BY <2>2, FS_Interval
  <2> QED
    BY <2>1, <2>3 DEF b
<1>6. IsFiniteSet(FreeIndices(M, n)) /\ FreeIndices(M, n) \subseteq Nat
  BY <1>3, <1>4, <1>5, FS_Subset
<1>7. IsFiniteSet(ids) /\ ids \subseteq Nat
  BY <1>2, <1>3, <1>6, FS_Union
<1>8. FoundIn(f, S) \in SUBSET ids
  BY <1>1 DEF FoundIn
<1>9. IsFiniteSet(FoundIn(f, S))
  BY <1>7, <1>8, FS_Subset
<1> QED
  BY <1>1, <1>7, <1>8, <1>9 DEF Row, Scenario

LEMMA ClusteringCovers ==
    ASSUME NEW S \in SUBSET Request, NEW oldIds \in SUBSET Nat, NEW f \in Clusterings(S, oldIds)
    PROVE  \A r \in Request : f[r] = Absent <=> r \notin S
  BY DEF Clusterings

LEMMA PresentType == Present \in SUBSET Request /\ IsFiniteSet(Present)
  BY RecomputeAssumption, FS_Subset DEF Present

\* The scenarios of a row are laid over the earlier ones.
LEMMA OverlayType ==
    ASSUME NEW f \in [Request -> Row], NEW g \in [Request -> Row]
    PROVE  /\ Overlay(f, g) \in [Request -> Row]
           /\ \A r \in Request : Overlay(f, g)[r] = IF g[r] = Absent THEN f[r] ELSE g[r]
  BY DEF Overlay

LEMMA InitTyped == Init => TypeInv
<1> SUFFICES ASSUME Init PROVE TypeInv
  OBVIOUS
<1>1. NoRows \in [Request -> Row]
  BY DEF NoRows, Row
<1>2. /\ [j \in Job |-> {}] \in [Job -> SUBSET Request]
      /\ [j \in Job |-> {}] \in [Job -> SUBSET Scenario]
      /\ [j \in Job |-> NoRows] \in [Job -> [Request -> Row]]
      /\ [j \in Job |-> "none"] \in [Job -> Status]
      /\ [j \in Job |-> "none"] \in [Job -> {"none", "queued", "clustering", "naming", "done"}]
      /\ [j \in Job |-> 0] \in [Job -> Nat]
  BY <1>1 DEF Status
<1>4. TypeOK
  <2>1. /\ rows \in [Request -> Row] /\ storeRows \in [Request -> Row]
        /\ saved \in [Job -> Status] /\ jobs \in [Job -> Status] /\ savedLogs \in [Job -> Nat]
        /\ task \in [Job -> {"none", "queued", "clustering", "naming", "done"}]
    BY <1>1, <1>2 DEF Init
  <2>2. /\ snap \in [Job -> SUBSET Request] /\ old \in [Job -> SUBSET Scenario]
        /\ todo \in [Job -> SUBSET Scenario] /\ found \in [Job -> [Request -> Row]]
    BY <1>2 DEF Init
  <2>3. /\ table \subseteq Scenario /\ storeClusters \subseteq Scenario /\ online \subseteq Scenario
        /\ clustered \subseteq Request /\ late \subseteq Request
        /\ lastCompleted \in Job \cup {NoJob}
    BY DEF Init
  <2>4. lastAt \in BOOLEAN /\ overlapped \in BOOLEAN
    BY DEF Init
  <2>5. logsAt \in Nat /\ nextIndex \in Nat /\ {postFails, faults, restarts} \subseteq Nat
    BY DEF Init
  <2> QED
    BY <2>1, <2>2, <2>3, <2>4, <2>5 DEF TypeOK
<1>3. WorkFinite
  BY FS_EmptySet DEF Init, WorkFinite
<1> QED
  BY <1>3, <1>4 DEF TypeInv

\* What a publication does to the types.
LEMMA PublishTyped ==
    ASSUME TypeInv, NEW j \in Job, NEW reached \in Reached,
           storeRows' \in [Request -> Row],
           storeClusters' \subseteq Nat, IsFiniteSet(storeClusters'),
           PutJob(j, "completed"), lastCompleted' = j, Publish(j, reached), EndTask(j),
           UNCHANGED <<late, overlapped, postFails, restarts>>
    PROVE  TypeInv'
<1>1. NoRows \in [Request -> Row]
  BY DEF NoRows, Row
<1>2. rows' \in [Request -> Row]
  BY OverlayType DEF Publish, TypeInv, TypeOK
<1>3. table' \subseteq Nat /\ IsFiniteSet(table')
  <2>1. PICK part \in SUBSET storeClusters' : table' = table \cup part
    BY DEF Publish, UpsertClusters
  <2>2. IsFiniteSet(part)
    BY <2>1, FS_Subset
  <2>3. IsFiniteSet(table \cup part)
    BY <2>2, FS_Union DEF TypeInv, WorkFinite
  <2> QED
    BY <2>1, <2>3 DEF TypeInv, TypeOK, Scenario
<1>4. clustered' \subseteq Request
  BY DEF Publish, TypeInv, TypeOK
<1>5. /\ lastAt' \in BOOLEAN /\ logsAt' \in Nat
      /\ savedLogs' \in [Job -> Nat]
      /\ faults' \in Nat
  <2>1. /\ lastAt \in BOOLEAN /\ logsAt \in Nat /\ savedLogs \in [Job -> Nat] /\ faults \in Nat
    BY DEF TypeInv, TypeOK
  <2>2. CASE reached = "all"
    <3>1. /\ lastAt' = TRUE /\ logsAt' = Cardinality(Present) /\ faults' = faults
          /\ savedLogs' = [savedLogs EXCEPT ![j] = Cardinality(Present)]
      BY <2>2 DEF Publish
    <3> QED
      BY <2>1, <3>1, TotalIsNat
  <2>3. CASE reached # "all"
    <3>1. /\ lastAt' = lastAt /\ logsAt' = logsAt /\ faults' = faults + 1 /\ savedLogs' = savedLogs
      BY <2>3 DEF Publish, fresh
    <3> QED
      BY <2>1, <3>1
  <2> QED
    BY <2>2, <2>3
<1>6. online' \subseteq Nat /\ nextIndex' \in Nat
  <2>1. CASE reached = "all"
    BY <1>3, <2>1, IndexIsAbove DEF Publish, Hydrate
  <2>2. CASE reached # "all"
    BY <2>2 DEF Publish, clusterer, TypeInv, TypeOK, Scenario
  <2> QED
    BY <2>1, <2>2
<1>7. /\ saved' \in [Job -> Status] /\ jobs' \in [Job -> Status]
      /\ task' \in [Job -> {"none", "queued", "clustering", "naming", "done"}]
      /\ snap' \in [Job -> SUBSET Request]
      /\ old' \in [Job -> SUBSET Scenario] /\ todo' \in [Job -> SUBSET Scenario]
      /\ found' \in [Job -> [Request -> Row]]
  BY <1>1 DEF PutJob, EndTask, TypeInv, TypeOK, Status
<1>8. \A k \in Job : IsFiniteSet(old'[k]) /\ IsFiniteSet(todo'[k])
  BY FS_EmptySet DEF EndTask, TypeInv, TypeOK, WorkFinite
<1>9. TypeOK'
  BY <1>2, <1>3, <1>4, <1>5, <1>6, <1>7 DEF TypeInv, TypeOK, Scenario
<1> QED
  BY <1>3, <1>8, <1>9 DEF TypeInv, WorkFinite

LEMMA StepTyped == TypeInv /\ [Next]_vars => TypeInv'
<1> SUFFICES ASSUME TypeInv, [Next]_vars PROVE TypeInv'
  OBVIOUS
<1> USE DEF Status, Scenario
<1>0. NoRows \in [Request -> Row]
  BY DEF NoRows, Row
<1>1. ASSUME NEW r \in Request, NEW s \in online, JoinScenario(r, s) PROVE TypeInv'
  <2>1. s \in Row
    BY DEF Row, TypeInv, TypeOK
  <2>2. rows' \in [Request -> Row] /\ late' \subseteq Request
    BY <1>1, <2>1 DEF JoinScenario, Record, TypeInv, TypeOK
  <2> QED
    BY <1>1, <2>2 DEF JoinScenario, Record, store, fresh, clusterer, work, bounds, TypeInv, TypeOK, WorkFinite
<1>2. ASSUME NEW r \in Request, OpenScenario(r) PROVE TypeInv'
  <2>1. nextIndex \in Row /\ nextIndex \in Nat
    BY DEF Row, TypeInv, TypeOK
  <2>2. rows' \in [Request -> Row] /\ late' \subseteq Request
    BY <1>2, <2>1 DEF OpenScenario, Record, TypeInv, TypeOK
  <2>3. online' \subseteq Nat /\ nextIndex' \in Nat
    BY <1>2, <2>1 DEF OpenScenario, TypeInv, TypeOK
  <2> QED
    BY <1>2, <2>2, <2>3 DEF OpenScenario, Record, store, fresh, work, bounds, TypeInv, TypeOK, WorkFinite
<1>3. ASSUME NEW j \in Job, PostRecompute(j) PROVE TypeInv'
  <2>1. snap' \in [Job -> SUBSET Request]
    BY <1>3, PresentType DEF PostRecompute, TypeInv, TypeOK
  <2> QED
    BY <1>3, <2>1 DEF PostRecompute, PutJob, fresh, clusterer, bounds, TypeInv, TypeOK, WorkFinite
<1>4. ASSUME NEW j \in Job, PostFails(j) PROVE TypeInv'
  BY <1>4 DEF PostFails, PutJob, fresh, clusterer, work, history, TypeInv, TypeOK, WorkFinite
<1>5. ASSUME NEW j \in Job, StartJob(j) PROVE TypeInv'
  <2>1. /\ old' \in [Job -> SUBSET Scenario]
        /\ \A k \in Job : IsFiniteSet(old'[k])
        /\ storeClusters' = {} /\ IsFiniteSet(storeClusters')
    BY <1>5, FS_EmptySet DEF StartJob, TypeInv, TypeOK, WorkFinite
  <2> QED
    BY <1>5, <2>1 DEF StartJob, PutJob, fresh, clusterer, history, bounds, TypeInv, TypeOK, WorkFinite
<1>6. ASSUME NEW j \in Job, ReceiveClusters(j) PROVE TypeInv'
  <2>1. PICK f \in Clusterings(snap[j], old[j]) :
           /\ found' = [found EXCEPT ![j] = f]
           /\ todo' = [todo EXCEPT ![j] = FoundIn(f, snap[j])]
    BY <1>6 DEF ReceiveClusters, FoundIn
  <2>2. snap[j] \in SUBSET Request /\ old[j] \in SUBSET Nat /\ IsFiniteSet(old[j])
    BY DEF TypeInv, TypeOK, WorkFinite
  <2>3. /\ f \in [Request -> Row]
        /\ FoundIn(f, snap[j]) \subseteq Nat
        /\ IsFiniteSet(FoundIn(f, snap[j]))
    BY <2>2, ClusteringTyped
  <2>4. /\ found' \in [Job -> [Request -> Row]]
        /\ todo' \in [Job -> SUBSET Nat]
        /\ \A k \in Job : IsFiniteSet(todo'[k])
    BY <2>1, <2>3 DEF TypeInv, TypeOK, WorkFinite
  <2> QED
    BY <1>6, <2>4 DEF ReceiveClusters, disk, store, fresh, clusterer, history, bounds, TypeInv, TypeOK, WorkFinite
<1>7. ASSUME NEW j \in Job, NameCluster(j) PROVE TypeInv'
  <2>1. PICK s \in todo[j] : /\ todo' = [todo EXCEPT ![j] = @ \ {s}]
                             /\ storeClusters' = storeClusters \cup {s}
    BY <1>7 DEF NameCluster
  <2>2. s \in Nat /\ IsFiniteSet(todo[j]) /\ IsFiniteSet(storeClusters)
    BY DEF TypeInv, TypeOK, WorkFinite
  <2>3. IsFiniteSet(todo[j] \ {s}) /\ IsFiniteSet(storeClusters \cup {s})
    BY <2>2, FS_RemoveElement, FS_AddElement
  <2>4. /\ todo' \in [Job -> SUBSET Nat] /\ storeClusters' \subseteq Nat
        /\ \A k \in Job : IsFiniteSet(todo'[k])
    BY <2>1, <2>2, <2>3 DEF TypeInv, TypeOK, WorkFinite
  <2> QED
    BY <1>7, <2>1, <2>3, <2>4 DEF NameCluster, disk, fresh, clusterer, history, bounds, TypeInv, TypeOK, WorkFinite
<1>8. ASSUME NEW j \in Job, FailJob(j) PROVE TypeInv'
  <2>1. /\ snap' \in [Job -> SUBSET Request]
        /\ old' \in [Job -> SUBSET Scenario] /\ todo' \in [Job -> SUBSET Scenario]
        /\ found' \in [Job -> [Request -> Row]]
        /\ \A k \in Job : IsFiniteSet(old'[k]) /\ IsFiniteSet(todo'[k])
    BY <1>0, <1>8, FS_EmptySet DEF FailJob, EndTask, TypeInv, TypeOK, WorkFinite
  <2> QED
    BY <1>8, <2>1 DEF FailJob, PutJob, EndTask, fresh, clusterer, history, TypeInv, TypeOK, WorkFinite
<1>9. ASSUME NEW j \in Job, NEW reached \in Reached, FinishJob(j, reached) PROVE TypeInv'
  <2>1. storeRows' \in [Request -> Row]
    BY <1>9, OverlayType DEF FinishJob, TypeInv, TypeOK
  <2>2. storeClusters' \subseteq Nat /\ IsFiniteSet(storeClusters')
    <3>1. IsFiniteSet(storeClusters \cup todo[j])
      BY FS_Union DEF TypeInv, WorkFinite
    <3> QED
      BY <1>9, <3>1 DEF FinishJob, TypeInv, TypeOK
  <2> QED
    BY <1>9, <2>1, <2>2, PublishTyped DEF FinishJob
<1>10. ASSUME NEW j \in Job, NEW reached \in Reached, FinishEmptyJob(j, reached) PROVE TypeInv'
  <2>1. /\ storeRows' \in [Request -> Row]
        /\ storeClusters' \subseteq Nat /\ IsFiniteSet(storeClusters')
    BY <1>10 DEF FinishEmptyJob, TypeInv, TypeOK, WorkFinite
  <2> QED
    BY <1>10, <2>1, PublishTyped DEF FinishEmptyJob
<1>11. CASE Restart
  <2>1. online' \subseteq Nat /\ nextIndex' \in Nat
    BY <1>11, IndexIsAbove DEF Restart, Hydrate, TypeInv, TypeOK, WorkFinite
  <2>2. logsAt' \in Nat
    BY <1>11 DEF Restart, RestoredLogs, TypeInv, TypeOK
  <2>3. \A k \in Job : IsFiniteSet(old'[k]) /\ IsFiniteSet(todo'[k])
    BY <1>11, FS_EmptySet DEF Restart
  <2>4. IsFiniteSet(storeClusters') /\ storeClusters' = {}
    BY <1>11, FS_EmptySet DEF Restart
  <2>5. /\ jobs' \in [Job -> Status]
        /\ task' \in [Job -> {"none", "queued", "clustering", "naming", "done"}]
        /\ snap' \in [Job -> SUBSET Request]
        /\ old' \in [Job -> SUBSET Scenario] /\ todo' \in [Job -> SUBSET Scenario]
        /\ found' \in [Job -> [Request -> Row]]
        /\ storeRows' \in [Request -> Row]
        /\ lastAt' \in BOOLEAN /\ restarts' \in Nat
    BY <1>0, <1>11 DEF Restart, TypeInv, TypeOK
  <2> QED
    BY <1>11, <2>1, <2>2, <2>3, <2>4, <2>5 DEF Restart, disk, history, TypeInv, TypeOK, WorkFinite
<1>12. CASE UNCHANGED vars
  BY <1>12 DEF vars, disk, store, fresh, clusterer, work, history, bounds, TypeInv, TypeOK, WorkFinite
<1> QED
  BY <1>1, <1>2, <1>3, <1>4, <1>5, <1>6, <1>7, <1>8, <1>9, <1>10, <1>11, <1>12 DEF Next, JobStep

\* Every reachable state is well typed, and tables and work lists stay finite.
THEOREM TypeInvariant == Spec => []TypeInv
<1> QED
  BY InitTyped, StepTyped, PTL DEF Spec

\* The tables, the shared store, the clusterer and the jobs keep their types, and the
\* next index is one: post_recompute, RecomputeJob.run and the start-up included.
THEOREM TypeCorrect == Spec => []TypeOK
<1>1. TypeInv => TypeOK
  BY DEF TypeInv
<1> QED
  BY <1>1, TypeInvariant, PTL

(***************************************************************************)
(* The clusterer and the clusters table. A publication that breaks off is   *)
(* counted as a fault, so without faults both are written together.         *)
(***************************************************************************)
LEMMA OnlineStep == TypeInv /\ TypeInv' /\ OnlineKnowsTable /\ [Next]_vars => OnlineKnowsTable'
<1> SUFFICES ASSUME TypeInv, TypeInv', OnlineKnowsTable, [Next]_vars PROVE OnlineKnowsTable'
  OBVIOUS
<1>0. /\ faults \in Nat /\ nextIndex \in Nat /\ online \subseteq Nat
      /\ table \in SUBSET Nat /\ IsFiniteSet(table)
      /\ table' \in SUBSET Nat /\ IsFiniteSet(table')
  BY DEF TypeInv, TypeOK, WorkFinite, Scenario
<1>1. ASSUME UNCHANGED <<table, clusterer, faults>> PROVE OnlineKnowsTable'
  BY <1>1 DEF OnlineKnowsTable, clusterer
<1>2. ASSUME NEW r \in Request, OpenScenario(r) PROVE OnlineKnowsTable'
  BY <1>0, <1>2 DEF OpenScenario, Record, bounds, OnlineKnowsTable
<1>3. ASSUME NEW j \in Job, FailJob(j) PROVE OnlineKnowsTable'
  BY <1>0, <1>3 DEF FailJob, OnlineKnowsTable
<1>4. ASSUME NEW j \in Job, NEW reached \in Reached, Publish(j, reached) PROVE OnlineKnowsTable'
  <2>1. CASE reached = "all"
    BY <1>0, <1>4, <2>1, IndexIsAbove DEF Publish, Hydrate, OnlineKnowsTable
  <2>2. CASE reached # "all"
    BY <1>0, <1>4, <2>2 DEF Publish, OnlineKnowsTable
  <2> QED
    BY <2>1, <2>2
<1>5. CASE Restart
  BY <1>0, <1>5, IndexIsAbove DEF Restart, Hydrate, disk, OnlineKnowsTable
<1>6. ASSUME NEW r \in Request, NEW s \in online, JoinScenario(r, s) PROVE OnlineKnowsTable'
  BY <1>1, <1>6 DEF JoinScenario, Record, bounds
<1>7. ASSUME NEW j \in Job, PostRecompute(j) \/ PostFails(j) \/ StartJob(j) \/ ReceiveClusters(j) \/ NameCluster(j)
      PROVE  OnlineKnowsTable'
  BY <1>1, <1>7 DEF PostRecompute, PostFails, StartJob, ReceiveClusters, NameCluster, disk, bounds
<1>8. CASE UNCHANGED vars
  BY <1>1, <1>8 DEF vars, disk, bounds
<1> QED
  BY <1>2, <1>3, <1>4, <1>5, <1>6, <1>7, <1>8 DEF Next, JobStep, FinishJob, FinishEmptyJob

\* The online path knows every published scenario and opens new ones above all of them,
\* after any number of overlapping jobs and restarts, while no publication breaks off.
THEOREM OnlineIsInStep == Spec => []OnlineKnowsTable
<1>1. Init => OnlineKnowsTable
  BY DEF Init, OnlineKnowsTable
<1> QED
  BY <1>1, OnlineStep, TypeInvariant, PTL DEF Spec

(***************************************************************************)
(* What a fresh read model has seen. A row missing from a job's copy came   *)
(* while the job was under way; once the counts agree, no row came after    *)
(* the publication.                                                         *)
(***************************************************************************)
CopyInv ==
    /\ \A r \in Request : storeRows[r] # Absent => r \in Present
    /\ clustered \subseteq Present
    /\ \A j \in Job : Alive(j) => snap[j] \subseteq Present /\ Present \ snap[j] \subseteq late
    /\ \A j \in Job : task[j] = "naming" =>
          \A r \in Request : found[j][r] = Absent <=> r \notin snap[j]
SeenInv ==
    /\ logsAt <= Cardinality(Present)
    /\ logsAt = Cardinality(Present) => Present \subseteq clustered \cup late
FreshInv == CopyInv /\ SeenInv

LEMMA InitFresh == Init => FreshInv
<1> SUFFICES ASSUME Init PROVE FreshInv
  OBVIOUS
<1>1. Present = {} /\ Cardinality(Present) = 0
  BY FS_EmptySet DEF Init, Present, NoRows
<1>2. CopyInv
  BY <1>1 DEF Init, CopyInv, Alive, NoRows
<1> QED
  BY <1>1, <1>2 DEF Init, SeenInv, FreshInv

\* A new row makes the counts differ, and is late if a job is under way.
LEMMA RecordFresh ==
    ASSUME TypeInv, FreshInv, NEW r \in Request, NEW s \in Nat, Record(r, s)
    PROVE  FreshInv'
<1> DEFINE P == Present
<1>1. /\ rows[r] = Absent /\ rows' = [rows EXCEPT ![r] = s] /\ s # Absent
      /\ rows \in [Request -> Row]
  BY RecomputeAssumption DEF Record, TypeInv, TypeOK, Scenario
<1>2. r \notin P /\ Present' = P \cup {r}
  BY <1>1 DEF Present
<1>3. IsFiniteSet(P) /\ Cardinality(P) \in Nat
  BY PresentType, FS_CardinalityType
<1>4. Cardinality(Present') = Cardinality(P) + 1
  <2> HIDE DEF P
  <2>1. Cardinality(P \cup {r}) = Cardinality(P) + 1
    BY <1>2, <1>3, FS_AddElement
  <2> QED
    BY <1>2, <2>1
<1>5. /\ storeRows' = storeRows /\ clustered' = clustered /\ snap' = snap /\ task' = task
      /\ found' = found /\ logsAt' = logsAt
      /\ late' = IF \E j \in Job : Alive(j) THEN late \cup {r} ELSE late
  BY DEF Record, store, work, fresh
<1>6. \A j \in Job : Alive(j)' <=> Alive(j)
  BY <1>5 DEF Alive
<1>7. CopyInv'
  <2>1. \A q \in Request : storeRows'[q] # Absent => q \in Present'
    BY <1>2, <1>5 DEF FreshInv, CopyInv
  <2>2. clustered' \subseteq Present'
    BY <1>2, <1>5 DEF FreshInv, CopyInv
  <2>3. \A j \in Job : Alive(j)' => snap'[j] \subseteq Present' /\ Present' \ snap'[j] \subseteq late'
    BY <1>2, <1>5, <1>6 DEF FreshInv, CopyInv
  <2>4. \A j \in Job : task'[j] = "naming" =>
           \A q \in Request : found'[j][q] = Absent <=> q \notin snap'[j]
    BY <1>5 DEF FreshInv, CopyInv
  <2> QED
    BY <2>1, <2>2, <2>3, <2>4 DEF CopyInv
<1>8. logsAt \in Nat /\ logsAt <= Cardinality(P)
  BY DEF TypeInv, TypeOK, FreshInv, SeenInv
<1>9. SeenInv'
  BY <1>3, <1>4, <1>5, <1>8 DEF SeenInv
<1> QED
  BY <1>7, <1>9 DEF FreshInv

\* A publication writes rows that are there, those of its copy among them.
LEMMA PublishFresh ==
    ASSUME TypeInv, TypeInv', FreshInv, NEW j \in Job, NEW reached \in Reached,
           \/ FinishJob(j, reached)
           \/ FinishEmptyJob(j, reached)
    PROVE  FreshInv'
<1>0. /\ rows \in [Request -> Row] /\ storeRows \in [Request -> Row]
      /\ storeRows' \in [Request -> Row] /\ rows' \in [Request -> Row]
      /\ found[j] \in [Request -> Row] /\ task \in [Job -> {"none", "queued", "clustering", "naming", "done"}]
      /\ snap[j] \subseteq Request /\ late \subseteq Request
  BY DEF TypeInv, TypeOK
<1>1. /\ Publish(j, reached) /\ EndTask(j) /\ late' = late /\ Alive(j)
  BY DEF FinishJob, FinishEmptyJob, Alive
<1>2. /\ snap[j] \subseteq Present /\ Present \ snap[j] \subseteq late
      /\ \A r \in Request : storeRows[r] # Absent => r \in Present
      /\ clustered \subseteq Present
  BY <1>1 DEF FreshInv, CopyInv
<1>3. /\ \A r \in Request : storeRows'[r] # Absent => r \in Present
      /\ \A r \in snap[j] : storeRows'[r] # Absent
  <2>1. CASE FinishJob(j, reached)
    <3>1. /\ storeRows' = Overlay(storeRows, found[j])
          /\ \A r \in Request : found[j][r] = Absent <=> r \notin snap[j]
      BY <2>1 DEF FinishJob, FreshInv, CopyInv
    <3>2. \A r \in Request : storeRows'[r] = IF found[j][r] = Absent THEN storeRows[r] ELSE found[j][r]
      BY <3>1 DEF Overlay
    <3> QED
      BY <1>0, <1>2, <3>1, <3>2
  <2>2. CASE FinishEmptyJob(j, reached)
    BY <1>2, <2>2 DEF FinishEmptyJob
  <2> QED
    BY <2>1, <2>2
<1>4. Present' = Present
  <2>1. \A r \in Request : rows'[r] = Absent <=> rows[r] = Absent
    <3>1. CASE reached = "nothing"
      BY <1>1, <3>1 DEF Publish
    <3>2. CASE reached # "nothing"
      <4>1. rows' = Overlay(rows, storeRows')
        BY <1>1, <3>2 DEF Publish
      <4>2. \A r \in Request : rows'[r] = IF storeRows'[r] = Absent THEN rows[r] ELSE storeRows'[r]
        BY <4>1 DEF Overlay
      <4> QED
        BY <1>3, <4>2 DEF Present
    <3> QED
      BY <3>1, <3>2
  <2> QED
    BY <2>1 DEF Present
<1>5. clustered \subseteq clustered' /\ clustered' \subseteq Present
  BY <1>1, <1>2, <1>3 DEF Publish
<1>6. \A k \in Job : /\ Alive(k)' => Alive(k) /\ k # j
                     /\ k # j => snap'[k] = snap[k] /\ found'[k] = found[k] /\ task'[k] = task[k]
                     /\ task'[j] = "done"
  BY <1>0, <1>1 DEF EndTask, Alive, TypeInv, TypeOK
<1>7. CopyInv'
  <2>1. \A k \in Job : Alive(k)' => snap'[k] \subseteq Present' /\ Present' \ snap'[k] \subseteq late'
    BY <1>1, <1>4, <1>6 DEF FreshInv, CopyInv
  <2>2. \A k \in Job : task'[k] = "naming" =>
            \A r \in Request : found'[k][r] = Absent <=> r \notin snap'[k]
    BY <1>6 DEF FreshInv, CopyInv
  <2>3. \A r \in Request : storeRows'[r] # Absent => r \in Present'
    BY <1>3, <1>4
  <2> QED
    BY <1>4, <1>5, <2>1, <2>2, <2>3 DEF CopyInv
<1>8. SeenInv'
  <2>1. CASE reached = "all"
    <3>1. logsAt' = Cardinality(Present) /\ snap[j] \subseteq clustered'
      BY <1>0, <1>1, <1>3, <2>1 DEF Publish
    <3>2. Present \subseteq clustered' \cup late'
      BY <1>1, <1>2, <3>1
    <3>3. Cardinality(Present) \in Nat
      BY TotalIsNat
    <3> QED
      BY <1>4, <3>1, <3>2, <3>3 DEF SeenInv
  <2>2. CASE reached # "all"
    <3>1. logsAt' = logsAt
      BY <1>1, <2>2 DEF Publish, fresh
    <3> QED
      BY <1>1, <1>4, <1>5, <3>1 DEF FreshInv, SeenInv
  <2> QED
    BY <2>1, <2>2
<1> QED
  BY <1>7, <1>8 DEF FreshInv

\* Steps that leave the rows and counts alone and start or move one job.
LEMMA MoveFresh ==
    ASSUME TypeInv, FreshInv,
           UNCHANGED <<rows, storeRows, clustered, late, logsAt>>,
           \A j \in Job : Alive(j)' => \/ Alive(j) /\ snap'[j] = snap[j]
                                       \/ snap'[j] = Present,
           \A j \in Job : task'[j] = "naming" =>
              \/ task[j] = "naming" /\ found'[j] = found[j] /\ snap'[j] = snap[j]
              \/ \A r \in Request : found'[j][r] = Absent <=> r \notin snap'[j]
    PROVE  FreshInv'
<1>1. Present' = Present
  BY DEF Present
<1>2. \A j \in Job : Alive(j)' => snap'[j] \subseteq Present /\ Present \ snap'[j] \subseteq late
  BY DEF FreshInv, CopyInv
<1>3. \A j \in Job : task'[j] = "naming" =>
          \A r \in Request : found'[j][r] = Absent <=> r \notin snap'[j]
  BY DEF FreshInv, CopyInv
<1>4. CopyInv'
  BY <1>1, <1>2, <1>3 DEF FreshInv, CopyInv
<1> QED
  BY <1>1, <1>4 DEF FreshInv, SeenInv

LEMMA StepFresh == TypeInv /\ TypeInv' /\ JobsInv /\ FreshInv /\ [Next]_vars => FreshInv'
<1> SUFFICES ASSUME TypeInv, TypeInv', JobsInv, FreshInv, [Next]_vars PROVE FreshInv'
  OBVIOUS
<1>0. /\ task \in [Job -> {"none", "queued", "clustering", "naming", "done"}]
      /\ snap \in [Job -> SUBSET Request] /\ found \in [Job -> [Request -> Row]]
      /\ old \in [Job -> SUBSET Nat] /\ \A k \in Job : IsFiniteSet(old[k])
  BY DEF TypeInv, TypeOK, WorkFinite, Scenario
<1>1. ASSUME NEW r \in Request, NEW s \in online, JoinScenario(r, s) PROVE FreshInv'
  BY <1>1, RecordFresh DEF JoinScenario, TypeInv, TypeOK, Scenario
<1>2. ASSUME NEW r \in Request, OpenScenario(r) PROVE FreshInv'
  BY <1>2, RecordFresh DEF OpenScenario, TypeInv, TypeOK
<1>3. ASSUME NEW j \in Job, PostRecompute(j) PROVE FreshInv'
  BY <1>0, <1>3, MoveFresh DEF PostRecompute, fresh, Alive
<1>4. ASSUME NEW j \in Job, PostFails(j) PROVE FreshInv'
  BY <1>0, <1>4, MoveFresh DEF PostFails, fresh, work, history, Alive
<1>5. ASSUME NEW j \in Job, StartJob(j) PROVE FreshInv'
  BY <1>0, <1>5, MoveFresh DEF StartJob, fresh, history, Alive
<1>6. ASSUME NEW j \in Job, ReceiveClusters(j) PROVE FreshInv'
  <2>1. PICK f \in Clusterings(snap[j], old[j]) : found' = [found EXCEPT ![j] = f]
    BY <1>6 DEF ReceiveClusters
  <2>2. \A r \in Request : f[r] = Absent <=> r \notin snap[j]
    <3>1. snap[j] \in SUBSET Request /\ old[j] \in SUBSET Nat
      BY <1>0
    <3> QED
      BY <3>1, ClusteringCovers
  <2>3. /\ found'[j] = f
        /\ \A k \in Job : k # j => found'[k] = found[k]
    BY <1>0, <2>1
  <2>4. /\ snap' = snap /\ task' = [task EXCEPT ![j] = "naming"] /\ task[j] = "clustering"
        /\ UNCHANGED <<rows, storeRows, clustered, late, logsAt>>
    BY <1>6 DEF ReceiveClusters, disk, store, fresh, history
  <2> QED
    BY <1>0, <2>2, <2>3, <2>4, MoveFresh DEF Alive
<1>7. ASSUME NEW j \in Job, NameCluster(j) PROVE FreshInv'
  BY <1>0, <1>7, MoveFresh DEF NameCluster, disk, fresh, history, Alive
<1>8. ASSUME NEW j \in Job, FailJob(j) PROVE FreshInv'
  BY <1>0, <1>8, MoveFresh DEF FailJob, EndTask, fresh, history, Alive
<1>9. ASSUME NEW j \in Job, NEW reached \in Reached,
             FinishJob(j, reached) \/ FinishEmptyJob(j, reached) PROVE FreshInv'
  BY <1>9, PublishFresh
<1>10. CASE Restart
  <2>1. /\ Present' = Present /\ clustered' = clustered /\ late' = late
        /\ storeRows' = NoRows /\ logsAt' = RestoredLogs
        /\ \A k \in Job : ~Alive(k)' /\ task'[k] # "naming"
    BY <1>0, <1>10 DEF Restart, disk, history, Present, Alive
  <2>2. CopyInv'
    BY <2>1 DEF FreshInv, CopyInv, NoRows
  <2>3. /\ RestoredLogs <= logsAt /\ RestoredLogs \in Nat /\ logsAt \in Nat
        /\ logsAt <= Cardinality(Present) /\ Cardinality(Present) \in Nat
    BY RestoredType, TotalIsNat DEF JobsInv, JobsTyped, CountInv, FreshInv, SeenInv
  <2>4. SeenInv'
    BY <2>1, <2>3 DEF FreshInv, SeenInv
  <2> QED
    BY <2>2, <2>4 DEF FreshInv
<1>11. CASE UNCHANGED vars
  BY <1>0, <1>11, MoveFresh DEF vars, disk, store, fresh, work, history, Alive
<1> QED
  BY <1>1, <1>2, <1>3, <1>4, <1>5, <1>6, <1>7, <1>8, <1>9, <1>10, <1>11 DEF Next, JobStep

\* The strengthening: what a job's copy lacks is late, and equal counts mean that every
\* row was published or late.
THEOREM FreshInvariant == Spec => []FreshInv
<1> QED
  BY InitFresh, StepFresh, TypeInvariant, JobsInvariant, PTL DEF Spec

\* A read model reported as fresh has seen every row but those that came while a job was
\* under way, whatever jobs overlap, fail and are cut off by restarts.
THEOREM FreshIsFresh == Spec => []FreshUnlessLate
<1>1. TypeInv /\ FreshInv => FreshUnlessLate
  <2> SUFFICES ASSUME TypeInv, FreshInv, lastAt, ~Stale PROVE Present \subseteq clustered \cup late
    BY DEF FreshUnlessLate
  <2>1. Cardinality(Present) \in Nat /\ logsAt \in Nat
    BY TotalIsNat DEF TypeInv, TypeOK
  <2>2. logsAt = Cardinality(Present)
    BY <2>1 DEF Stale, LogsSince, Total, FreshInv, SeenInv
  <2> QED
    BY <2>2 DEF FreshInv, SeenInv
<1> QED
  BY <1>1, TypeInvariant, FreshInvariant, PTL

(***************************************************************************)
(* Published scenarios. While jobs do not overlap, what a job has found is  *)
(* still to be named or in the store, so a whole publication writes rows    *)
(* and clusters that fit together, also those of earlier jobs.              *)
(***************************************************************************)
OneJob == ~overlapped => \A j, k \in Job : Alive(j) /\ Alive(k) => j = k
FoundInv ==
    faults = 0 /\ ~overlapped =>
        /\ \A r \in Request : storeRows[r] \in Scenario => storeRows[r] \in table
        /\ \A j \in Job : task[j] = "naming" =>
              \A r \in Request : found[j][r] \in Scenario => found[j][r] \in todo[j] \cup storeClusters
DanglingInv == OneJob /\ FoundInv /\ NoDanglingScenario

LEMMA InitDangling == Init => DanglingInv
<1> SUFFICES ASSUME Init PROVE DanglingInv
  OBVIOUS
<1>1. OneJob
  BY DEF Init, OneJob, Alive
<1>2. FoundInv
  BY RecomputeAssumption DEF Init, FoundInv, NoRows
<1>3. NoDanglingScenario
  BY DEF Init, NoDanglingScenario
<1> QED
  BY <1>1, <1>2, <1>3 DEF DanglingInv

\* Steps that write neither rows nor tables and remove nothing a job has found.
LEMMA MoveDangling ==
    ASSUME TypeInv, TypeInv', DanglingInv,
           faults' = 0 => faults = 0,
           ~overlapped' => ~overlapped /\ \A j, k \in Job : Alive(j)' /\ Alive(k)' => j = k,
           UNCHANGED <<rows, table, storeRows, clustered>>,
           faults' = 0 /\ ~overlapped' => \A j \in Job : task'[j] = "naming" =>
              \A r \in Request : found'[j][r] \in Scenario => found'[j][r] \in todo'[j] \cup storeClusters'
    PROVE  DanglingInv'
<1>1. OneJob'
  BY DEF OneJob
<1>2. FoundInv'
  BY DEF DanglingInv, FoundInv
<1>3. NoDanglingScenario'
  BY DEF DanglingInv, NoDanglingScenario
<1> QED
  BY <1>1, <1>2, <1>3 DEF DanglingInv

\* A publication of a job that ran alone, and without a fault so far.
LEMMA PublishDangling ==
    ASSUME TypeInv, TypeInv', FreshInv, DanglingInv, NEW j \in Job, NEW reached \in Reached,
           \/ FinishJob(j, reached)
           \/ FinishEmptyJob(j, reached)
    PROVE  DanglingInv'
<1>0. /\ rows \in [Request -> Row] /\ storeRows \in [Request -> Row]
      /\ task \in [Job -> {"none", "queued", "clustering", "naming", "done"}]
      /\ faults \in Nat /\ clustered \subseteq Request
  BY DEF TypeInv, TypeOK
<1>1. /\ Publish(j, reached) /\ EndTask(j) /\ overlapped' = overlapped /\ Alive(j)
  BY DEF FinishJob, FinishEmptyJob, Alive
<1>2. \A k \in Job : /\ Alive(k)' => Alive(k) /\ k # j
                     /\ task'[k] = "naming" => k # j /\ task[k] = "naming"
  BY <1>0, <1>1 DEF EndTask, Alive
<1>3. OneJob'
  BY <1>1, <1>2 DEF DanglingInv, OneJob
<1>4. faults' = 0 => faults = 0 /\ reached = "all"
  BY <1>0, <1>1 DEF Publish
<1> SUFFICES ASSUME faults' = 0, ~overlapped' PROVE FoundInv' /\ NoDanglingScenario'
  BY <1>3 DEF DanglingInv, FoundInv, NoDanglingScenario
<1>5. faults = 0 /\ ~overlapped /\ reached = "all"
  BY <1>1, <1>4
<1>6. \A k \in Job : ~Alive(k)'
  BY <1>1, <1>2, <1>5 DEF DanglingInv, OneJob
<1>7. /\ table' = table \cup storeClusters'
      /\ rows' = Overlay(rows, storeRows')
      /\ clustered' = clustered \cup {r \in Request : storeRows'[r] # Absent}
  BY <1>1, <1>5 DEF Publish, UpsertClusters
<1>8. \A r \in Request : storeRows'[r] \in Scenario => storeRows'[r] \in table'
  <2>1. CASE FinishJob(j, reached)
    <3>1. /\ storeRows' = Overlay(storeRows, found[j])
          /\ storeClusters' = storeClusters \cup todo[j]
          /\ \A r \in Request : found[j][r] \in Scenario => found[j][r] \in todo[j] \cup storeClusters
      BY <1>5, <2>1 DEF FinishJob, DanglingInv, FoundInv
    <3>2. \A r \in Request : storeRows'[r] = IF found[j][r] = Absent THEN storeRows[r] ELSE found[j][r]
      BY <3>1 DEF Overlay
    <3> QED
      BY <1>5, <1>7, <3>1, <3>2 DEF DanglingInv, FoundInv
  <2>2. CASE FinishEmptyJob(j, reached)
    BY <1>5, <1>7, <2>2 DEF FinishEmptyJob, DanglingInv, FoundInv
  <2> QED
    BY <2>1, <2>2
<1>9. \A r \in clustered' : rows'[r] \in Scenario => rows'[r] \in table'
  <2>1. \A r \in Request : rows'[r] = IF storeRows'[r] = Absent THEN rows[r] ELSE storeRows'[r]
    BY <1>7 DEF Overlay
  <2>2. \A r \in clustered : rows[r] \in Scenario => rows[r] \in table
    BY <1>5 DEF DanglingInv, NoDanglingScenario
  <2> QED
    BY <1>0, <1>7, <1>8, <2>1, <2>2
<1> QED
  BY <1>6, <1>8, <1>9 DEF FoundInv, NoDanglingScenario, Alive

LEMMA StepDangling ==
    TypeInv /\ TypeInv' /\ FreshInv /\ DanglingInv /\ [Next]_vars => DanglingInv'
<1> SUFFICES ASSUME TypeInv, TypeInv', FreshInv, DanglingInv, [Next]_vars PROVE DanglingInv'
  OBVIOUS
<1>0. /\ task \in [Job -> {"none", "queued", "clustering", "naming", "done"}]
      /\ snap \in [Job -> SUBSET Request] /\ found \in [Job -> [Request -> Row]]
      /\ todo \in [Job -> SUBSET Scenario]
      /\ old \in [Job -> SUBSET Nat] /\ \A k \in Job : IsFiniteSet(old[k])
      /\ faults \in Nat /\ overlapped \in BOOLEAN
      /\ OneJob
  BY DEF TypeInv, TypeOK, WorkFinite, Scenario, DanglingInv
<1>1. ASSUME NEW r \in Request, NEW s, Record(r, s) PROVE DanglingInv'
  <2>1. /\ UNCHANGED <<table, storeRows, storeClusters, task, found, todo, clustered, overlapped, faults>>
        /\ rows[r] = Absent
        /\ \A q \in Request : q # r => rows'[q] = rows[q]
    BY <1>1 DEF Record, store, work, bounds, TypeInv, TypeOK
  <2>2. r \notin clustered /\ clustered \subseteq Request
    BY <2>1 DEF FreshInv, CopyInv, Present, TypeInv, TypeOK
  <2>3. OneJob'
    BY <1>0, <2>1 DEF OneJob, Alive
  <2>4. FoundInv'
    BY <2>1 DEF DanglingInv, FoundInv
  <2>5. NoDanglingScenario'
    BY <2>1, <2>2 DEF DanglingInv, NoDanglingScenario
  <2> QED
    BY <2>3, <2>4, <2>5 DEF DanglingInv
<1>2. ASSUME NEW j \in Job, PostRecompute(j) PROVE DanglingInv'
  <2>1. /\ UNCHANGED <<rows, table, storeRows, storeClusters, found, todo, clustered, faults>>
        /\ task' = [task EXCEPT ![j] = "queued"]
        /\ overlapped' = (overlapped \/ \E k \in Job : Alive(k))
    BY <1>2 DEF PostRecompute, bounds
  <2>2. ~overlapped' => ~overlapped /\ \A i, k \in Job : Alive(i)' /\ Alive(k)' => i = k
    BY <1>0, <2>1 DEF Alive
  <2>3. \A k \in Job : task'[k] = "naming" => task[k] = "naming"
    BY <1>0, <2>1
  <2> QED
    BY <2>1, <2>2, <2>3, MoveDangling DEF DanglingInv, FoundInv
<1>3. ASSUME NEW j \in Job, StartJob(j) PROVE DanglingInv'
  <2>1. /\ UNCHANGED <<rows, table, storeRows, found, todo, clustered, overlapped, faults>>
        /\ task[j] = "queued" /\ task' = [task EXCEPT ![j] = "clustering"]
    BY <1>3 DEF StartJob, history, bounds
  <2>2. ~overlapped' => ~overlapped /\ \A i, k \in Job : Alive(i)' /\ Alive(k)' => i = k
    BY <1>0, <2>1 DEF OneJob, Alive
  <2>3. ~overlapped' => \A k \in Job : task'[k] # "naming"
    BY <1>0, <2>1 DEF OneJob, Alive
  <2> QED
    BY <2>1, <2>2, <2>3, MoveDangling
<1>4. ASSUME NEW j \in Job, ReceiveClusters(j) PROVE DanglingInv'
  <2>1. PICK f \in Clusterings(snap[j], old[j]) :
           /\ found' = [found EXCEPT ![j] = f]
           /\ todo' = [todo EXCEPT ![j] = {f[r] : r \in snap[j]} \ {Outlier}]
    BY <1>4 DEF ReceiveClusters
  <2>2. /\ UNCHANGED <<rows, table, storeRows, storeClusters, clustered, overlapped, faults>>
        /\ task[j] = "clustering" /\ task' = [task EXCEPT ![j] = "naming"]
    BY <1>4 DEF ReceiveClusters, disk, store, history, bounds
  <2>3. \A r \in Request : f[r] = Absent <=> r \notin snap[j]
    <3>1. snap[j] \in SUBSET Request /\ old[j] \in SUBSET Nat
      BY <1>0
    <3> QED
      BY <3>1, ClusteringCovers
  <2>4. \A r \in Request : f[r] \in Scenario => f[r] \in {f[q] : q \in snap[j]} \ {Outlier}
    BY <2>3, RecomputeAssumption
  <2>5. ~overlapped' => ~overlapped /\ \A i, k \in Job : Alive(i)' /\ Alive(k)' => i = k
    BY <1>0, <2>2 DEF OneJob, Alive
  <2>6. /\ found'[j] = f /\ todo'[j] = {f[q] : q \in snap[j]} \ {Outlier}
        /\ \A k \in Job : k # j => found'[k] = found[k] /\ todo'[k] = todo[k] /\ task'[k] = task[k]
    BY <1>0, <2>1, <2>2
  <2>7. faults' = 0 /\ ~overlapped' => \A k \in Job : task'[k] = "naming" =>
           \A r \in Request : found'[k][r] \in Scenario => found'[k][r] \in todo'[k] \cup storeClusters'
    <3> SUFFICES ASSUME faults' = 0, ~overlapped', NEW k \in Job, task'[k] = "naming",
                        NEW r \in Request, found'[k][r] \in Scenario
                 PROVE  found'[k][r] \in todo'[k] \cup storeClusters'
      OBVIOUS
    <3>1. CASE k = j
      <4>1. f[r] \in todo'[j]
        BY <2>4, <2>6, <3>1
      <4> QED
        BY <2>6, <3>1, <4>1
    <3>2. CASE k # j
      BY <2>2, <2>6, <3>2 DEF DanglingInv, FoundInv
    <3> QED
      BY <3>1, <3>2
  <2> QED
    BY <2>2, <2>5, <2>7, MoveDangling
<1>5. ASSUME NEW j \in Job, NameCluster(j) PROVE DanglingInv'
  <2>1. PICK s \in todo[j] : /\ todo' = [todo EXCEPT ![j] = @ \ {s}]
                             /\ storeClusters' = storeClusters \cup {s}
    BY <1>5 DEF NameCluster
  <2>2. UNCHANGED <<rows, table, storeRows, found, task, clustered, overlapped, faults>>
    BY <1>5 DEF NameCluster, disk, history, bounds
  <2>3. \A k \in Job : todo[k] \cup storeClusters \subseteq todo'[k] \cup storeClusters'
    BY <1>0, <2>1
  <2>4. ~overlapped' => ~overlapped /\ \A i, k \in Job : Alive(i)' /\ Alive(k)' => i = k
    BY <1>0, <2>2 DEF OneJob, Alive
  <2>5. faults' = 0 /\ ~overlapped' => \A k \in Job : task'[k] = "naming" =>
           \A r \in Request : found'[k][r] \in Scenario => found'[k][r] \in todo'[k] \cup storeClusters'
    BY <2>2, <2>3 DEF DanglingInv, FoundInv
  <2> QED
    BY <2>2, <2>4, <2>5, MoveDangling
<1>6. ASSUME NEW j \in Job, FailJob(j) PROVE DanglingInv'
  <2>1. /\ UNCHANGED <<rows, table, storeRows, clustered, overlapped>>
        /\ faults' = faults + 1 /\ faults' # 0
        /\ task' = [task EXCEPT ![j] = "done"]
    BY <1>0, <1>6 DEF FailJob, EndTask, history
  <2>2. ~overlapped' => ~overlapped /\ \A i, k \in Job : Alive(i)' /\ Alive(k)' => i = k
    BY <1>0, <2>1 DEF OneJob, Alive
  <2> QED
    BY <2>1, <2>2, MoveDangling
<1>7. ASSUME NEW j \in Job, NEW reached \in Reached,
             FinishJob(j, reached) \/ FinishEmptyJob(j, reached) PROVE DanglingInv'
  BY <1>7, PublishDangling
<1>8. CASE Restart
  <2>1. /\ UNCHANGED <<rows, table, clustered, overlapped, faults>>
        /\ storeRows' = NoRows
        /\ \A k \in Job : ~Alive(k)' /\ task'[k] # "naming"
    BY <1>0, <1>8 DEF Restart, disk, history, Alive
  <2>2. FoundInv'
    BY <2>1, RecomputeAssumption DEF FoundInv, NoRows
  <2>3. OneJob' /\ NoDanglingScenario'
    BY <2>1 DEF OneJob, DanglingInv, NoDanglingScenario
  <2> QED
    BY <2>2, <2>3 DEF DanglingInv
<1>9. CASE UNCHANGED vars \/ \E j \in Job : PostFails(j)
  <2>1. UNCHANGED <<rows, table, storeRows, storeClusters, task, found, todo, clustered, overlapped, faults>>
    BY <1>9 DEF vars, disk, store, work, history, bounds, PostFails
  <2>2. OneJob' /\ FoundInv' /\ NoDanglingScenario'
    BY <1>0, <2>1 DEF OneJob, Alive, DanglingInv, FoundInv, NoDanglingScenario
  <2> QED
    BY <2>2 DEF DanglingInv
<1> QED
  BY <1>1, <1>2, <1>3, <1>4, <1>5, <1>6, <1>7, <1>8, <1>9
     DEF Next, JobStep, JoinScenario, OpenScenario

\* Every scenario a recompute wrote to a row is in the clusters table, as long as no
\* publication broke off and no two jobs overlapped.
THEOREM NothingDangles == Spec => []NoDanglingScenario
<1>1. DanglingInv => NoDanglingScenario
  BY DEF DanglingInv
<1> QED
  BY <1>1, InitDangling, StepDangling, TypeInvariant, FreshInvariant, PTL DEF Spec

(***************************************************************************)
(* What JobsEnd rests on: every step of a job takes it further, and as long *)
(* as its coroutine is there the job has a step to make.                    *)
(***************************************************************************)
Stage(phase) ==
    CASE phase = "none" -> 0
      [] phase = "queued" -> 1
      [] phase = "clustering" -> 2
      [] phase = "naming" -> 3
      [] OTHER -> 4

\* The job reaches a later stage, or has one cluster less to name.
Advances(j) ==
    \/ Stage(task'[j]) > Stage(task[j])
    \/ task[j] = "naming" /\ task'[j] = "naming" /\ Cardinality(todo'[j]) < Cardinality(todo[j])

\* A step of a job advances it, and no step of another job, of a request or of the
\* process takes a job back or gives it more to name.
Rests(j) == task'[j] = task[j] /\ (Alive(j) => todo'[j] = todo[j])
JobsAdvance == [][\A j \in Job : (JobStep(j) => Advances(j)) /\ (Advances(j) \/ Rests(j))]_vars

\* A job that nobody has asked for has no coroutine yet; one under way has a copy to
\* cluster, and then a cluster to name.
MovesInv ==
    \A j \in Job : /\ saved[j] = "none" => task[j] = "none"
                   /\ task[j] = "clustering" => snap[j] # {}
                   /\ task[j] = "naming" => todo[j] # {}

\* A job under way can make its next step, if the configuration allows a cluster:
\* a clustering of its copy exists, and while it names there is a cluster to name.
JobsCanMove ==
    \A j \in Job : Alive(j) =>
        \/ task[j] = "queued"
        \/ task[j] = "clustering" /\ (MaxClusters > 0 => Clusterings(snap[j], old[j]) # {})
        \/ task[j] = "naming" /\ Cardinality(todo[j]) >= 1

\* Every step of job j either leaves its coroutine alone or advances it.
LEMMA OwnStepAdvances ==
    ASSUME TypeInv, NEW j \in Job, JobStep(j)
    PROVE  /\ Advances(j)
           /\ \A k \in Job \ {j} : task'[k] = task[k] /\ todo'[k] = todo[k]
<1> USE DEF TypeInv, TypeOK, Stage, Advances
<1>1. CASE StartJob(j)
  BY <1>1 DEF StartJob
<1>2. CASE ReceiveClusters(j)
  BY <1>2 DEF ReceiveClusters
<1>3. CASE NameCluster(j)
  <2>1. PICK s \in todo[j] : todo' = [todo EXCEPT ![j] = @ \ {s}]
    BY <1>3 DEF NameCluster
  <2>2. task' = task /\ task[j] = "naming"
    BY <1>3 DEF NameCluster
  <2>3. IsFiniteSet(todo[j])
    BY DEF WorkFinite
  <2>4. todo'[j] = todo[j] \ {s}
    BY <2>1
  <2>5. Cardinality(todo[j] \ {s}) = Cardinality(todo[j]) - 1 /\ Cardinality(todo[j]) \in Nat
    <3> DEFINE T == todo[j]
    <3>1. IsFiniteSet(T) /\ s \in T
      BY <2>3
    <3> HIDE DEF T
    <3>2. Cardinality(T \ {s}) = Cardinality(T) - 1 /\ Cardinality(T) \in Nat
      BY <3>1, FS_RemoveElement, FS_CardinalityType
    <3>3. QED
      BY <3>2 DEF T
  <2>6. QED
    BY <2>1, <2>2, <2>4, <2>5
<1>4. ASSUME task[j] \in {"queued", "clustering", "naming"}, EndTask(j)
      PROVE  /\ Advances(j)
             /\ \A k \in Job \ {j} : task'[k] = task[k] /\ todo'[k] = todo[k]
  BY <1>4 DEF EndTask
<1>5. CASE FailJob(j)
  BY <1>4, <1>5 DEF FailJob
<1>6. ASSUME NEW reached \in Reached, FinishJob(j, reached) \/ FinishEmptyJob(j, reached)
      PROVE  /\ Advances(j)
             /\ \A k \in Job \ {j} : task'[k] = task[k] /\ todo'[k] = todo[k]
  BY <1>4, <1>6 DEF FinishJob, FinishEmptyJob
<1>7. QED
  BY <1>1, <1>2, <1>3, <1>5, <1>6 DEF JobStep

\* What a clustering may use are indices.
LEMMA IdsAreIndices ==
    ASSUME NEW oldIds \in SUBSET Nat, IsFiniteSet(oldIds), NEW ids \in IdSets(oldIds, MaxClusters)
    PROVE  ids \subseteq Nat
<1>1. PICK M \in SUBSET oldIds, n \in 0 .. MaxClusters : ids = M \cup FreeIndices(M, n)
  BY DEF IdSets
<1> DEFINE top == n + Cardinality(M)
<1>2. FreeIndices(M, n) \subseteq 0 .. top
  BY DEF FreeIndices
<1>3. top \in Nat
  <2>1. Cardinality(M) \in Nat
    BY FS_Subset, FS_CardinalityType
  <2>2. n \in Nat
    BY RecomputeAssumption
  <2>3. QED
    BY <2>1, <2>2
<1> HIDE DEF top
<1>4. 0 .. top \subseteq Nat
  BY <1>3
<1>5. QED
  BY <1>1, <1>2, <1>4

\* A clustering of a copy exists: one cluster of all its rows, at index 0.
LEMMA ClusteringExists ==
    ASSUME NEW S \in SUBSET Request, S # {}, NEW oldIds, MaxClusters > 0
    PROVE  Clusterings(S, oldIds) # {}
<1> DEFINE f == [r \in Request |-> IF r \in S THEN 0 ELSE Absent]
           I == {0}
<1>1. FreeIndices({}, 1) = {0}
  <2>1. Cardinality({}) = 0
    BY FS_EmptySet
  <2>2. \A k \in Nat : {i \in 0 .. k : i \notin {}} = 0 .. k
    OBVIOUS
  <2>3. \A k \in Nat : Cardinality(0 .. k) = k + 1
    <3> SUFFICES ASSUME NEW k \in Nat PROVE Cardinality(0 .. k) = k + 1
      OBVIOUS
    <3>1. 0 \in Int /\ k \in Int /\ ~(0 > k)
      OBVIOUS
    <3>2. Cardinality(0 .. k) = k - 0 + 1
      BY <3>1, FS_Interval
    <3>3. QED
      BY <3>2
  <2> DEFINE size(k) == Cardinality({i \in 0 .. k : i \notin {}})
             top == 1 + Cardinality({})
  <2>4. FreeIndices({}, 1) = {k \in 0 .. top : k \notin {} /\ size(k) <= 1}
    BY DEF FreeIndices
  <2>5. size(0) = 1 /\ size(1) = 2 /\ top = 1
    <3>1. size(0) = Cardinality(0 .. 0) /\ size(1) = Cardinality(0 .. 1)
      BY <2>2
    <3>2. Cardinality(0 .. 0) = 0 + 1 /\ Cardinality(0 .. 1) = 1 + 1
      BY <2>3
    <3>3. top = 1 + 0
      BY <2>1
    <3> HIDE DEF size, top
    <3>4. QED
      BY <3>1, <3>2, <3>3
  <2> HIDE DEF size, top
  <2>6. \A k \in 0 .. top : k = 0 \/ k = 1
    BY <2>5
  <2>7. QED
    BY <2>4, <2>5, <2>6
<1>2. I \in IdSets(oldIds, MaxClusters)
  <2>1. 1 \in 0 .. MaxClusters
    BY RecomputeAssumption
  <2>2. {} \cup FreeIndices({}, 1) = I
    BY <1>1
  <2>3. QED
    BY <2>1, <2>2 DEF IdSets
<1>3. Cardinality(I) = 1 /\ I # {} /\ Cardinality(I) <= MaxClusters
  <2>1. Cardinality(I) = 1
    BY FS_Singleton
  <2>2. I # {} /\ 1 <= MaxClusters
    BY RecomputeAssumption
  <2> HIDE DEF I
  <2>3. QED
    BY <2>1, <2>2
<1>4. /\ f \in [Request -> I \cup {Absent, Outlier}]
      /\ \A r \in Request : f[r] = Absent <=> r \notin S
      /\ I \subseteq {f[r] : r \in S}
  BY RecomputeAssumption DEF Scenario
<1> HIDE DEF f, I
<1>5. f \in Clusterings(S, oldIds)
  BY <1>2, <1>3, <1>4 DEF Clusterings
<1>6. QED
  BY <1>5

\* What a job under way still has to do is never nothing.
LEMMA StepMoves ==
    ASSUME TypeInv, MovesInv, [Next]_vars
    PROVE  MovesInv'
<1> USE DEF TypeInv, TypeOK, MovesInv
<1>1. CASE UNCHANGED <<saved, task, snap, todo>>
  BY <1>1
<1>2. ASSUME NEW j \in Job, PostRecompute(j) PROVE MovesInv'
  BY <1>2 DEF PostRecompute, PutJob
<1>3. ASSUME NEW j \in Job, PostFails(j) PROVE MovesInv'
  BY <1>3 DEF PostFails, PutJob, work
<1>4. ASSUME NEW j \in Job, StartJob(j) PROVE MovesInv'
  BY <1>4 DEF StartJob, PutJob
<1>5. ASSUME NEW j \in Job, ReceiveClusters(j) PROVE MovesInv'
  <2>1. PICK f \in Clusterings(snap[j], old[j]) :
           todo' = [todo EXCEPT ![j] = FoundIn(f, snap[j])]
    BY <1>5 DEF ReceiveClusters, FoundIn
  <2>2. FoundIn(f, snap[j]) # {}
    <3>1. snap[j] \in SUBSET Request /\ old[j] \in SUBSET Nat
      BY DEF Scenario
    <3>2. PICK ids \in IdSets(old[j], MaxClusters) :
             ids # {} /\ ids \subseteq {f[r] : r \in snap[j]}
      BY DEF Clusterings
    <3>3. ids \subseteq Nat
      <4>1. IsFiniteSet(old[j])
        BY DEF WorkFinite
      <4>2. QED
        BY <3>1, <4>1, IdsAreIndices
    <3>4. PICK i \in ids : i \in Nat
      BY <3>2, <3>3
    <3>5. i # Outlier
      BY <3>4, RecomputeAssumption DEF Scenario
    <3>6. QED
      BY <3>2, <3>4, <3>5 DEF FoundIn
  <2>3. todo'[j] # {} /\ \A k \in Job \ {j} : todo'[k] = todo[k]
    BY <2>1, <2>2
  <2>4. UNCHANGED <<saved, snap>> /\ task' = [task EXCEPT ![j] = "naming"]
    BY <1>5 DEF ReceiveClusters, disk
  <2>5. task[j] # "none"
    BY <1>5 DEF ReceiveClusters
  <2>6. QED
    BY <2>3, <2>4, <2>5
<1>6. ASSUME NEW j \in Job, NameCluster(j) PROVE MovesInv'
  <2>1. PICK s \in todo[j] : todo' = [todo EXCEPT ![j] = @ \ {s}]
    BY <1>6 DEF NameCluster
  <2>2. UNCHANGED <<saved, task, snap>>
    BY <1>6 DEF NameCluster, disk
  <2>3. todo[j] \ {s} # {}
    <3>1. todo[j] # {s}
      <4>1. Cardinality({s}) = 1
        BY FS_Singleton
      <4>2. Cardinality(todo[j]) > 1
        BY <1>6 DEF NameCluster
      <4>3. Cardinality(todo[j]) # 1
        BY <4>2
      <4>4. QED
        BY <4>1, <4>3
    <3>2. QED
      BY <3>1
  <2>4. QED
    BY <2>1, <2>2, <2>3
<1>7. ASSUME NEW j \in Job, NEW status \in Status \ {"none"}, PutJob(j, status), EndTask(j) PROVE MovesInv'
  BY <1>7 DEF PutJob, EndTask, Status
<1>8. ASSUME NEW j \in Job, FailJob(j) PROVE MovesInv'
  BY <1>7, <1>8 DEF FailJob, Status
<1>9. ASSUME NEW j \in Job, NEW reached \in Reached, FinishJob(j, reached) \/ FinishEmptyJob(j, reached)
      PROVE  MovesInv'
  BY <1>7, <1>9 DEF FinishJob, FinishEmptyJob, Status
<1>10. CASE Restart
  <2>1. task' = [k \in Job |-> IF Alive(k) THEN "done" ELSE task[k]] /\ saved' = saved
    BY <1>10 DEF Restart, disk
  <2>2. \A k \in Job : task'[k] \notin {"clustering", "naming"}
    BY <2>1 DEF Alive
  <2>3. \A k \in Job : saved'[k] = "none" => task'[k] = "none"
    BY <2>1 DEF Alive
  <2>4. QED
    BY <2>2, <2>3
<1>11. QED
  BY <1>1, <1>2, <1>3, <1>4, <1>5, <1>6, <1>8, <1>9, <1>10
     DEF Next, JobStep, JoinScenario, OpenScenario, Record, work, vars, disk

\* In every reachable state, for any jobs, failures and restarts.
LEMMA MovesInvariant == Spec => []MovesInv
<1>1. Init => MovesInv
  BY DEF Init, MovesInv
<1>2. TypeInv /\ MovesInv /\ [Next]_vars => MovesInv'
  BY StepMoves
<1>3. QED
  BY <1>1, <1>2, TypeInvariant, PTL DEF Spec

\* A job that was asked for finds a clustering and then a cluster to name until it has
\* named them all: none is left waiting for work that does not come.
THEOREM JobsCanAlwaysMove == Spec => []JobsCanMove
<1>1. TypeInv /\ MovesInv => JobsCanMove
  <2> SUFFICES ASSUME TypeInv, MovesInv, NEW j \in Job, Alive(j)
               PROVE  \/ task[j] = "queued"
                      \/ task[j] = "clustering" /\ (MaxClusters > 0 => Clusterings(snap[j], old[j]) # {})
                      \/ task[j] = "naming" /\ Cardinality(todo[j]) >= 1
    BY DEF JobsCanMove
  <2>1. CASE task[j] = "clustering"
    BY <2>1, ClusteringExists DEF MovesInv, TypeInv, TypeOK
  <2>2. CASE task[j] = "naming"
    <3>1. IsFiniteSet(todo[j]) /\ todo[j] # {}
      BY <2>2 DEF MovesInv, TypeInv, WorkFinite
    <3>2. Cardinality(todo[j]) \in Nat /\ Cardinality(todo[j]) # 0
      BY <3>1, FS_EmptySet, FS_CardinalityType
    <3>3. QED
      BY <2>2, <3>2
  <2>3. QED
    BY <2>1, <2>2 DEF Alive
<1>2. QED
  BY <1>1, TypeInvariant, MovesInvariant, PTL

\* A job goes forward only: it starts, clusters, names one cluster after the other and
\* ends, whatever the other jobs, the requests and the restarts of the process do.
THEOREM JobsOnlyAdvance == Spec => JobsAdvance
<1>1. ASSUME TypeInv, MovesInv, Next PROVE \A j \in Job : Advances(j) \/ Rests(j)
  <2>1. ASSUME NEW k \in Job, JobStep(k) PROVE \A j \in Job : Advances(j) \/ Rests(j)
    <3>1. /\ Advances(k)
          /\ \A j \in Job \ {k} : task'[j] = task[j] /\ todo'[j] = todo[j]
      BY <1>1, <2>1, OwnStepAdvances
    <3>2. QED
      BY <3>1 DEF Rests
  <2>2. ASSUME NEW k \in Job, PostRecompute(k) PROVE \A j \in Job : Advances(j) \/ Rests(j)
    <3>1. saved[k] = "none" /\ task' = [task EXCEPT ![k] = "queued"] /\ todo' = todo
      BY <2>2 DEF PostRecompute
    <3>2. task[k] = "none"
      BY <1>1, <3>1 DEF MovesInv
    <3>3. QED
      BY <1>1, <3>1, <3>2 DEF TypeInv, TypeOK, Advances, Rests, Stage
  <2>3. CASE UNCHANGED <<task, todo>>
    BY <2>3 DEF Rests
  <2>4. CASE Restart
    <3>1. task' = [j \in Job |-> IF Alive(j) THEN "done" ELSE task[j]]
      BY <2>4 DEF Restart
    <3>2. ASSUME NEW j \in Job PROVE Advances(j) \/ Rests(j)
      BY <1>1, <3>1 DEF Alive, Advances, Rests, Stage, TypeInv, TypeOK
    <3>3. QED
      BY <3>2
  <2>5. QED
    BY <1>1, <2>1, <2>2, <2>3, <2>4
       DEF Next, JoinScenario, OpenScenario, Record, PostFails, work
<1>2. ASSUME TypeInv, MovesInv, [Next]_vars
      PROVE  [\A j \in Job : (JobStep(j) => Advances(j)) /\ (Advances(j) \/ Rests(j))]_vars
  <2>1. \A j \in Job : JobStep(j) => Advances(j)
    BY <1>2, OwnStepAdvances
  <2>2. QED
    BY <1>1, <1>2, <2>1
<1>3. TypeInv /\ MovesInv /\ [Next]_vars => [\A j \in Job : (JobStep(j) => Advances(j)) /\ (Advances(j) \/ Rests(j))]_vars
  BY <1>2
<1>4. QED
  BY <1>3, TypeInvariant, MovesInvariant, PTL DEF Spec, JobsAdvance
===============================================================================
