------------------------------ MODULE MlRecompute ------------------------------
(***************************************************************************)
(* The recompute path of the ML service, next to the streaming path that    *)
(* keeps adding rows.  POST /recompute creates a job, copies the data and   *)
(* schedules a coroutine; the coroutine re-clusters the copy (awaiting a    *)
(* thread, then one LLM call per cluster) and, without a further await,     *)
(* completes the job and publishes it: rows, clusters table, Qdrant, the    *)
(* freshness globals, the online clusterer.                                 *)
(*                                                                          *)
(* One task type stands for all: the job goes through the types one after   *)
(* another and they share nothing but the store.  A scenario id is its      *)
(* index n in "<type>:cluster_<n>".  Which rows form a cluster is left open;*)
(* which ids a clustering may use is not.                                   *)
(***************************************************************************)
EXTENDS Naturals, FiniteSets, ScenarioIndex

CONSTANTS Request,       \* the request ids
          Job,           \* the recompute jobs
          Absent,        \* no row (or no assignment in the store)
          Outlier,       \* a row without a scenario
          NoJob,         \* no completed job
          MaxClusters,   \* recompute.max_clusters_per_task_type
          MaxIndex,      \* bound on the indices the online path may reach
          MaxPostFails,  \* bound on the POSTs that fail after creating the job
          MaxFaults,     \* bound on failing runs and failing publications
          MaxRestarts    \* bound on restarts

Scenario == Nat
Row == Scenario \cup {Absent, Outlier}

ASSUME RecomputeAssumption ==
    /\ Absent \notin Scenario /\ Outlier \notin Scenario /\ Absent # Outlier
    /\ NoJob \notin Job
    /\ IsFiniteSet(Request)
    /\ {MaxClusters, MaxIndex, MaxPostFails, MaxFaults, MaxRestarts} \subseteq Nat

VARIABLES
    rows,           \* assignments table: the scenario of each row
    table,          \* clusters table: the ids it holds
    saved,          \* recompute_jobs table: the status of each job
    savedLogs,      \* recompute_jobs.extra: logs_at_completion, 0 when missing
    lastCompleted,  \* the completed job with the latest completed_at
    jobs,           \* STORE.jobs
    storeClusters,  \* STORE.clusters and STORE.centroids: their keys
    storeRows,      \* STORE.assignments
    lastAt,         \* _LAST_RECOMPUTE_AT is set
    logsAt,         \* _LOGS_AT_LAST_RECOMPUTE
    online,         \* CosineClusterer: the ids it holds a centroid for
    nextIndex,      \* CosineClusterer: _next_index
    task,           \* where the coroutine of each job is
    snap,           \* the rows in the copy a job works on
    old,            \* the ids of the centroids a job matches against
    todo,           \* the clusters a job has not written to the store yet
    found,          \* the scenario a job found for each row of its copy
    clustered,      \* history: the rows a publication has written a scenario for
    late,           \* history: the rows that arrived while a job was under way
    overlapped,     \* history: two jobs were under way at once
    postFails, faults, restarts

disk     == <<rows, table, saved, savedLogs, lastCompleted>>
store    == <<jobs, storeClusters, storeRows>>
fresh    == <<lastAt, logsAt>>
clusterer == <<online, nextIndex>>
work     == <<task, snap, old, todo, found>>
history  == <<clustered, late, overlapped>>
bounds   == <<postFails, faults, restarts>>
vars     == <<disk, store, fresh, clusterer, work, history, bounds>>

Present == {r \in Request : rows[r] # Absent}

Alive(j) == task[j] \in {"queued", "clustering", "naming"}

NoRows == [r \in Request |-> Absent]

Init ==
    /\ rows = NoRows
    /\ table = {}
    /\ saved = [j \in Job |-> "none"]
    /\ savedLogs = [j \in Job |-> 0]
    /\ lastCompleted = NoJob
    /\ jobs = [j \in Job |-> "none"]
    /\ storeClusters = {}
    /\ storeRows = NoRows
    /\ lastAt = FALSE
    /\ logsAt = 0
    /\ online = {}
    /\ nextIndex = 0
    /\ task = [j \in Job |-> "none"]
    /\ snap = [j \in Job |-> {}]
    /\ old = [j \in Job |-> {}]
    /\ todo = [j \in Job |-> {}]
    /\ found = [j \in Job |-> NoRows]
    /\ clustered = {}
    /\ late = {}
    /\ overlapped = FALSE
    /\ postFails = 0
    /\ faults = 0
    /\ restarts = 0

(***************************************************************************)
(* The streaming path                                                      *)
(***************************************************************************)

\* CosineClusterer.assign and upsert_assignment for one new log.
Record(r, s) ==
    /\ rows[r] = Absent
    /\ rows' = [rows EXCEPT ![r] = s]
    /\ late' = IF \E j \in Job : Alive(j) THEN late \cup {r} ELSE late
    /\ UNCHANGED <<table, saved, savedLogs, lastCompleted, store, fresh, work,
                   clustered, overlapped, bounds>>

\* A centroid is similar enough: the log joins its scenario.
JoinScenario(r, s) ==
    /\ s \in online
    /\ Record(r, s)
    /\ UNCHANGED clusterer

\* None is: the log opens a scenario at the next index.
OpenScenario(r) ==
    /\ nextIndex < MaxIndex
    /\ Record(r, nextIndex)
    /\ online' = online \cup {nextIndex}
    /\ nextIndex' = nextIndex + 1

(***************************************************************************)
(* POST /recompute                                                         *)
(***************************************************************************)

\* RecomputeStore.put_job: the snapshot in memory and the row on disk.
PutJob(j, status) ==
    /\ jobs' = [jobs EXCEPT ![j] = status]
    /\ saved' = [saved EXCEPT ![j] = status]

\* The job is created, the data copied and the coroutine scheduled.
PostRecompute(j) ==
    /\ saved[j] = "none"
    /\ PutJob(j, "pending")
    /\ snap' = [snap EXCEPT ![j] = Present]
    /\ task' = [task EXCEPT ![j] = "queued"]
    /\ overlapped' = (overlapped \/ \E k \in Job : Alive(k))
    /\ UNCHANGED <<rows, table, savedLogs, lastCompleted, storeClusters, storeRows, fresh,
                   clusterer, old, todo, found, clustered, late, bounds>>

\* The job is created, then the scroll over Qdrant raises: the client gets a
\* 500, no coroutine is scheduled, and nobody touches the job again.
PostFails(j) ==
    /\ postFails < MaxPostFails
    /\ saved[j] = "none"
    /\ PutJob(j, "pending")
    /\ postFails' = postFails + 1
    /\ UNCHANGED <<rows, table, savedLogs, lastCompleted, storeClusters, storeRows, fresh,
                   clusterer, work, history, faults, restarts>>

(***************************************************************************)
(* RecomputeJob.run                                                        *)
(***************************************************************************)

\* Running: the centroids are remembered, then cleared with the clusters.
StartJob(j) ==
    /\ task[j] = "queued"
    /\ snap[j] # {}
    /\ PutJob(j, "running")
    /\ old' = [old EXCEPT ![j] = storeClusters]
    /\ storeClusters' = {}
    /\ task' = [task EXCEPT ![j] = "clustering"]
    /\ UNCHANGED <<rows, table, savedLogs, lastCompleted, storeRows, fresh, clusterer,
                   snap, todo, found, history, bounds>>

\* The results of run_umap_hdbscan over a copy S: every cluster has a member,
\* the other rows are outliers, and there is a cluster.
Clusterings(S, oldIds) ==
    UNION {{f \in [Request -> ids \cup {Absent, Outlier}] :
               /\ \A r \in Request : f[r] = Absent <=> r \notin S
               /\ ids \subseteq {f[r] : r \in S}} :
           ids \in {I \in IdSets(oldIds, MaxClusters) : I # {} /\ Cardinality(I) <= MaxClusters}}

\* Mistaken form: the outlier label is named like a cluster.
ReceiveClustersAll(j) ==
    /\ task[j] = "clustering"
    /\ \E f \in Clusterings(snap[j], old[j]) :
          /\ found' = [found EXCEPT ![j] = f]
          /\ todo' = [todo EXCEPT ![j] = {f[r] : r \in snap[j]}]
    /\ task' = [task EXCEPT ![j] = "naming"]
    /\ UNCHANGED <<disk, store, fresh, clusterer, snap, old, history, bounds>>

\* The thread returns; the ids are stabilised and the naming of clusters begins.
ReceiveClusters(j) ==
    /\ task[j] = "clustering"
    /\ \E f \in Clusterings(snap[j], old[j]) :
          /\ found' = [found EXCEPT ![j] = f]
          /\ todo' = [todo EXCEPT ![j] = {f[r] : r \in snap[j]} \ {Outlier}]
    /\ task' = [task EXCEPT ![j] = "naming"]
    /\ UNCHANGED <<disk, store, fresh, clusterer, snap, old, history, bounds>>

\* The summarizer names one cluster and another one follows.
NameCluster(j) ==
    /\ task[j] = "naming"
    /\ Cardinality(todo[j]) > 1
    /\ \E s \in todo[j] :
          /\ todo' = [todo EXCEPT ![j] = @ \ {s}]
          /\ storeClusters' = storeClusters \cup {s}
    /\ UNCHANGED <<disk, jobs, storeRows, fresh, clusterer, task, snap, old, found,
                   history, bounds>>

\* Nothing of a finished job is used again.
EndTask(j) ==
    /\ task' = [task EXCEPT ![j] = "done"]
    /\ snap' = [snap EXCEPT ![j] = {}]
    /\ old' = [old EXCEPT ![j] = {}]
    /\ todo' = [todo EXCEPT ![j] = {}]
    /\ found' = [found EXCEPT ![j] = NoRows]

\* The clustering raises: the job fails, the cleared centroids stay cleared.
FailJob(j) ==
    /\ faults < MaxFaults
    /\ faults' = faults + 1
    /\ task[j] = "clustering"
    /\ PutJob(j, "failed")
    /\ EndTask(j)
    /\ UNCHANGED <<rows, table, savedLogs, lastCompleted, storeClusters, storeRows, fresh,
                   clusterer, history, postFails, restarts>>

(***************************************************************************)
(* Completion and publication: post_recompute._run after the last await.    *)
(* The rows are one transaction, the clusters one each, in no order that    *)
(* matters here.  An exception between two writes leaves the earlier ones:  *)
(* nothing is published, or the rows and some of the clusters, or all.      *)
(***************************************************************************)
Reached == {"nothing", "some", "all"}

\* The clusters table with as many of the store's clusters as were reached.
UpsertClusters(reached) ==
    \E part \in SUBSET storeClusters' :
        /\ reached = "nothing" => part = {}
        /\ reached = "all" => part = storeClusters'
        /\ table' = table \cup part

\* _hydrate_online_clusterer: clear, then load the whole clusters table.
IndexAbove(S) == IF S = {} THEN 0 ELSE 1 + CHOOSE m \in S : \A k \in S : k <= m

\* Mistaken form: the centroids are loaded on top of those already there.
HydrateOnTop(T) ==
    /\ online' = online \cup T
    /\ nextIndex' = nextIndex

Hydrate(T) ==
    /\ online' = T
    /\ nextIndex' = IndexAbove(T)

Overlay(f, g) == [r \in Request |-> IF g[r] = Absent THEN f[r] ELSE g[r]]

\* Mistaken form: the freshness globals are set in a finally clause.
PublishFinally(j, reached) ==
    /\ rows' = IF reached = "nothing" THEN rows ELSE Overlay(rows, storeRows')
    /\ clustered' = IF reached = "nothing" THEN clustered
                    ELSE clustered \cup {r \in Request : storeRows'[r] # Absent}
    /\ UpsertClusters(reached)
    /\ lastAt' = TRUE
    /\ logsAt' = Cardinality(Present)
    /\ savedLogs' = [savedLogs EXCEPT ![j] = Cardinality(Present)]
    /\ IF reached = "all"
       THEN Hydrate(table') /\ UNCHANGED faults
       ELSE faults < MaxFaults /\ faults' = faults + 1 /\ UNCHANGED clusterer

Publish(j, reached) ==
    /\ rows' = IF reached = "nothing" THEN rows ELSE Overlay(rows, storeRows')
    /\ clustered' = IF reached = "nothing" THEN clustered
                    ELSE clustered \cup {r \in Request : storeRows'[r] # Absent}
    /\ UpsertClusters(reached)
    /\ IF reached = "all"
       THEN /\ lastAt' = TRUE
            /\ logsAt' = Cardinality(Present)
            /\ savedLogs' = [savedLogs EXCEPT ![j] = Cardinality(Present)]
            /\ Hydrate(table')
            /\ UNCHANGED faults
       ELSE /\ faults < MaxFaults
            /\ faults' = faults + 1
            /\ UNCHANGED <<fresh, savedLogs, clusterer>>

\* Mistaken form: the store keeps the last cluster only.
FinishJobLastOnly(j, reached) ==
    /\ task[j] = "naming"
    /\ Cardinality(todo[j]) = 1
    /\ storeClusters' = todo[j]
    /\ storeRows' = Overlay(storeRows, found[j])
    /\ PutJob(j, "completed")
    /\ lastCompleted' = j
    /\ Publish(j, reached)
    /\ EndTask(j)
    /\ UNCHANGED <<late, overlapped, postFails, restarts>>

\* Mistaken form: the job waits for one cluster more than it found.
FinishJobNever(j, reached) ==
    /\ task[j] = "naming"
    /\ todo[j] = {}
    /\ storeClusters' = storeClusters
    /\ storeRows' = Overlay(storeRows, found[j])
    /\ PutJob(j, "completed")
    /\ lastCompleted' = j
    /\ Publish(j, reached)
    /\ EndTask(j)
    /\ UNCHANGED <<late, overlapped, postFails, restarts>>

\* The last cluster is named, the job completes and publishes what the whole
\* store holds, not only what this job found.
FinishJob(j, reached) ==
    /\ task[j] = "naming"
    /\ Cardinality(todo[j]) = 1
    /\ storeClusters' = storeClusters \cup todo[j]
    /\ storeRows' = Overlay(storeRows, found[j])
    /\ PutJob(j, "completed")
    /\ lastCompleted' = j
    /\ Publish(j, reached)
    /\ EndTask(j)
    /\ UNCHANGED <<late, overlapped, postFails, restarts>>

\* A job over an empty copy awaits nothing: it starts, completes and publishes.
FinishEmptyJob(j, reached) ==
    /\ task[j] = "queued"
    /\ snap[j] = {}
    /\ UNCHANGED <<storeClusters, storeRows>>
    /\ PutJob(j, "completed")
    /\ lastCompleted' = j
    /\ Publish(j, reached)
    /\ EndTask(j)
    /\ UNCHANGED <<late, overlapped, postFails, restarts>>

(***************************************************************************)
(* Restart: SQLite stays; _restore_recompute_state and                      *)
(* _hydrate_online_clusterer rebuild the rest, STORE starts empty.          *)
(***************************************************************************)
\* Mistaken form: a job that predates logs_at_completion counts as up to date.
RestoredLogsLoose ==
    IF lastCompleted = NoJob THEN 0
    ELSE IF savedLogs[lastCompleted] = 0 THEN Cardinality(Present)
    ELSE savedLogs[lastCompleted]

RestoredLogs == IF lastCompleted = NoJob THEN 0 ELSE savedLogs[lastCompleted]

Restart ==
    /\ restarts < MaxRestarts
    /\ restarts' = restarts + 1
    /\ jobs' = [j \in Job |-> "none"]
    /\ storeClusters' = {}
    /\ storeRows' = NoRows
    /\ lastAt' = (lastCompleted # NoJob)
    /\ logsAt' = RestoredLogs
    /\ Hydrate(table)
    /\ task' = [j \in Job |-> IF Alive(j) THEN "done" ELSE task[j]]
    /\ snap' = [j \in Job |-> {}]
    /\ old' = [j \in Job |-> {}]
    /\ todo' = [j \in Job |-> {}]
    /\ found' = [j \in Job |-> NoRows]
    /\ UNCHANGED <<disk, history, postFails, faults>>

JobStep(j) ==
    \/ StartJob(j)
    \/ ReceiveClusters(j)
    \/ NameCluster(j)
    \/ FailJob(j)
    \/ \E reached \in Reached : FinishJob(j, reached) \/ FinishEmptyJob(j, reached)

Next ==
    \/ \E r \in Request : \/ \E s \in online : JoinScenario(r, s)
                          \/ OpenScenario(r)
    \/ \E j \in Job : \/ PostRecompute(j)
                      \/ PostFails(j)
                      \/ JobStep(j)
    \/ Restart

Spec == Init /\ [][Next]_vars

\* The coroutine of a job is run by the event loop until it ends: the thread
\* returns, and the LLM client bounds its calls and its retries.
FairSpec == Spec /\ \A j \in Job : WF_vars(JobStep(j))

(***************************************************************************)
(* GET: what _freshness reports                                            *)
(***************************************************************************)
Total == Cardinality(Present)

LogsSince == IF Total > logsAt THEN Total - logsAt ELSE 0

Running == \E j \in Job : jobs[j] \in {"pending", "running"}

Stale == (~lastAt /\ Total > 0) \/ LogsSince > 0

RecomputePending == Stale /\ ~Running
(***************************************************************************)
(* Properties                                                              *)
(***************************************************************************)
Status == {"none", "pending", "running", "completed", "failed"}

\* Every variable holds a value of its kind.
TypeOK ==
    /\ rows \in [Request -> Row]
    /\ table \subseteq Scenario
    /\ saved \in [Job -> Status]
    /\ savedLogs \in [Job -> Nat]
    /\ lastCompleted \in Job \cup {NoJob}
    /\ jobs \in [Job -> Status]
    /\ storeClusters \subseteq Scenario
    /\ storeRows \in [Request -> Row]
    /\ lastAt \in BOOLEAN
    /\ logsAt \in Nat
    /\ online \subseteq Scenario
    /\ nextIndex \in Nat
    /\ task \in [Job -> {"none", "queued", "clustering", "naming", "done"}]
    /\ snap \in [Job -> SUBSET Request]
    /\ old \in [Job -> SUBSET Scenario]
    /\ todo \in [Job -> SUBSET Scenario]
    /\ found \in [Job -> [Request -> Row]]
    /\ clustered \subseteq Request
    /\ late \subseteq Request
    /\ overlapped \in BOOLEAN
    /\ {postFails, faults, restarts} \subseteq Nat

\* A restart never makes the read model look fresher than it did before: what
\* _restore_recompute_state promises ("the conservative direction"), also after
\* jobs that completed and then failed to publish.
RestartConservative ==
    [][restarts' # restarts => LogsSince' >= LogsSince /\ (Stale => Stale')]_vars

\* The persisted status says where the coroutine of a job is, while there is one.
StatusInv ==
    \A j \in Job : /\ task[j] = "queued" => saved[j] = "pending"
                   /\ task[j] \in {"clustering", "naming"} => saved[j] = "running"

\* Why RestartConservative holds: only a publication that went all the way leaves
\* a count on disk, and that count is never above the one in memory.
CountInv ==
    /\ \A j \in Job : savedLogs[j] > 0 => saved[j] = "completed"
    /\ RestoredLogs <= logsAt
    /\ ~lastAt => RestoredLogs = 0

\* When the service reports a fresh read model, each row has a scenario some
\* recompute decided, or it arrived while a job was under way: the count taken
\* at completion (main.py:695) is the only way to miss a row.
FreshUnlessLate == lastAt /\ ~Stale => Present \subseteq clustered \cup late

\* Each scenario a recompute wrote to a row has its row in the clusters table,
\* provided no publication broke off and no two jobs overlapped; the job clears
\* the shared store, fills it cluster by cluster and publishes all of it.
NoDanglingScenario ==
    faults = 0 /\ ~overlapped =>
        \A r \in clustered : rows[r] \in Scenario => rows[r] \in table

\* The online path knows every published scenario, and opens new ones above all
\* it knows: restart, publication and streaming keep the clusterer in step with
\* the clusters table as long as publications do not break off.
OnlineKnowsTable ==
    faults = 0 => table \subseteq online /\ \A s \in online : s < nextIndex

\* A persisted job goes pending, running, completed or failed, and stops there,
\* whatever other jobs, failures and restarts do.
StatusOnlyAdvances ==
    [][\A j \in Job : saved'[j] # saved[j] =>
           \/ saved[j] = "none" /\ saved'[j] = "pending"
           \/ saved[j] = "pending" /\ saved'[j] \in {"running", "completed"}
           \/ saved[j] = "running" /\ saved'[j] \in {"completed", "failed"}]_saved

\* A scheduled job ends, by itself or with the process.
JobsEnd == \A j \in Job : Alive(j) ~> ~Alive(j)

(***************************************************************************)
(* Claims of the repository that the code does not keep                     *)
(***************************************************************************)

\* "recompute_pending answers 'does the stored analysis lag behind the logs'":
\* with no job under way, rows no recompute has seen raise the banner.
BannerCatchesBacklog ==
    (\A j \in Job : ~Alive(j)) /\ ~(Present \subseteq clustered) => RecomputePending

\* "A job already in flight is not pending work": a job is reported as running
\* only while its coroutine is.
RunningMeansAlive == Running => \E j \in Job : Alive(j)

\* "ids keep climbing past the loaded ones instead of colliding with them": a
\* scenario the online path opens is not the scenario of another row.
OpenedIdIsNew ==
    [][\A r \in Request :
           rows[r] = Absent /\ rows'[r] \in Scenario \ online
               => \A q \in Request : rows[q] # rows'[r]]_vars
===============================================================================
