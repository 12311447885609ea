# Prompt Radar in TLA+

TLA+ models of Prompt Radar: a service that takes the logs of an LLM assistant,
classifies each request (the *ML service*, `ml_service/`), groups requests into
scenarios, and shows what a company uses the assistant for (the *backend*,
`backend/`, and the frontend). Paths below are relative to the source tree.

Each model is checked on small instances with TLC; the invariants that matter
most are proved with TLAPS for every value of the constants. `PROJECT.json` maps
every definition to the lines it stands for.

## 1. The system

### Parts, their state, and what they do

| part | state | operations |
|---|---|---|
| ML ingest path (`app/main.py`, `app/ingest/`) | an in-memory queue of batches; one dispatcher task; a semaphore | `PUT /logs` validates, drops duplicates, queues; the worker embeds, classifies, stores |
| ML meta store (`app/database/meta_store.py`) | SQLite: assignments, clusters, recompute_jobs, ingest_log | one commit per call |
| Qdrant (`app/store/qdrant.py`) | a point per request | upsert, scroll, search |
| ML recompute (`app/recompute/`, `post_recompute`) | `STORE` (jobs, clusters, centroids, assignments) in memory, shared by all jobs; two freshness globals | re-cluster a copy of everything, name the clusters with an LLM, publish |
| Online clusterer (`app/pipeline/clustering_online/`) | centroids and the next free index per task type | join a scenario or open one |
| Embedding adapter (`app/pipeline/embeddings/`) | concurrency limit, calls in flight, success streak; an LRU cache | embed batches with retries |
| Classifier, taxonomy (`pipeline/classification/`, `domain/taxonomy.py`) | the model, threshold and fallback chosen at start-up | label a prompt, fall back when the model is missing or raises |
| Long texts (`pipeline/long_text/`) | - | windows, the choice of them, the words kept |
| Summarizer (`pipeline/summarization.py`, `adapters/llm.py`) | backend and limits chosen at start-up | name a cluster from examples, or technically |
| ML configuration (`core/config.py`) | YAML, environment, defaults | resolve modes and providers, validate, report readiness |
| Statistics (`pipeline/aggregation/builder.py`) | reads assignments and clusters | counts, top lists, trends, failures of a period |
| Normalizer (`service/ingestion/normalizer.py`) | - | turn uploaded or live records into rows and logs for ML |
| Backend ingestion (`service/ingestion/`) | Postgres: ingestion_sources, dataset_records | upload, resume, live logs, the poll behind the progress banner |
| Assignment mirror (`service/dashboard/`) | Postgres: log_assignments; a TTL cache of statistics | copy ML's assignments, serve logs and dashboard |
| Backend recompute (`service/recompute/`) | the last job id | trigger, then poll, sync and mark in the background |
| ROI, users, models (`service/roi/`, `service/analytics/`) | reads rows joined with the mirror | saved time, verdicts, personas, failures |
| Authentication, export layout | none shared | tokens, files |
| Frontend | - | polls `GET /ingest/status` for ever |

### How they interact

The backend stores an upload, answers, and streams it to ML in a background
task (`stream_source_logs`): PUTs of 200 records, a bounded wait until ML has
classified them, then a copy of ML's assignments into `log_assignments`. Polls
from open pages make the same copy for sources that ML has classified further.
ML answers a PUT at once and works through its queue later. A recompute is
triggered through the backend, runs in ML for minutes, and is finalized by a
second background task that polls ML, copies all assignments and sets the
status of every source that has not failed to `recomputed`.

Both services are single-process asyncio programs: between two `await`s a
coroutine runs alone, across an `await` everything may change. SQLite, Qdrant
and Postgres survive restarts; queues, tasks and module globals do not. None of
the cross-store writes share a transaction.

### What is hard, and what correctness means

* **Ingest**: a check before an `await` that is used after it; three writes that
  can fail apart; a queue that dies with the process. Correct: every id is
  stored and counted at most once, keeps the content accepted first, and is
  never lost without a fault.
* **Recompute**: minutes of work on a copy while rows keep arriving; jobs that
  overlap on shared memory; a job that is `completed` before it is published;
  restarts that rebuild memory from disk. Correct: the read model never looks
  fresher than it is, published scenarios exist, statuses only advance.
* **Embedding gate**: a limit that shrinks below the calls under way, retries,
  and paths that must free a slot. Correct: the counter is the calls, the limit
  rises only when that was earned, every batch comes back.
* **Mirror**: streams, the seed, polls and finalizers write it after an `await`; statuses are
  written by all of these but the polls, and by live requests. Correct: the mirror only shows what exists,
  `classified` means everything was sent, and what ML classified gets there.
* **Live requests, pages, cache**: coroutines of one event loop that read a
  counter, a page or an answer before an `await` and use it after. Correct:
  a source is never shown as waiting for records it does not have, a read of all pages
  misses nothing, what is cached is bounded in age.
* **Figures**: two services compute figures of the same prompts from two
  databases, with different vocabularies for failure, joins, defaults, limits
  and time comparisons. Correct: they agree wherever they speak of the same
  thing, each record is counted once, and no limit or configuration makes a
  text, a name or a type unusable.

The hazards in `PROJECT.json` name the line where each of these bites and the
properties that watch it.

## 2. Modules

| module | models | runs | proofs |
|---|---|---|---|
| `MlIngest` | `PUT /logs`, queue, worker, `_process_one`, restart | `ml_ingest` | `MlIngest_proofs` |
| `IngestLedger` | what a client of `PUT /logs` may rely on (abstract) | refined by `MlIngest` | |
| `MlRecompute` | `POST /recompute`, `RecomputeJob.run`, publication, freshness, hydration, online ids, restart | `ml_recompute`, `recompute_*` | `MlRecompute_proofs` |
| `ScenarioIndex` | which scenario indices a recompute may hand out | used by `MlRecompute` and `ScenarioIds` | |
| `ScenarioIds` | `run_umap_hdbscan` without its numerics, `_cap_clusters`, `stabilize_scenario_ids`, over recompute after recompute | `scenario_ids` | `ScenarioIds_proofs` |
| `EmbedSlots` | `AdaptiveConcurrency`, `_embed_batch_with_retry` | `embed_slots`, `embed_leak` | `EmbedSlots_proofs` |
| `SourceMirror` | uploads, resumes, live logs, polls, `sync_assignments`, `finalize_recompute`, restart of the backend | `source_mirror`, `mirror_catch_up` | `SourceMirror_proofs` |
| `LiveServing` | live requests and their counters, `get_assignments` page by page, the statistics cache; ML or its mock at the other end | `live_serving` | `LiveServing_proofs` |
| `InsightFlow` | one record from upload to screen: normaliser, ML under a configuration, recompute and names, mirror, figures | `insight_flow` | `InsightFlow_proofs` |
| `RecordTypes`, `DatasetNormalizer` | task types and labels; what a raw record becomes | through `InsightFlow` | `InsightFlow_proofs` |
| `MlConfig`, `TaskClassifier`, `LongText`, `ScenarioNaming` | settings and readiness; labels and fallbacks; windows of a long text; names of clusters | through `InsightFlow` | `InsightFlow_proofs` |
| `UsageStatistics`, `RoiCalculator`, `UserAnalytics`, `Dashboards` | ML's statistics; ROI; users and models; mirror rows, logs and dashboard screens | through `InsightFlow` | `InsightFlow_proofs`, `Sums_proofs` |
| `MC*` | constants for TLC | | |

Definitions whose comment begins with *Mistaken form* are plausible bugs of the
definition that follows; no specification uses them. Each shows that a property
can fail: with it in place of the right definition TLC finds the property
violated.

### MlIngest

State: the `assignments` table (`meta`: the content stored for each id), the ids
with a point (`vectors`), the counters, the queue, the current batch (items
waiting for the semaphore), the items suspended in `embed_query`.

| action | code |
|---|---|
| `PutLogs` | `put_logs`: cut at `batch_max_size`, validation, `seen_in_batch`, `has_assignment`, counters, `enqueue` |
| `TakeBatch` | `_worker_loop` gets the next batch, only after `gather` returned |
| `SkipDuplicate`, `StartEmbedding` | an item passes the semaphore; `_process_one` up to its await |
| `FinishItem`, `FailVector`, `FailCount` | the rest of `_process_one`: all three writes, or the prefix that survives an exception or a crash |
| `FailEmbedding` | the item raises before its first write |
| `Restart` | the process ends; disk stays, queue and tasks do not |

A put on the unbounded queue never suspends, so a PUT is one action. Its counters
are written only if the request or an item names a source. A content
is all that distinguishes two logs of one id. History variables: the first
accepted content of an id, the ids that met a fault, how often an id was
counted. `IngestLedger` has no queue, batch or store: a request is unseen,
accepted, stored or lost. `MlIngest` implements it under `phase` and `meta`.

### MlRecompute

State: three SQLite tables, `STORE`, the two globals, the clusterer's ids and
next index, and for each job where its coroutine is, which rows it copied, which
old ids it may match and which clusters it still has to name.

| action | code |
|---|---|
| `JoinScenario`, `OpenScenario` | `CosineClusterer.assign` and the row of a new log |
| `PostRecompute`, `PostFails` | `post_recompute` up to its answer; the scroll over Qdrant raises after the job was created |
| `StartJob` | `RecomputeJob.run` up to `to_thread`: status, remembered centroids, cleared clusters |
| `ReceiveClusters` | the thread returns; `stabilize_scenario_ids` |
| `NameCluster` | one summarizer call returns and its cluster enters `STORE` |
| `FailJob` | an exception in the clustering |
| `FinishJob`, `FinishEmptyJob` | from the last await to the end of `_run`, or to the write that raises (`reached`): nothing is written, or the rows and some of the clusters, which are committed one by one, or all |
| `Restart` | `lifespan`: `_restore_recompute_state`, `_hydrate_online_clusterer`, an empty `STORE` |

Left open: which rows form a cluster (any partition into at most `MaxClusters`
clusters and outliers), which old scenarios are matched (`ScenarioIds` decides that), whether a new log is
similar to a known scenario. Kept: which ids may be used and when.
One task type stands for all of them. A job that fails after it has finished
one type and before another leaves that type's clusters and assignments in
`STORE`; this is not distinguished.

### ScenarioIds

State: the rows of the copy and their labels, the old ids and how similar each
cluster is to each of them, the mapping built so far, `next_n`, the ids in
`STORE.centroids`, and (history) the ids ever published. The algorithm runs
without an await, so nothing interleaves with it; what makes it hard is the
long run: each recompute matches against the result of the one before, or
against what a restart or a failure has left of it.

| action | code |
|---|---|
| `StartRecompute` | the remembered and cleared centroids; `run_umap_hdbscan` up to the cap: small group, missing libraries, outliers only, or HDBSCAN's labels renumbered |
| `CapClusters` | `_cap_clusters`; the similarities of the centroids are drawn |
| `KeepIds` | `stabilize_scenario_ids`, no old centroids |
| `MatchPair` | one assignment of the loop over the sorted pairs |
| `TakeFree` | one call of `take_free` |
| `PublishIds` | `apply_id_mapping`, `remap_centroids`, `STORE.centroids` |
| `LoseCentroids` | a restart, a failing or an overlapping recompute |

Left open: HDBSCAN's labels (any with enough rows each), which kept cluster the
rows of a dropped one go to, and the similarities, which are levels drawn anew
for each recompute. `MlRecompute` assumes of a clustering that its ids are in
`IdSets` of `ScenarioIndex` and are the ids of its rows: `AsRecomputeAssumes`
says that this algorithm delivers that.

### EmbedSlots

State: limit, calls in flight, success streak, and for each batch where its
coroutine is and which attempt it makes. `acquire` and `release` run under one
lock and are one action each. Answers are reduced to success, busy (all
transport errors too), a retryable error that is not busy, an error that is not
retryable, and an exception the loop does not catch. The streak and the history
variable `earned` are counted up to `RecoverEvery`, beyond which the code tells
no difference.

### SourceMirror

State: records, statuses and mirror in Postgres; what ML was sent, its
assignments (by version: online or the job that wrote it) and its jobs; and for
each process its place and the copy it has fetched. Processes: streams (of an
upload or a resume), the seed of the preloaded datasets, live requests, polls (one
process for each page and source), the finalizer of each job. A sync is two
actions, `Fetch` and `Write`, since the answer of ML is awaited in between; its upsert is one transaction.

| action | code |
|---|---|
| `Ingest`, `Resume` | `POST /ingest`, `POST /sources/{id}/resume` up to the background task |
| `SeedCommit`, `SeedStream`, `SeedSync`, `SeedFails` | `seed_preloaded_datasets` for one data set: `ensure_preloaded`; what follows the count it asks of ML, a stream or a sync; the count raises |
| `SendBatch`, `SendFails` | one PUT of `stream_logs` answered or failing, with or without ML having taken it |
| `EndWait` | `wait_for_assignment_count` returns or times out, `_set_status` |
| `AddLive`, `SendLive`, `SendLiveFails` | `ingest_live` |
| `Poll` | `processing_status` finds a source ML has classified further |
| `Trigger`, `SeeJobEnd`, `GiveUp`, `MarkRecomputed` | `RecomputeService.trigger`, `finalize_recompute` |
| `Fetch`, `FetchFails`, `Write` | `sync_assignments` |
| `Classify`, `CompleteJob`, `JobFails` | ML as its callers see it |
| `Restart` | the backend restarts |

`POST /ingest` commits a source and starts its stream with nothing in between, so
`Ingest` is one action. The seed awaits a count of ML in between, which may raise;
the seed then ends and its source stays `ingesting` until the next start or a
resume. The seed takes its data sets one after the other; after a failure the model
lets it go on to those it has not come to, which the code leaves for the next start.

`stream_source_logs` has a clause that takes an error whose text says "timeout"
for a success (service.py:489). `MlClient._request` turns every time-out into
"ML request to ... failed", so the clause does not fire and `SendFails` has no
such case. If the wording changed, a source could become `classified` without
its records having been sent: that is the mistaken form `SendFailsSoftly`.

### LiveServing

State: the counters (`valid`) and records of live sources in Postgres; what ML
has queued and classified; each live request with the counter it has read; the
sync that reads pages; the cache entry and the dashboard requests under way.
All of it runs on one event loop: a step is what happens between two awaits.

| action | code |
|---|---|
| `LookUp`, `Commit` | `_get_or_create_live_source` up to its await; the counter written back with the records, one commit |
| `Send`, `SendFails`, `Answered` | `stream_logs`; a failure, which `ingest_live` passes on; the invalidation and the answer |
| `Classify` | ML works through its queue |
| `StartSync`, `ReadPage`, `PageFails`, `EndSync` | `get_assignments`: one page of `list_assignments` each, until the total of the last page is reached |
| `Ask`, `Compute`, `Keep`, `AskFails` | `get_dashboard`: a miss, ML's answer, `cache.set` |
| `Tick` | time: entries expire, requests time out |

A page is computed from ML's rows in the order of `ORDER BY timestamp DESC,
request_id`, by position, so rows that arrive shift the others. `service` says
whether the other end is the ML service or `tools/mock_ml`, which classifies at
once and keeps the last of two records of one id. `overlap` (history) says that
two requests had the counters read at the same time, `caught` that the cache was
dropped while a request was under way. A request to ML is taken to end within
`Timeout` ticks: `httpx` bounds each read, not the whole answer.

### InsightFlow

State: the settings and services of the ML process, the rows, the log records
made for them, ML's assignments and clusters, the mirror. The paths whose
interleavings the other modules examine are single steps here; what matters is
what they write.

| action | code |
|---|---|
| `Init` (`StartMl`) | `lifespan`: `load_settings`, the classifier with its start-up fallback, the summarizer, `/health/ready` |
| `Store` | `parse_raw`, `normalize`, `_persist_dataset` |
| `Classify` | `_process_one` for the log as first sent or as `rebuild_log_records` makes it; `prepare_for_embedding`, `predict_with_confidence`, `_failure_signals` |
| `Recompute` | any clustering, names by `summarize_scenario` over the representatives, publication |
| `SyncAssignments` | `sync_assignments(None)` |

The figures are operators over this state: `BuildStatistics`,
`BuildScenariosList`, `ComputeRoi`, `UsersAnalytics`, `ModelsAnalytics`, `Logs`,
`Dashboard`, each translated from the function of that name. The analytics
screens see what `FetchedJoined` lets them: up to a limit of rows, and beyond it
any of them, since the query asks for no order. A top list is a slice of an
ordered list, so a negative limit cuts from its end (`HeadSize`), and scenario
ids are ordered as texts (`ScenarioRank`). A text is its
number of words, a name its number of words, a status a word with the form it is
written in, a confidence a percentage, an instant a number with an offset;
money is compared over a common denominator, so no float is rounded. What a
model or an LLM answers is drawn from a set that has a good, a doubtful and an
unknown label and an exception.

## 3. Runs

| run | shows | bounds |
|---|---|---|
| `ml_ingest` | `CountedOnce`, `FirstAcceptedWins`, `NoSilentLoss`, `VectorsFollowRows`, `ImplementsLedger`, `EveryLogSettles` | 2 ids, 2 contents, 5 batches (an id twice in a batch, across batches with another content, unusable and id-less items, one batch beyond the limit of 3), 3 PUTs, 2 items at once, 1 restart |
| `ml_recompute` | `FreshUnlessLate`, `NoDanglingScenario`, `OnlineKnowsTable`, `RestartConservative`, `JobsEnd` | 2 rows, 2 jobs, 2 clusters per job, indices below 3, one failing POST, one failing run or publication, 1 restart |
| `recompute_banner` | violated: `BannerCatchesBacklog` | no faults |
| `recompute_running` | violated: `RunningMeansAlive` | one failing POST |
| `recompute_ids` | violated: `OpenedIdIsNew` | one restart |
| `scenario_ids` | `NoBlockingPair`, `IdsBounded`, `AsRecomputeAssumes` | up to 6 rows, 3 raw clusters capped to 2, 2 levels of similarity above the threshold, any number of recomputes |
| `embed_slots` | `SlotsAreCalls`, `RaisesAreEarned`, `EveryBatchEnds` | 4 batches, limit 4 down to 2, 2 successes raise it, 1 retry, 2 uncaught exceptions |
| `embed_leak` | violated: `SlotAlwaysFreed` | 1 uncaught exception |
| `source_mirror` | `MirrorJoins`, `ClassifiedWasSent`, `FailedUntilResumed`, `ClassifiedGetsMirrored`, `StreamsSettle` | an upload of 2 records, a preloaded or a live source, 2 streams and the seed, 1 job, a poll of each source, 1 fault or restart; 436 thousand states |
| `mirror_catch_up` | violated: `MirrorCatchesUp` | no fault, two pages that poll the live source |
| `live_serving` | `NoRowSkipped`, `ProgressHonest`, `CacheFollows` | 2 live requests of 2 and 1 records, a source from before or none, pages of 1 row, 1 dashboard request at a time (any number after one another), a time to live of 2 and a timeout of 1 tick; 4.6 million states |
| `insight_flow` | `FailuresAgree`, `FiguresAgree`, `TasksAddUp`, `ScenariosAgree`, `RangesAgree`, `ReadyIsRunnable`, `NamesUsable`, `LongTextKept` | 5 deployments (one with a negative `top_scenarios_limit`), 6 uploads of JSON and CSV records, 2 rows stored, one scenario per type, 4 answers of a model or LLM, filters whose bounds have offsets of their own, every limit of the analytics screens; 141 thousand states |

Each passing run also checks the type invariant of its module. Why the bounds
are enough: two ids meet every case of the duplicate checks and the third PUT
queues behind a batch under way; two jobs overlap, follow one another, or span a
restart, and a row can arrive before, during and after either; three
clusters exceed the cap by one, two clusters and two old ids with two levels are
the smallest case in which the order of the pairs matters, and the proofs cover
every other size; a limit of four
with a minimum of two is halved with calls under way, clamped, and raised again,
and two lost slots are as many as the minimum; two streams of one source overlap
while a poll and a finalizer fetch and write around them, and two records let a
stream be cut between its batches; with pages of one row every insert falls
between two pages, before or behind the reader, and two requests are what it
takes to lose an update or to create a source twice; two rows are the smallest
join in which a mirrored and an unmirrored, a succeeded and a failed, an uploaded
and a live record stand side by side under one filter, and a limit of one makes
the top lists have a rest.

Deadlock is not checked where bounds on requests make every system stop
(`MlIngest`, `MlRecompute`, `EmbedSlots`, `SourceMirror`, `InsightFlow`); it is
in `ScenarioIds` and `LiveServing`, which go on.

Violated runs are disagreements between the code and what its documentation,
comments or tests say; `findings` in `PROJECT.json` quotes both sides. In short:

* rows that arrive while a job runs count as analysed when it completes, and the
  banner stays silent about them (`main.py:695`);
* a POST that fails after creating its job leaves `recompute_running` true until
  the next restart (`main.py:621`);
* scenarios opened online are not in the table that start-up reads, and their ids
  are given out again (`cosine_clusterer.py:155`);
* an exception the retry loop does not catch keeps its slot; as many of them as
  the limit stop all embedding (`adapter.py:337`);
* a source marked `recomputed` is never polled again, so what ML classifies later,
  live logs included, waits for the next recompute (`ingestion/service.py:248`).

Disagreements met while modelling that no run is about, because no document
promises the contrary precisely enough, or because they are the reason for a
condition in a property:

* a raw status `error`, `failed` or `timeout` is not in `_STATUS_MAP` and becomes
  a success for ML (`normalizer.py:16`); ROI does not pay for it, and the logs
  screen shows a raw `error` as a failure until the row is mirrored and not
  after (`dashboard/service.py:248`);
* a resume looks the stored status up without lower-casing it, so `ERROR_TOOL` is
  sent as a success then (`ingestion/service.py:325-379`, `Sent`);
* "Users and ROI cannot disagree about hours saved" (`analytics/service.py:355`)
  needs every row to have its assignment or no gold category to go by
  (`settled` in `FiguresAgree`);
* the users and models screens read at most `MAX_ANALYTICS_RECORDS` rows, in no
  order; "say so in the response" (`analytics/service.py:44`) is not done, and
  beyond the limit they add up to less than ROI and logs (`whole` in
  `FiguresAgree`);
* a negative number of tokens is taken as it comes, so the models may be charged
  more tokens than ROI has in total (`counts` in `FiguresAgree`);
* a negative `top_tasks_limit` is not refused by the configuration and makes
  `GET /statistics` raise, while a negative `top_scenarios_limit` cuts the list
  from its end (`StatisticsRaise`, `HeadSize`);
* a configuration file that cannot be read leaves no trace in `/health/ready`,
  because `_validate` replaces the error list (`config.py:646`), and
  `mode: mock` in YAML cannot be undone by `EMBEDDINGS_MODE=online`;
* the confidence of a failed LLM fallback (0.30) is the default threshold, so it
  counts as *other*, not as *unknown*; `is_ready` is also true of a classifier
  whose model raises on every call;
* `SCENARIO_NAME_MAX_WORDS=0` is not refused and gives empty names (the
  precondition of `NamesUsable`); `chunk_size` 0 is not refused and every long
  text fails (`ChunkError`); "head + tail" keeps the first 40 words of the last
  window, not the end of the text, and a window below 40 words keeps less of the
  opening (`LongTextKept`);
* SQLite compares timestamps as text, and a bound of a period keeps the offset it
  was given with: `_parse_filter_date` says that it makes "an aware UTC datetime"
  (`deps.py:58`) and only adds UTC where there is no offset (`deps.py:82`),
  `client.py:152` sends the text of that. A record further west than the start of a
  period, or further east than its end, may fall out of it in ML and not in the
  backend: with `from=2026-07-25T03:00:00+03:00` ML omits a record of `01:00Z`
  (`RangesAgree` says that nothing else falls out);
* the docstring of `stabilize_scenario_ids` (`stability.py:35-36`) says "for each new
  centroid (sorted by size of id), pick best unused old centroid"; the code sorts
  the pairs of all clusters and takes the best first, as its comment at line 61
  says. The two differ when two clusters resemble one old scenario: the documented
  order, `BestPairsByCluster`, gives it to the lower number and breaks
  `NoBlockingPair`, the order of the code keeps it;
* nothing keeps two recomputes from overlapping. A job that has named a cluster,
  is overtaken by the start of another, which clears the store, and then publishes
  leaves rows with a scenario that is in no table, until a later recompute covers
  them (the condition of `NoDanglingScenario`);
* a count that raises ends the seed of the preloaded datasets between the commit of a
  source and its stream (`preloaded.py:83`), and the source is shown as `ingesting`
  although nothing streams it (the exception in `IngestingHasStream`);
* `post_recompute` passes no summarization settings, so ten examples are always
  taken; outliers of other task types pass the example filter of Qdrant;
* two live requests may create two sources of one name, and a lost update of the
  counter shows a source as done early (`overlap` in `ProgressHonest`);
* `tools/mock_ml` keeps the last record of an id and counts a duplicate as
  accepted, where the service keeps the first.

### Fairness

* `MlIngest`: the dispatcher loop runs as long as the service; an embedding call
  returns because the adapter bounds attempts, back-off (45 s) and request time.
* `MlRecompute`: a job's coroutine is run by the event loop; the thread returns
  and the LLM client bounds its calls. Weak fairness of each job's steps.
* `EmbedSlots`: `release` wakes all waiters, so one whose condition holds is
  resumed; calls are answered or time out; sleeps end.
* `SourceMirror`: background tasks run on, `httpx` and the waits have time
  limits, and the banner of an open page polls for ever
  (`ProcessingBanner.tsx:26-44`): weak fairness of each process for itself. The seed
  is not assumed to get past its count, ML is not assumed to classify anything, and no
  restart, upload or recompute is assumed to happen.

* `LiveServing` and `InsightFlow` state safety only.

No fairness is assumed of clients, faults, restarts or the arrival of rows.

## 4. Proofs

For every finite or infinite set of ids, any batches, any number of streams, jobs
and faults, under the named assumptions of each module (constants of the right
kind, special values distinct).

* **MlIngest_proofs**: `TypeCorrect`, `CountedAtMostOnce`, `StoredIsFinal`,
  `PointsFollowRows`, `NothingLostSilently`, `FirstIsKept`, `KeepsTheLedger`,
  `WorkInvariant`, `WorkAlwaysShrinks`.
  `CountedOnce` is not inductive: counting an id a second time needs two logs of
  that id past the check. The strengthening `OnceInv` says that the batch and the
  items in flight have distinct ids, that each queued batch has, that no item in
  flight has a stored id, and that a counted id is stored. The second is
  `seen_in_batch`, the first the one-batch-at-a-time dispatcher, the third the
  check in `_process_one`. `FirstIsKept` needs the order of service: `OrderInv`
  says that what is pending was accepted, and that the next log of an id that is
  neither stored nor hit by a fault carries the content accepted first.
  `KeepsTheLedger` maps every action to a ledger step or a stutter.
* **MlRecompute_proofs**: `JobsInvariant`, `RestartIsConservative`,
  `StatusAdvances`, `TypeCorrect`, `OnlineIsInStep`, `FreshIsFresh`,
  `NothingDangles`, `JobsCanAlwaysMove`, `JobsOnlyAdvance`. `CountInv` ties the count on disk to the one in memory: only
  a publication that went all the way writes it, as it sets the global.
  `StatusInv` ties the status on disk to the coroutine. The type invariant needs
  tables and work lists to be finite (`TypeInv`), or the next index would be the
  `CHOOSE` of a maximum that need not exist. `FreshInv` says that what a job's
  copy lacks is late and that equal counts mean every row was published or late;
  `DanglingInv` follows what the only job under way has cleared, found and
  written.
* **ScenarioIds_proofs**: every property of the run, for every cap, number of rows
  and similarity. Counting predecessors in a finite order is a bijection
  (`PositionsFill` in `Sums_proofs`); it gives the renumbering without gaps and the size of the
  kept set. An id from `take_free` is below the cap because all smaller ones are
  in use (`Filled`), each by another cluster (`NoCollision`), while one cluster
  has none. `Greedy` strengthens `NoBlockingPair` to the middle of the loop, and
  `FromOld` says that the ids in use are matched old ids and the gaps below
  `next_n`.
* **EmbedSlots_proofs**: `TypeCorrect`, `SlotsCounted`, `RaisesEarned`,
  `StepsAlwaysRunOut`, `NobodyEverStuck`. The count
  of slots is inductive together with the types; a raise needs `streak <= earned`
  (`StreakInv`): no success is counted twice across a busy answer.
* **SourceMirror_proofs**: `TypeCorrect`, `MirrorAlwaysJoins`, `ClassifiedIsSent`,
  `FailedStays`, `IngestingHasStream`. The last says that a source shown as
  `ingesting` is streamed, unless the backend was restarted or the seed has sent
  nothing of it yet (`Unsent`: it is counting, or a failed count has ended it).
  `JoinInv` orders the stores (committed before sent, sent before
  assigned, assigned before fetched or written); `SentInv` says that what a
  stream has sent and what it has left make up its source.
* **LiveServing_proofs**: every property of the run, for any requests, batches,
  timestamps, page size and times. `LiveInv`: records are committed before ML has
  them, and neither a counter nor what a request has read of it exceeds the
  source's records; without an overlap they are equal. `PagerInv`: of the rows
  there were at the start, those whose position is below the offset have been
  read; arrivals only push positions up, so the next page continues or repeats.
  `CacheInv` binds an entry's age to the time it has left.
* **InsightFlow_proofs**: `TypeCorrect`, `FailuresNeverDisagree`,
  `FiguresAlwaysAgree`, `TasksAlwaysAddUp`, `ScenariosAlwaysAgree`,
  `TopsAlwaysLead`, `RoiAlwaysAddsUp`, `RangesAlwaysAgree`, `ReadyMeansRunnable`,
  `NamesAlwaysUsable`, `LongTextAlwaysKept`, for any deployments, uploads, answers
  and filters. `RangesAlwaysAgree` rests on the order of the texts: they are in
  order where the instants and the offsets are (`TextOrder`).
  `FlowInv` says what a row, its log record, its assignment and its mirrored copy
  have in common; the settings are resolved and numeric whatever file and
  environment say (`LlmResolved`, `KnobsAreNumbers`). For the windows, the last
  one is the least that reaches the end (`ChunkFacts`), the least window that
  reaches a word also begins before it (`WindowsCover`), and what is kept is the
  image of `SummaryChunks * ChunkWords` pairs (`KeptIsShort`).
  The theorems about figures need `TablesInv` besides: the rows are finitely many,
  published scenarios have a known type and an index, and after a sync the mirror
  repeats every assignment. Each screen splits the same rows in its own way (users, models,
  categories, days, scenarios), and a sum over the parts is the sum over the
  whole. A top list is a set of leaders in a total order of counts and names; that
  there are as many as the slice has is `PositionsFill` again (`LeadersLead`).
  `TopsLead` and `RoiAddsUp` are stated with their theorems; no run lists them.
* **Sums_proofs**: the lemmas about sums. The community operators fold a function
  over a set in an order picked by `CHOOSE`; the fold is freed of that order once
  (a sum with one key more is the sum plus that key's value), by induction over
  the subsets of the set, stated with sets as hypotheses since the provers
  cannot instantiate an operator. On it rest monotony, splitting a sum along a
  partition, and cardinality as a sum of ones.

Assumptions: `FlowAssumption` says what an uploaded record is (a text of at least
a word or none, an instant, a garbled or no time, a status that is a word or
none), that knobs are numbers, unset or unreadable, and that an LLM's name is a
number of words or an exception; `LongTextAssumption` and `NamingAssumption` that
the limits in the code are at least two windows and three words, as they are.

Every invariant and every action property of the passing runs is proved, and so
is the refinement. Model-checked only: liveness, which rests on fairness and
ENABLED and is out of TLAPS's reach. What it rests on is proved where it is a
matter of safety:

| liveness | proved of it | left to TLC |
|---|---|---|
| `EveryBatchEnds` | each step uses up one of a bounded number of steps of one batch and gives none back (`StepsRunOut`); while batches wait, a slot is free or a call is under way, unless `MinLimit` exceptions have kept theirs (`NobodyStuck`) | that fairness turns these two into an end |
| `EveryLogSettles` | without new requests and restarts each step lowers the queue, the batch or the calls under way, in that order (`WorkShrinks`) | that a pending log leaves the worker a step, and fairness |
| `JobsEnd` | a job's step takes it further and nothing takes a job back (`JobsAdvance`); one under way has a clustering to receive or a cluster to name (`JobsCanMove`, for a configuration that allows a cluster) | fairness |
| `StreamsSettle` | a source that is shown as ingesting has a stream that sends or waits, unless the backend was restarted or the seed has sent nothing of it (`IngestingStreamed`) | that the stream's steps run out, and fairness |
| `ClassifiedGetsMirrored` | - | all of it |

These definitions stand in the modules of their proofs.

## 5. Plan

Done: the modules above, in the order of how much depends on them.

Next, where the model can still be extended:

1. `MlRecompute` with more than one task type and jobs that fail between two.
2. The order of the versions that two overlapping syncs write.
3. The embedding cache (LRU) and the in-memory mock of Qdrant.

Then proving: that what a sync fetched is not older than what it overwrites unless
two overlap, and that the steps of streams and syncs run out, for
`StreamsSettle` and `ClassifiedGetsMirrored`.

### Not modelled

* UMAP, HDBSCAN, cosine similarity, CatBoost, embeddings: numerical; what the
  code does with their results is modelled for any result.
* Prompts, HTTP payloads, layouts, labels in Russian: wording.
* The recompute scheduler: the service builds it and never starts it.
* Authentication, backend infrastructure and the frontend: no shared state, or a
  client. Its endless poll is the fairness assumption of `SourceMirror`.
* Tools and scripts other than the mock of ML, training scripts and
  stand-alone data-set tools: not part of the running system.
