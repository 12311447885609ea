----------------------------- MODULE InsightFlow -----------------------------
(* From an uploaded prompt to the figures on the screens: the backend         *)
(* normalises and stores raw records, ML classifies them under the settings   *)
(* it started with, a recompute gives them scenarios and names, the backend   *)
(* mirrors what ML decided, and two services compute figures of the same rows *)
(* from two databases. The order of messages, failures and restarts are in    *)
(* MlIngest, MlRecompute and SourceMirror; here each of those paths is one    *)
(* step per record, and what matters is what the steps write.                 *)
EXTENDS Dashboards, TaskClassifier, MlConfig, LongText, ScenarioNaming

CONSTANTS Deployments,      \* the [yaml, env, file, qdrantMock] ML may start with
          Uploads,          \* the [source, format, raws] that may be posted
          Answers,          \* what the model or an LLM answers about a record
          Hints,            \* the keyword groups a text may match
          NameAnswers,      \* what an LLM answers about a cluster
          MaxRows,          \* bound: rows stored
          MaxIndex,         \* bound: the largest scenario index
          Filters           \* the filters asked for

ASSUME FlowAssumption ==
    /\ \A d \in Deployments, k \in KnobNames :
          {d.yaml.knobs[k], d.env.knobs[k]} \subseteq Int \cup {NotSet, BadNumber}
    /\ \A u \in Uploads : DOMAIN u.raws = 1..Len(u.raws) /\ Len(u.raws) \in Nat
    /\ \A u \in Uploads : \A i \in DOMAIN u.raws : WellFormed(u.raws[i])
    /\ NameAnswers \subseteq Nat \cup {AnswerRaises}
    /\ \A f \in Filters : {f.from, f.to} \subseteq Stamps \cup {None}
    /\ None \notin (CoreTypes \cup ServiceTypes) \X Nat
    /\ None \notin CoreTypes \cup ServiceTypes
    /\ MaxIndex \in Nat

VARIABLES ml,               \* the settings and services of the ML process
          rows,             \* dataset_records: request id -> row
          logs,             \* the log records made for them: request id -> record
          assigned,         \* ML's assignments: request id -> assignment
          clusters,         \* ML's clusters table: scenario id -> metadata
          mirror,           \* log_assignments: request id -> mirrored assignment
          synced            \* the mirror was written after ML's last change

vars == <<ml, rows, logs, assigned, clusters, mirror, synced>>

Empty == [x \in {} |-> None]

\* The entries of f, and under other keys those of g.
Over(f, g) == [x \in DOMAIN f \cup DOMAIN g |-> IF x \in DOMAIN f THEN f[x] ELSE g[x]]

(* ML's start (main.py, lifespan). The similarity threshold and the batch       *)
(* limits go to the parts modelled elsewhere.                                  *)
StartMl(deployment) ==
    LET loaded == LoadSettings(deployment.yaml, deployment.env)
        s == loaded.settings
        classifier == NewClassifier(deployment.file,
                                    StartupFallback(deployment.file, s.fallback, s.key,
                                                    Given(deployment.env.emb.provider, s.emb.provider)),
                                    s.knobs.threshold, s.key)
    IN  [settings |-> s,
         classifier |-> classifier,
         summarizer |-> NewSummarizer(s),
         health |-> HealthReady(loaded, ReadinessStatus(classifier), deployment.qdrantMock)]

Init ==
    /\ ml \in {StartMl(d) : d \in Deployments}
    /\ rows = Empty
    /\ logs = Empty
    /\ assigned = Empty
    /\ clusters = Empty
    /\ mirror = Empty
    /\ synced = TRUE

(* The backend's side.                                                         *)
Ids(made) == {made.rows[i].id : i \in DOMAIN made.rows}
Position(made, id) == CHOOSE i \in DOMAIN made.rows : made.rows[i].id = id

\* ingest() and ingest_live() up to their commit: two records of one id, in the batch or
\* with a stored one, break the unique key and nothing of the batch is stored.
Store(upload) ==
    LET made == Normalize(ParseRaw(upload.raws, upload.format), upload.source, upload.source)
    IN  /\ Cardinality(DOMAIN rows) + Cardinality(DOMAIN made.rows) <= MaxRows
        /\ Cardinality(Ids(made)) = Cardinality(DOMAIN made.rows)
        /\ Ids(made) \cap DOMAIN rows = {}
        /\ rows' = Over([id \in Ids(made) |-> made.rows[Position(made, id)]], rows)
        /\ logs' = Over([id \in Ids(made) |-> made.logs[Position(made, id)]], logs)
        /\ UNCHANGED <<ml, assigned, clusters, mirror, synced>>

(* ML's side.                                                                  *)
\* The log record as it was sent first, or as a resume rebuilds it.
Sent(id) == {logs[id], RebuiltRecord(rows[id])}

\* _process_one(), with the online scenario it joins or opens.
Classify(id) ==
    /\ id \notin DOMAIN assigned
    /\ PrepareForEmbedding(rows[id].text, ml.settings.knobs) # ChunkError
    /\ \E log \in Sent(id), hints \in Hints, model \in Answers, llm \in Answers :
          LET verdict == PredictWithConfidence(ml.classifier, hints, model, llm)
          IN  /\ verdict # Raises
              /\ assigned' = Over([i \in {id} |->
                                    [type |-> verdict.type, scenario |-> <<verdict.type, 0>>,
                                     outlier |-> FALSE, signals |-> FailureSignals(log),
                                     source |-> log.source, ts |-> log.ts, text |-> log.text,
                                     rewritten |-> FALSE]], assigned)
    /\ synced' = FALSE
    /\ UNCHANGED <<ml, rows, logs, clusters, mirror>>

\* RecomputeJob.run() and its publication: every row gets a scenario of its type or is
\* an outlier, every new cluster a name, and old clusters stay in the table.
ScenariosOf(type) == {<<type, k>> : k \in 0..MaxIndex}
Clusterings == {f \in [DOMAIN assigned -> {None} \cup UNION {ScenariosOf(assigned[id].type) : id \in DOMAIN assigned}] :
                    \A id \in DOMAIN assigned : f[id] \in {None} \cup ScenariosOf(assigned[id].type)}
Names(scenario, members) ==
    {SummarizeScenario(ml.summarizer, examples, answers) :
        examples \in Examples(assigned, members, scenario),
        answers \in [1..ml.summarizer.attempts -> NameAnswers]}
Recompute ==
    /\ DOMAIN assigned # {}
    /\ \E scenario \in Clusterings :
          LET found == {scenario[id] : id \in DOMAIN assigned} \ {None}
              members(s) == {id \in DOMAIN assigned : scenario[id] = s}
          IN  /\ \E name \in [found -> UNION {Names(s, members(s)) : s \in found}] :
                    /\ \A s \in found : name[s] \in Names(s, members(s))
                    /\ clusters' = Over([s \in found |-> [type |-> s[1], name |-> name[s],
                                                          size |-> Cardinality(members(s))]], clusters)
              /\ assigned' = [id \in DOMAIN assigned |->
                                 [assigned[id] EXCEPT !.scenario = scenario[id],
                                                      !.outlier = (scenario[id] = None),
                                                      !.rewritten = TRUE]]
    /\ synced' = FALSE
    /\ UNCHANGED <<ml, rows, logs, mirror>>

(* Back in the backend.                                                        *)
\* get_assignments() and get_scenarios(), as sync_assignments() puts them together.
Fetched == [id \in DOMAIN assigned |->
               MirrorRow(assigned[id], [s \in DOMAIN clusters |-> clusters[s].name])]

\* Mistaken form: a row that is there already is left alone.
SyncAssignmentsOnce ==
    /\ DOMAIN assigned # {}
    /\ mirror' = Over(mirror, Fetched)
    /\ synced' = TRUE
    /\ UNCHANGED <<ml, rows, logs, assigned, clusters>>

\* sync_assignments(None): everything ML has, over what the mirror had.
SyncAssignments ==
    /\ DOMAIN assigned # {}
    /\ mirror' = Over(Fetched, mirror)
    /\ synced' = TRUE
    /\ UNCHANGED <<ml, rows, logs, assigned, clusters>>

Next ==
    \/ \E upload \in Uploads : Store(upload)
    \/ \E id \in DOMAIN rows : Classify(id)
    \/ Recompute
    \/ SyncAssignments

Spec == Init /\ [][Next]_vars

------------------------------------------------------------------------------
\* Rows, log records and assignments have one id space, an assignment's type is one
\* the taxonomy knows, and an outlier has no scenario.
KnownTypes == CoreTypes \cup ServiceTypes
TypeOK ==
    /\ DOMAIN logs = DOMAIN rows
    /\ DOMAIN assigned \subseteq DOMAIN rows
    /\ DOMAIN mirror \subseteq DOMAIN assigned
    /\ \A id \in DOMAIN assigned : /\ assigned[id].type \in KnownTypes
                                   /\ assigned[id].outlier <=> assigned[id].scenario = None
    /\ \A id \in DOMAIN mirror : mirror[id].type \in KnownTypes
    /\ synced \in BOOLEAN

\* The three ways a failure is told never contradict each other about a success: what
\* ROI pays for is shown as a failure by no screen, what ML was told is an error is
\* never paid for, and a failure in the logs is listed by only_failures (normalizer
\* _STATUS_MAP, roi calculator, dashboard _map_log_row, analytics).
FailuresAgree ==
    \A id \in DOMAIN rows :
        /\ Succeeded(rows[id]) => ~LogFailure(rows, mirror, id)
        /\ Succeeded(rows[id]) => ~ShownFailure(rows, mirror, id, UserFailureWords)
        /\ LogFailure(rows, mirror, id) => ShownFailure(rows, mirror, id, UserFailureWords)
        /\ id \in DOMAIN assigned /\ assigned[id].signals # {} => ~Succeeded(rows[id])

\* The ROI, users, models and logs screens are made of one join. Whatever the filter
\* and the limit of the analytics screens (one above the number of rows leaves out
\* none, as that number itself does), and whatever rows it leaves out, users and models are
\* charged no failure the logs do not list and no token ROI does not count, as long as
\* no record counts negative tokens; when the limit leaves nothing out, the users add
\* up to the records, the failures and the saved time of the other screens, as
\* _saved_minutes claims, unless a row waits for its assignment with only a gold
\* category to go by, and otherwise to no more.
FiguresAgree ==
    \A filter \in Filters :
        LET loaded == Loaded(rows, filter)
            failures == DOMAIN Logs(rows, mirror, filter, TRUE)
            roi == ComputeRoi(rows, mirror, filter).summary
            settled == \A id \in loaded : id \in DOMAIN mirror \/ rows[id].gold = None \/ Measured(rows[id])
            counts == \A id \in loaded : OrElse(rows[id].tokens, 0) >= 0
        IN  \A limit \in 1..Cardinality(loaded) : \A fetched \in FetchedJoined(rows, filter, limit) :
                LET whole == limit = Cardinality(loaded)
                    users == UsersAnalytics(rows, mirror, fetched).users
                    models == ModelsAnalytics(rows, mirror, fetched)
                    perUser(of(_)) == SumFunction([u \in DOMAIN users |-> of(users[u])])
                    perModel(of(_)) == SumFunction([m \in DOMAIN models |-> of(models[m])])
                    failed == perUser(LAMBDA u : u.failures)
                    saved == perUser(LAMBDA u : u.saved)
                IN  /\ perUser(LAMBDA u : u.queries) = limit
                    /\ whole => limit = roi.count
                    /\ failed <= Cardinality(failures)
                    /\ whole => failed = Cardinality(failures)
                    /\ perModel(LAMBDA m : m.failures) <= failed
                    /\ counts => perModel(LAMBDA m : m.tokens) <= roi.tokens
                    /\ settled => saved <= roi.saved
                    /\ whole /\ settled => saved = roi.saved

\* Whatever the limits of the top lists, each record is counted once: the task
\* distribution and the days add up to the records, and the scenarios with their rest
\* to the records of published clusters (top_n_distribution, top_n_scenarios).
TasksAddUp ==
    ~StatisticsRaise(ml.settings.knobs) =>
        \A filter \in Filters :
            LET stats == BuildStatistics(assigned, clusters, filter, ml.settings.knobs)
                shown(t) == Dashboard(stats).tasks[t].count
            IN  /\ SumFunction([t \in DOMAIN stats.tasks |-> shown(t)]) = stats.records
                /\ SumFunction(stats.dynamics) = stats.records
                /\ stats.unknown > 0 => stats.tasks["unknown"] = stats.unknown
                /\ SumFunction([s \in DOMAIN stats.top.items |-> stats.top.items[s].count])
                   + stats.top.other + stats.outliers <= stats.records
                /\ Cardinality(DOMAIN stats.top.items) + (IF stats.top.other > 0 THEN 1 ELSE 0)
                   <= stats.scenarios

\* After a sync the two databases tell the same story of a scenario: what ML counts
\* for a published cluster is what ROI adds up for it and what the logs show under it.
ScenariosAgree ==
    synced =>
        LET list == ScenarioCards(BuildScenariosList(assigned, clusters, AnyRow, ml.settings.knobs), AnyRow)
            roi  == ComputeRoi(rows, mirror, AnyRow).scenarios
            shown(s) == {id \in DOMAIN rows : LogItem(rows, mirror, id).scenario = s}
        IN  \A s \in DOMAIN clusters :
                /\ list[s].count = Cardinality(shown(s))
                /\ list[s].count = (IF s \in DOMAIN roi THEN roi[s].count ELSE 0)
                /\ \A id \in shown(s) : LogItem(rows, mirror, id).name = clusters[s].name

\* The period of the two services, as far as it is one: what ML counts in it the backend
\* counts too; and a row the backend counts is missing from ML's figures only when it was
\* written further west than the start of the period, or further east than its end, since
\* _filter_clause() compares texts, whose local times then differ from the instants.
RangesAgree ==
    \A filter \in Filters :
        LET counted == Selected(assigned, filter)
            joined  == Loaded(rows, filter) \cap DOMAIN assigned
            west(id) == filter.from # None /\ assigned[id].ts.off < filter.from.off
            east(id) == filter.to # None /\ assigned[id].ts.off > filter.to.off
        IN  /\ counted \subseteq joined
            /\ {id \in joined : ~west(id) /\ ~east(id)} \subseteq counted

\* "ready" is said only of a process that works as configured: the model labels, a
\* fallback only where the model raised; the summarizer can reach its LLM; and the
\* providers are those the modes name, unless a mock was asked for by name.
ReadyIsRunnable ==
    ml.health = "ready" =>
        /\ IsAvailable(ml.summarizer)
        /\ ml.settings.llm.mode \in OnlineWords => ml.summarizer.backend = "openrouter"
        /\ ml.settings.llm.mode \in OfflineWords => ml.summarizer.backend = "ollama"
        /\ ml.settings.emb.mode \in OnlineWords => ml.settings.emb.provider \in {"openrouter", "mock"}
        /\ ml.settings.emb.mode \in OfflineWords => ml.settings.emb.provider \in {"ollama", "mock"}
        /\ \A hints \in Hints, model \in Answers, llm \in Answers :
              LET verdict == PredictWithConfidence(ml.classifier, hints, model, llm)
              IN  verdict # Raises /\ verdict.source # "catboost" => model = Raises

\* Every published cluster has a name of at least one word and at most four, whatever
\* the LLM answered, as long as the configured limit leaves a word (ScenarioSummary).
NamesUsable ==
    ml.settings.knobs.max_words >= 1 =>
        \A s \in DOMAIN clusters : clusters[s].name.words \in 1..WordLimit

\* A long text loses words only under a strategy that says so, keeps its opening words
\* and some of its last window, and no word falls between two windows
\* (prepare_for_embedding: "no silent truncation of the whole document").
LongTextKept ==
    \A id \in DOMAIN rows :
        LET n == rows[id].text
            knobs == ml.settings.knobs
            kept == PrepareForEmbedding(n, knobs)
            chunks == Chunks(n, knobs.chunk, knobs.overlap)
        IN  kept # ChunkError =>
                /\ kept.words # 1..n => kept.strategy = "chunk_summary"
                /\ 1..Min({n, knobs.chunk, ChunkWords}) \subseteq kept.words
                /\ kept.strategy = "chunk_summary" =>
                      /\ \A w \in 1..n : \E k \in DOMAIN chunks : w \in chunks[k].first .. chunks[k].last
                      /\ \E w \in kept.words : w > n - knobs.chunk
                      /\ Cardinality(kept.words) <= SummaryChunks * ChunkWords
==============================================================================
