--------------------------- MODULE UsageStatistics ---------------------------
(* ML: what GET /statistics and GET /scenarios make of the stored assignments *)
(* (pipeline/aggregation/builder.py), the queries behind them (database/      *)
(* meta_store.py, main.py) and the shape the backend accepts (service/ml/     *)
(* statistics_validation.py). Assignments are a function from request ids to  *)
(* records with type, scenario, outlier, signals, source, ts and text;        *)
(* clusters are a function from scenario ids to their published metadata.     *)
(* A filter is [source, from, to], each None or a value; a bound is an instant *)
(* with an offset, as [at, off]. Lists whose order only lays a screen out are *)
(* functions or sets.                                                         *)
EXTENDS RecordTypes, FiniteSetsExt

(* Which rows are counted.                                                     *)
\* ISO texts as SQLite compares them: the local time each was written with, and where
\* that is the same, the offset. "+" comes before "-", then the hours count.
Local(stamp) == stamp.at + stamp.off
OffsetAtMost(o, p) == IF o >= 0 THEN p < 0 \/ o <= p ELSE p < 0 /\ p <= o
TextAtMost(s, t) == Local(s) < Local(t) \/ (Local(s) = Local(t) /\ OffsetAtMost(s.off, t.off))

\* _filter_clause(): the column holds the text of the record's timestamp, and a bound
\* arrives as the backend parsed it: an offset given with it is kept, not made UTC.
InClause(a, filter) ==
    /\ filter.source # None => a.source = filter.source
    /\ filter.from # None => TextAtMost(filter.from, a.ts)
    /\ filter.to # None => TextAtMost(a.ts, filter.to)

\* _filter_assignments(): the same filter again, on the parsed instants.
InRange(a, filter) ==
    /\ filter.source # None => a.source = filter.source
    /\ filter.from # None => a.ts.at >= filter.from.at
    /\ filter.to # None => a.ts.at <= filter.to.at

\* Mistaken form: the text comparison alone decides.
SelectedBySql(assigned, filter) == {id \in DOMAIN assigned : InClause(assigned[id], filter)}

\* get_statistics() (main.py): all_assignments() and then build_statistics().
Selected(assigned, filter) ==
    {id \in DOMAIN assigned : InClause(assigned[id], filter) /\ InRange(assigned[id], filter)}

(* Top-N and the rest.                                                         *)
\* The order of sorted(key=(-count, key)); rank numbers the keys in their own order.
Ahead(counts, rank, a, b) ==
    \/ counts[a] > counts[b]
    \/ counts[a] = counts[b] /\ rank[a] < rank[b]

\* Task types in alphabetical order, and scenario ids <<type, index>> as the texts
\* "type:cluster_index", where 10 comes before 2; indices have at most three digits.
TypeRank == [code_help |-> 1, data_analysis |-> 2, education |-> 3, information_search |-> 4,
             other |-> 5, task_management |-> 6, text_generation |-> 7, unknown |-> 8]
MaxRanked == 999
ByDigits(index) == IF index < 10 THEN 100 * index ELSE IF index < 100 THEN 10 * index ELSE index
Then(rank, next) == (MaxRanked + 1) * rank + next
ScenarioRank(ids) == [s \in ids |-> Then(Then(TypeRank[s[1]], ByDigits(s[2])), s[2])]

\* ordered[:limit]: a negative limit leaves so many out at the end.
HeadSize(keys, limit) == IF limit >= 0 THEN limit ELSE Cardinality(keys) + limit

\* The first of the keys in that order.
Leaders(counts, rank, keys, limit) ==
    {k \in keys : Cardinality({j \in keys \ {k} : Ahead(counts, rank, j, k)}) < HeadSize(keys, limit)}

\* Mistaken form: unknown is shown for itself and ranked with the rest.
TopDistributionTwice(counts, rank, limit) ==
    LET shown == {k \in DOMAIN counts : counts[k] > 0}
        head  == Leaders(counts, rank, shown, limit)
        tail  == SumFunctionOnSet(counts, shown \ head)
        keys  == head \cup (shown \cap {"unknown"}) \cup (IF tail > 0 THEN {"other"} ELSE {})
    IN  [k \in keys |-> (IF k \in head \cup {"unknown"} THEN counts[k] ELSE 0)
                        + (IF k = "other" THEN tail ELSE 0)]

\* top_n_distribution(): the tail is added to `other`, wherever `other` stands, and
\* unknown is shown for itself.
TopDistribution(counts, rank, limit) ==
    LET shown == {k \in DOMAIN counts : counts[k] > 0}
        rest  == shown \ {"unknown"}
        head  == Leaders(counts, rank, rest, limit)
        tail  == SumFunctionOnSet(counts, rest \ head)
        keys  == head \cup (shown \cap {"unknown"}) \cup (IF tail > 0 THEN {"other"} ELSE {})
    IN  [k \in keys |-> (IF k \in head \cup {"unknown"} THEN counts[k] ELSE 0)
                        + (IF k = "other" THEN tail ELSE 0)]

\* top_n_scenarios(): the head keeps its metadata, the tail becomes one nameless bucket.
TopScenarios(counts, rank, limit, clusters) ==
    LET shown == {k \in DOMAIN counts : counts[k] > 0}
        head  == Leaders(counts, rank, shown, limit)
    IN  [items |-> [k \in head |-> [type |-> clusters[k].type, name |-> clusters[k].name,
                                   count |-> counts[k]]],
         other |-> SumFunctionOnSet(counts, shown \ head)]

(* Trends.                                                                     *)
\* compute_trend()
Trend(previous, current, knobs) ==
    CASE previous = 0 -> IF current > 0 THEN "new" ELSE "insufficient_data"
      [] previous > 0 /\ (previous + current < knobs.trend_total \/ previous < knobs.trend_previous) ->
            "insufficient_data"
      [] OTHER -> CASE (current - previous) * 100 > knobs.trend_percent * previous -> "up"
                    [] (previous - current) * 100 > knobs.trend_percent * previous -> "down"
                    [] OTHER -> "stable"

\* _half_period_bounds(): the middle of the rows' time span, doubled.
TwiceMiddle(assigned, ids) ==
    LET stamps == {assigned[id].ts.at : id \in ids} IN Min(stamps) + Max(stamps)

\* _scenario_trends(): the two halves are counted without the outliers.
ScenarioTrend(assigned, ids, scenario, knobs) ==
    LET own == {id \in ids : ~assigned[id].outlier /\ assigned[id].scenario = scenario}
        first == {id \in own : 2 * assigned[id].ts.at <= TwiceMiddle(assigned, ids)}
    IN  IF own = {} THEN None
        ELSE IF Cardinality(ids) < 2 THEN "insufficient_data"
        ELSE Trend(Cardinality(first), Cardinality(own \ first), knobs)

(* The payload.                                                                *)
\* _failure_analysis() over the columns the store keeps: the signals of the ingest
\* path and the flag made of them.
FailureAnalysis(assigned, ids) ==
    LET failing == {id \in ids : assigned[id].signals # {}}
    IN  [status |-> IF failing = {} THEN "not_available" ELSE "available",
         requests |-> Cardinality(failing)]

\* _dynamics(): rows by the date their timestamp was written with.
Day(a) == Local(a.ts) \div DayLength
Dynamics(assigned, ids) ==
    [d \in {Day(assigned[id]) : id \in ids} |-> Cardinality({id \in ids : Day(assigned[id]) = d})]

\* top_n_distribution() raises on a negative limit, and with it GET /statistics.
StatisticsRaise(knobs) == knobs.top_tasks < 0

\* build_statistics(), where it does not raise.
BuildStatistics(assigned, clusters, filter, knobs) ==
    LET ids   == Selected(assigned, filter)
        types == {assigned[id].type : id \in ids}
        inCluster == {id \in ids : ~assigned[id].outlier /\ assigned[id].scenario \in DOMAIN clusters}
        taskCount == [t \in types |-> Cardinality({id \in ids : assigned[id].type = t})]
        scenarioCount == [s \in {assigned[id].scenario : id \in inCluster} |->
                              Cardinality({id \in inCluster : assigned[id].scenario = s})]
    IN  [records   |-> Cardinality(ids),
         unknown   |-> Cardinality({id \in ids : assigned[id].type = "unknown"}),
         outliers  |-> Cardinality({id \in ids : assigned[id].outlier}),
         scenarios |-> Cardinality(DOMAIN scenarioCount),
         tasks     |-> TopDistribution(taskCount, TypeRank, knobs.top_tasks),
         top       |-> TopScenarios(scenarioCount, ScenarioRank(DOMAIN scenarioCount), knobs.top_scenarios, clusters),
         trends    |-> [s \in DOMAIN scenarioCount |-> ScenarioTrend(assigned, ids, s, knobs)],
         dynamics  |-> Dynamics(assigned, ids),
         failures  |-> FailureAnalysis(assigned, ids)]

\* build_scenarios_list(): every published cluster, those without a row in the range
\* too; their records_count then falls back on what the recompute stored.
BuildScenariosList(assigned, clusters, filter, knobs) ==
    LET ids == Selected(assigned, filter)
        own(s) == Cardinality({id \in ids : ~assigned[id].outlier /\ assigned[id].scenario = s})
    IN  [s \in DOMAIN clusters |->
            [count |-> own(s),
             records |-> IF own(s) > 0 THEN own(s) ELSE clusters[s].size,
             trend |-> ScenarioTrend(assigned, ids, s, knobs)]]
===============================================================================
