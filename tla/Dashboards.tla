------------------------------ MODULE Dashboards ------------------------------
(* backend service/dashboard: the mirror of ML's assignments and the screens   *)
(* that read ML's statistics and the joined log rows. rows and mirror are as   *)
(* in RoiCalculator.                                                           *)
EXTENDS UserAnalytics, UsageStatistics

\* sync_assignments(): what one fetched assignment becomes in log_assignments.
MirrorRow(a, names) ==
    [type |-> a.type, scenario |-> a.scenario,
     name |-> IF a.scenario \in DOMAIN names THEN names[a.scenario] ELSE None,
     outlier |-> a.outlier, failure |-> a.signals # {}]

\* _map_log_row(): the raw status decides only while there is no assignment.
LogFailure(rows, mirror, id) ==
    \/ Joined(mirror, id, "failure", FALSE)
    \/ /\ id \notin DOMAIN mirror
       /\ rows[id].status.form = "plain"
       /\ rows[id].status.word \in UserFailureWords
LogItem(rows, mirror, id) ==
    LET type == Joined(mirror, id, "type", None)
    IN  [type |-> type, label |-> IF type = None THEN None ELSE Label(type),
         scenario |-> Joined(mirror, id, "scenario", None),
         name |-> Joined(mirror, id, "name", None),
         outlier |-> Joined(mirror, id, "outlier", FALSE),
         failure |-> LogFailure(rows, mirror, id)]

\* _logs_query() with get_logs(): only_failures asks for the raw status too.
Logs(rows, mirror, filter, onlyFailures) ==
    [id \in {i \in Loaded(rows, filter) : onlyFailures => ShownFailure(rows, mirror, i, UserFailureWords)} |->
        LogItem(rows, mirror, id)]

\* _map_dashboard(): percentages are of all records; labels may merge types.
Dashboard(stats) ==
    [records |-> stats.records, scenarios |-> stats.scenarios, outliers |-> stats.outliers,
     tasks |-> [t \in DOMAIN stats.tasks |-> [label |-> Label(t), count |-> stats.tasks[t]]],
     top |-> stats.top.items, dynamics |-> stats.dynamics, failures |-> stats.failures]

\* get_scenarios(): a workspace or a period hides the scenarios without a row in it.
ScenarioCards(list, filter) ==
    [s \in {s \in DOMAIN list : filter = AnyRow \/ list[s].count > 0} |-> list[s]]
==============================================================================
