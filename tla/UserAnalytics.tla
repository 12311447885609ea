---------------------------- MODULE UserAnalytics ----------------------------
(* backend service/analytics: the users and models screens over the same join *)
(* as the ROI screen. The category of a row without an assignment is its gold *)
(* category here, where the ROI screen has "unknown". Percentages are compared *)
(* as fractions of counts; rounding and the wording of labels are left out.   *)
EXTENDS RoiCalculator, DatasetNormalizer

\* Mistaken form: the gold category goes first.
ShownCategoryGold(rows, mirror, id) == OrElse(rows[id].gold, Joined(mirror, id, "type", "unknown"))

\* task_type or gold_category or "unknown"
ShownCategory(rows, mirror, id) == Joined(mirror, id, "type", OrElse(rows[id].gold, "unknown"))

\* The statuses are compared as stored, not stripped and lowered.
ShownFailure(rows, mirror, id, words) ==
    \/ Joined(mirror, id, "failure", FALSE)
    \/ rows[id].status.form = "plain" /\ rows[id].status.word \in words
UserFailureWords == {"error", "error_tool", "hallucination_loop"}
ModelFailureWords == {"error", "error_tool"}

UserOf(row) == OrElse(row.user, OrElse(row.name, "Anonymous"))
\* The database gives timestamps back in UTC.
DayOf(row) == row.ts.at \div DayLength

\* _classify_persona(): shares of 35 %, five categories, half the median. The
\* median is passed doubled.
Persona(categories, total, twiceMedian) ==
    LET share(cs) == SumFunctionOnSet(categories, cs \cap DOMAIN categories)
    IN  CASE share({"code_help"}) * 100 >= 35 * total -> "code_craftsman"
          [] share({"data_analysis", "information_search"}) * 100 >= 35 * total
             /\ share({"code_help"}) * 100 < 35 * total -> "analyst"
          [] OTHER ->
                CASE Cardinality(DOMAIN categories) >= 5 /\ 2 * total >= twiceMedian -> "super_user"
                  [] 4 * total < Max({20, twiceMedian}) -> "casual"
                  [] OTHER -> "generalist"

\* statistics.median of the users' numbers of rows, doubled.
TwiceMedian(counts) ==
    LET users == DOMAIN counts
        atMost(n) == Cardinality({u \in users : counts[u] <= n})
        middle(k) == CHOOSE n \in {counts[u] : u \in users} :
                        atMost(n) >= k /\ Cardinality({u \in users : counts[u] < n}) < k
        size == Cardinality(users)
    IN  middle((size + 1) \div 2) + middle(size \div 2 + 1)

\* The frustration index times ten: a blend of the failure share and the outlier share.
Frustration(failures, outliers, total) == (600 * failures + 400 * outliers) \div total

\* _build_user_recommendation()
Recommendation(persona, frustration) == IF frustration > 200 THEN "prompt_template" ELSE persona

\* _fetch_joined_records(): the rows ROI loads, up to MAX_ANALYTICS_RECORDS; the query
\* asks for no order, so beyond the limit any of them are left out.
FetchedJoined(rows, filter, limit) ==
    {ids \in SUBSET Loaded(rows, filter) : Cardinality(ids) = Min({limit, Cardinality(Loaded(rows, filter))})}

\* get_users_analytics() of the fetched rows: one profile per user, and the summary.
UsersAnalytics(rows, mirror, ids) ==
    LET users  == {UserOf(rows[id]) : id \in ids}
        own    == [u \in users |-> {id \in ids : UserOf(rows[id]) = u}]
        counts == [u \in users |-> Cardinality(own[u])]
        median == TwiceMedian(counts)
        lastDay == (Max({rows[id].ts.at : id \in ids}) - 7 * DayLength) \div DayLength
        profile(u) ==
            LET categories == [c \in {ShownCategory(rows, mirror, id) : id \in own[u]} |->
                                  Cardinality({id \in own[u] : ShownCategory(rows, mirror, id) = c})]
                failures == Cardinality({id \in own[u] : ShownFailure(rows, mirror, id, UserFailureWords)})
                outliers == Cardinality({id \in own[u] : Joined(mirror, id, "outlier", FALSE)})
                persona == Persona(categories, counts[u], median)
                frustration == Frustration(failures, outliers, counts[u])
            IN  [queries |-> counts[u],
                 days |-> {DayOf(rows[id]) : id \in own[u]},
                 failures |-> failures,
                 saved |-> SumFunction([id \in own[u] |-> Saved(rows[id], ShownCategory(rows, mirror, id))]),
                 persona |-> persona,
                 frustration |-> frustration,
                 guidance |-> frustration > 150 \/ (persona = "casual" /\ counts[u] < 5),
                 recommendation |-> Recommendation(persona, frustration)]
    IN  [users |-> [u \in users |-> profile(u)],
         active |-> {u \in users : \E day \in profile(u).days : day >= lastDay}]

\* get_models_analytics(): those of the fetched rows that name a model, by model.
ModelsAnalytics(rows, mirror, fetched) ==
    LET named(id) == {tool[2] : tool \in {t \in rows[id].tools : IsModelTag(t)}}
        ids == {id \in fetched : named(id) # {}}
        model(id) == CHOOSE name \in named(id) : TRUE
    IN  [m \in {model(id) : id \in ids} |->
            LET own == {id \in ids : model(id) = m}
            IN  [queries |-> Cardinality(own),
                 tokens |-> SumFunction([id \in own |-> OrElse(rows[id].tokens, 0)]),
                 failures |-> Cardinality({id \in own : ShownFailure(rows, mirror, id, ModelFailureWords)})]]
==============================================================================
