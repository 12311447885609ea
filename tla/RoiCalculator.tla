---------------------------- MODULE RoiCalculator ----------------------------
(* backend service/roi: the calculator over the stored rows joined with their *)
(* mirrored assignments. rows is a function from request ids to dataset rows  *)
(* and mirror one from some of those ids to [type, scenario, name, outlier,   *)
(* failure]: the outer join keeps a row without an assignment. Saved time is  *)
(* in hundredths of a minute, because the session coefficients are            *)
(* percentages; money is compared over the common denominator, see Benefit.   *)
EXTENDS RecordTypes, FiniteSetsExt

CONSTANTS CoeffShort, CoeffMedium, CoeffLong,   \* ROI_SESSION_COEFF_*, in percent
          ShortMax, LongMin,                    \* ROI_SESSION_SHORT_MAX_TOKENS, LONG_MIN_TOKENS
          FteRate,                              \* roubles for an hour
          TokenPrice                            \* roubles for a thousand tokens

ASSUME RoiAssumption ==
    /\ {CoeffShort, CoeffMedium, CoeffLong, ShortMax, LongMin, FteRate, TokenPrice} \subseteq Nat
    /\ ShortMax < LongMin

\* DEFAULT_CATEGORY_MANUAL_MINUTES with its fallback.
TableMinutes ==
    [text_generation |-> 15, code_help |-> 30, data_analysis |-> 45, education |-> 20,
     information_search |-> 15, task_management |-> 25, other |-> 15]
ManualMinutes(type) == IF type \in DOMAIN TableMinutes THEN TableMinutes[type] ELSE 15

\* RoiConfig.session_coeff()
SessionCoeff(tokens) ==
    CASE tokens <= ShortMax -> CoeffShort
      [] tokens > ShortMax /\ tokens >= LongMin -> CoeffLong
      [] OTHER -> CoeffMedium

SuccessWords == {"success", "ok", "completed"}

\* (status or "").strip().lower() in ("success", "ok", "completed")
Succeeded(row) == row.status.word \in SuccessWords

Measured(row) == row.manual # None /\ row.manual > 0

\* The saved time of a record whose category is cat: what every success saves.
Saved(row, cat) ==
    IF Succeeded(row)
    THEN (IF Measured(row) THEN row.manual ELSE ManualMinutes(cat))
         * SessionCoeff(OrElse(row.tokens, 0))
    ELSE 0

\* _load_records(): the joined columns with their defaults; the filter compares instants.
InPeriod(row, filter) ==
    /\ filter.source # None => row.source = filter.source
    /\ filter.from # None => row.ts.at >= filter.from.at
    /\ filter.to # None => row.ts.at <= filter.to.at
Loaded(rows, filter) == {id \in DOMAIN rows : InPeriod(rows[id], filter)}
Joined(mirror, id, column, default) ==
    IF id \in DOMAIN mirror THEN OrElse(mirror[id][column], default) ELSE default

\* cat_key
Category(mirror, id) == Joined(mirror, id, "type", "unknown")

\* A _Bucket of the records in ids.
Bucket(rows, mirror, ids) ==
    [count   |-> Cardinality(ids),
     success |-> Cardinality({id \in ids : Succeeded(rows[id])}),
     saved   |-> SumFunction([id \in ids |-> Saved(rows[id], Category(mirror, id))]),
     tokens  |-> SumFunction([id \in ids |-> OrElse(rows[id].tokens, 0)])]

\* manual_cost and agent_cost as they are compared: saved / 100 minutes at FteRate an
\* hour against tokens / 1000 at TokenPrice, both times 6000 and 10.
Benefit(bucket) == bucket.saved * FteRate * 10
AgentCost(bucket) == bucket.tokens * TokenPrice * 60

\* _build_verdict()
Verdict(bucket) ==
    CASE Benefit(bucket) <= 0 /\ AgentCost(bucket) <= 0 -> "no_data"
      [] Benefit(bucket) > AgentCost(bucket) -> "pays_off"
      [] OTHER -> "does_not_pay_off"

\* _style_insight(): the recommendation needs a fifth of the records.
StyleInsight(styles, total) ==
    LET share(s) == IF s \in DOMAIN styles THEN styles[s] ELSE 0
        informal == share("voice") + share("typo")
    IN  CASE informal = 0 -> "none"
          [] informal > 0 /\ informal * 100 >= 20 * total -> "recommend"
          [] OTHER -> "below_threshold"

\* compute_roi()
ComputeRoi(rows, mirror, filter) ==
    LET ids    == Loaded(rows, filter)
        all    == Bucket(rows, mirror, ids)
        style(id) == OrElse(rows[id].style, "formal")
        person(id) == OrElse(rows[id].user, "unknown_user")
        dept(id) == OrElse(rows[id].dept, "Unknown")
        scenario(id) == Joined(mirror, id, "scenario", None)
        styles == [s \in {style(id) : id \in ids} |-> Cardinality({id \in ids : style(id) = s})]
    IN  [summary |-> all,
         wasted |-> Bucket(rows, mirror, {id \in ids : ~Succeeded(rows[id])}).tokens,
         estimated |-> Cardinality({id \in ids : ~Measured(rows[id])}),
         automated |-> Cardinality({id \in ids : Succeeded(rows[id]) /\ rows[id].tools # {}}),
         people |-> {person(id) : id \in ids},
         departments |-> [d \in {dept(id) : id \in ids} |->
                             Bucket(rows, mirror, {id \in ids : dept(id) = d}).tokens],
         insight |-> StyleInsight(styles, Cardinality(ids)),
         verdict |-> Verdict(all),
         categories |-> [c \in {Category(mirror, id) : id \in ids} |->
                             Bucket(rows, mirror, {id \in ids : Category(mirror, id) = c})],
         scenarios |-> [s \in {scenario(id) : id \in ids} \ {None} |->
                             Bucket(rows, mirror, {id \in ids : scenario(id) = s})]]
===============================================================================
