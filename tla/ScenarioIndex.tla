----------------------------- MODULE ScenarioIndex -----------------------------
(***************************************************************************)
(* Which scenario indices a recompute of one task type may hand out, seen   *)
(* from outside: what MlRecompute takes for granted of a clustering and what *)
(* the algorithm of ScenarioIds is checked to deliver.                       *)
(***************************************************************************)
EXTENDS Naturals, FiniteSets

\* The n smallest indices outside S (take_free).
FreeIndices(S, n) ==
    {k \in 0 .. n + Cardinality(S) :
        k \notin S /\ Cardinality({i \in 0 .. k : i \notin S}) <= n}

\* The id sets stabilize_scenario_ids can produce: some old ids are matched, the
\* other clusters get the smallest indices that are not matched.
IdSets(oldIds, max) ==
    {M \cup FreeIndices(M, n) : M \in SUBSET oldIds, n \in 0 .. max}
===============================================================================
