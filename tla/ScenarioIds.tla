------------------------------ MODULE ScenarioIds ------------------------------
(***************************************************************************)
(* How a recompute decides which scenario a row belongs to: the labels of   *)
(* HDBSCAN are renumbered, capped to the largest clusters, and the clusters *)
(* take over the ids of the old scenarios they resemble, best pair first;   *)
(* the others get the smallest indices left.  The result is published and   *)
(* is what the next recompute matches against.                              *)
(*                                                                          *)
(* One task type.  Rows of a copy are 1..n, scenario "<type>:cluster_<k>"   *)
(* is k.  Embeddings are left out: a similarity is a level, 0 below the     *)
(* match threshold, and the levels are drawn anew for every recompute.      *)
(***************************************************************************)
EXTENDS Integers, FiniteSets, ScenarioIndex

CONSTANTS MaxClusters,     \* recompute.max_clusters_per_task_type
          MinClusterSize,  \* hdbscan.min_cluster_size
          MaxRows,         \* bound on the rows of a copy
          MaxLabel,        \* bound on the labels HDBSCAN gives
          MaxSim           \* bound on the levels of similarity

ASSUME IdsAssumption ==
    /\ {MaxClusters, MinClusterSize} \subseteq Nat \ {0}
    /\ {MaxRows, MaxLabel, MaxSim} \subseteq Nat

VARIABLES
    phase,    \* where the recompute is
    n,        \* the rows of its copy
    label,    \* the label of each row; NoLabel for an outlier
    old,      \* old_centroids: the ids this recompute matches against
    sim,      \* the similarity of each cluster to each old centroid
    mapping,  \* mapping: the stable id of each cluster handled so far
    nextN,    \* next_n: where take_free goes on
    store,    \* STORE.centroids: its ids
    table     \* history: the ids any recompute has published

vars == <<phase, n, label, old, sim, mapping, nextN, store, table>>

NoLabel == -1

Rows == 1 .. n
Labels(f) == {f[p] : p \in DOMAIN f} \ {NoLabel}
Members(f, c) == {p \in DOMAIN f : f[p] = c}
Clusters == Labels(label)

NoRows == [p \in {} |-> NoLabel]

Init ==
    /\ phase = "idle"
    /\ n = 0
    /\ label = NoRows
    /\ old = {}
    /\ sim = NoRows
    /\ mapping = NoRows
    /\ nextN = 0
    /\ store = {}
    /\ table = {}

(***************************************************************************)
(* run_umap_hdbscan                                                        *)
(***************************************************************************)
AtLeast(a, b) == IF a < b THEN b ELSE a
AtMost(a, b) == IF a < b THEN a ELSE b

\* The min_cluster_size HDBSCAN is given for k rows.
EffMinCluster(k) == AtLeast(2, AtMost(MinClusterSize, AtLeast(2, k \div 3)))

\* HDBSCAN, as far as the code relies on it: a label below zero is an outlier,
\* the others are shared by enough rows.
RawLabels(k) ==
    {f \in [1 .. k -> {NoLabel} \cup 0 .. MaxLabel] :
        \A c \in Labels(f) : Cardinality(Members(f, c)) >= EffMinCluster(k)}

\* The position of c among the members of S, from 0.
Rank(S, c) == Cardinality({d \in S : d < c})

\* The labels become 0, 1, ... in their order.
Renumber(f) ==
    [p \in DOMAIN f |-> IF f[p] = NoLabel THEN NoLabel ELSE Rank(Labels(f), f[p])]

OneCluster(k) == [p \in 1 .. k |-> 0]

\* What a copy of k rows is clustered into: one cluster when it is small, when
\* the libraries are missing or when HDBSCAN finds outliers only.
Clusterings(k) ==
    IF k < MinClusterSize THEN {OneCluster(k)}
    ELSE {OneCluster(k)} \cup {Renumber(f) : f \in {g \in RawLabels(k) : Labels(g) # {}}}

\* The recompute remembers the old centroids and clears them, then clusters.
StartRecompute(k) ==
    /\ phase = "idle"
    /\ n' = k
    /\ label' \in Clusterings(k)
    /\ old' = store
    /\ store' = {}
    /\ phase' = "labelled"
    /\ UNCHANGED <<sim, mapping, nextN, table>>

(***************************************************************************)
(* _cap_clusters                                                           *)
(***************************************************************************)

\* c comes before d in the order (-size, label).
Larger(c, d) ==
    LET a == Cardinality(Members(label, c))
        b == Cardinality(Members(label, d))
    IN  a > b \/ (a = b /\ c < d)

\* The MaxClusters largest clusters.
Kept == {c \in Clusters : Cardinality({d \in Clusters : Larger(d, c)}) < MaxClusters}

\* Rows of the kept clusters follow them to their new numbers; rows of the others
\* go to some kept cluster (the nearest centroid; which one is left open).
Capped ==
    {[p \in Rows |-> IF label[p] = NoLabel THEN NoLabel
                     ELSE IF label[p] \in Kept THEN Rank(Kept, label[p]) ELSE nearest[p]] :
        nearest \in [Rows -> 0 .. MaxClusters - 1]}

\* The clusters are capped and the similarities computed.
CapClusters ==
    /\ phase = "labelled"
    /\ label' \in IF Cardinality(Clusters) <= MaxClusters THEN {label} ELSE Capped
    /\ sim' \in [Labels(label') -> [old -> 0 .. MaxSim]]
    /\ phase' = "matching"
    /\ UNCHANGED <<n, old, mapping, nextN, store, table>>

(***************************************************************************)
(* stabilize_scenario_ids                                                  *)
(***************************************************************************)
Mapped == DOMAIN mapping
Unmapped == Clusters \ Mapped
UsedIds == {mapping[c] : c \in Mapped}

\* The pairs above the threshold whose cluster and old id are both free.
FreePairs == {q \in Unmapped \X (old \ UsedIds) : sim[q[1]][q[2]] > 0}

\* Not what the code does: cluster after cluster, each with its best old id still
\* free. The docstring of stabilize_scenario_ids describes the matching like this.
BestPairsByCluster ==
    {q \in FreePairs :
        \A r \in FreePairs : \/ q[1] < r[1]
                             \/ q[1] = r[1] /\ sim[r[1]][r[2]] <= sim[q[1]][q[2]]}

\* In the order of the sorted list (pairs.sort over all clusters, "best pairs
\* first"): the most similar, then the lower cluster.
\* Which of several old ids comes first is the order of a dict, left open.
BestPairs ==
    {q \in FreePairs :
        \A r \in FreePairs : \/ sim[r[1]][r[2]] < sim[q[1]][q[2]]
                             \/ sim[r[1]][r[2]] = sim[q[1]][q[2]] /\ q[1] <= r[1]}

Extend(c, k) == mapping' = [d \in Mapped \cup {c} |-> IF d = c THEN k ELSE mapping[d]]

\* Mistaken form: as many ids as the cap allows, whatever the clusters.
KeepIdsToCap ==
    /\ phase = "matching"
    /\ old = {}
    /\ Unmapped # {}
    /\ mapping' = [c \in 0 .. MaxClusters - 1 |-> c]
    /\ UNCHANGED <<phase, n, label, old, sim, nextN, store, table>>

\* The first recompute of the type keeps the ids as produced.
KeepIds ==
    /\ phase = "matching"
    /\ old = {}
    /\ Unmapped # {}
    /\ mapping' = [c \in Clusters |-> c]
    /\ UNCHANGED <<phase, n, label, old, sim, nextN, store, table>>

\* A cluster takes over the id of the old scenario it resembles.
MatchPair ==
    /\ phase = "matching"
    /\ \E q \in BestPairs : Extend(q[1], q[2])
    /\ UNCHANGED <<phase, n, label, old, sim, nextN, store, table>>

\* Mistaken form: next_n is taken without looking whether it is in use.
TakeFreeUnchecked ==
    /\ phase = "matching"
    /\ old # {}
    /\ FreePairs = {}
    /\ \E c \in Unmapped :
          /\ \A d \in Unmapped : c <= d
          /\ Extend(c, nextN)
          /\ nextN' = nextN + 1
    /\ UNCHANGED <<phase, n, label, old, sim, store, table>>

\* Mistaken form: new clusters go above every old id, as the online path does it.
TakeFreeAbove ==
    /\ phase = "matching"
    /\ old # {}
    /\ FreePairs = {}
    /\ \E c \in Unmapped, k \in {i + 1 : i \in old \cup UsedIds} :
          /\ \A d \in Unmapped : c <= d
          /\ \A i \in old \cup UsedIds : i < k
          /\ Extend(c, k)
          /\ nextN' = k + 1
    /\ UNCHANGED <<phase, n, label, old, sim, store, table>>

\* With no pair left the unmatched clusters get, in order, the free indices.
TakeFree ==
    /\ phase = "matching"
    /\ old # {}
    /\ FreePairs = {}
    /\ \E c \in Unmapped, k \in nextN .. nextN + Cardinality(UsedIds) :
          /\ \A d \in Unmapped : c <= d
          /\ k \notin UsedIds
          /\ \A i \in nextN .. k - 1 : i \in UsedIds
          /\ Extend(c, k)
          /\ nextN' = k + 1
    /\ UNCHANGED <<phase, n, label, old, sim, store, table>>

\* Every cluster has its id.
Decided == phase = "matching" /\ Unmapped = {}

\* apply_id_mapping: the scenario of each row, NoLabel for an outlier.
RowIds == [p \in Rows |-> IF label[p] \in Mapped THEN mapping[label[p]] ELSE NoLabel]

\* The job writes the clusters under their new ids; later they are published.
PublishIds ==
    /\ Decided
    /\ store' = UsedIds
    /\ table' = table \cup UsedIds
    /\ phase' = "idle"
    /\ n' = 0
    /\ label' = NoRows
    /\ old' = {}
    /\ sim' = NoRows
    /\ mapping' = NoRows
    /\ nextN' = 0

\* A restart, or a recompute that clears the centroids and then fails, leaves none;
\* one that is still naming its clusters has put back only some.
LoseCentroids ==
    /\ phase = "idle"
    /\ store' \in SUBSET store
    /\ UNCHANGED <<phase, n, label, old, sim, mapping, nextN, table>>

Next ==
    \/ \E k \in 1 .. MaxRows : StartRecompute(k)
    \/ CapClusters
    \/ KeepIds
    \/ MatchPair
    \/ TakeFree
    \/ PublishIds
    \/ LoseCentroids

Spec == Init /\ [][Next]_vars

(***************************************************************************)
(* Properties                                                              *)
(***************************************************************************)

\* Every variable holds a value of its kind.
TypeOK ==
    /\ phase \in {"idle", "labelled", "matching"}
    /\ n \in 0 .. MaxRows
    /\ label \in [Rows -> {NoLabel} \cup Nat]
    /\ old \subseteq Nat /\ store \subseteq Nat /\ table \subseteq Nat
    /\ phase = "matching" => sim \in [Clusters -> [old -> 0 .. MaxSim]]
    /\ Mapped \subseteq Clusters
    /\ \A c \in Mapped : mapping[c] \in Nat
    /\ nextN \in Nat

\* What the matching relies on: at most MaxClusters clusters come out of the cap,
\* numbered without a gap, each with a row.
CapHolds ==
    phase = "matching" =>
        /\ Clusters = 0 .. Cardinality(Clusters) - 1
        /\ Cardinality(Clusters) \in 1 .. MaxClusters

\* No two clusters end up under one id, so remap_centroids never overwrites a
\* centroid ("should not happen").
NoCollision == \A c, d \in Mapped : mapping[c] = mapping[d] => c = d

\* The greedy pass leaves no cluster and old scenario that resemble each other
\* more than what each of them was given instead. It holds because the pairs of all
\* clusters are sorted together; the matching the docstring of
\* stabilize_scenario_ids describes, cluster by cluster, breaks it
\* (BestPairsByCluster).
NoBlockingPair ==
    Decided => \A c \in Clusters, o \in old :
        sim[c][o] > 0 =>
            \/ mapping[c] \in old /\ sim[c][mapping[c]] >= sim[c][o]
            \/ \E d \in Clusters : mapping[d] = o /\ sim[d][o] >= sim[c][o]

\* The cap on clusters is kept from the labels to the table: at most MaxClusters
\* clusters are matched, and recompute after recompute, with centroids lost in between,
\* every id stays below the cap, because ids are reused before they grow.
IdsBounded == CapHolds /\ table \subseteq 0 .. MaxClusters - 1

\* What MlRecompute assumes of a clustering: each cluster has an id of its own, the
\* ids are one of IdSets, the rows (apply_id_mapping) and the centroids
\* (remap_centroids) got the same ones, and the outliers are still those of HDBSCAN.
AsRecomputeAssumes ==
    Decided => /\ NoCollision
               /\ UsedIds \in IdSets(old, MaxClusters)
               /\ {RowIds[p] : p \in Rows} \ {NoLabel} = UsedIds
               /\ \A p \in Rows : RowIds[p] = NoLabel <=> label[p] = NoLabel
===============================================================================
