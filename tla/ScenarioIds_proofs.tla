-------------------------- MODULE ScenarioIds_proofs --------------------------
(***************************************************************************)
(* Proofs about ScenarioIds for every cap, every number of rows and labels,  *)
(* and every similarity.                                                     *)
(***************************************************************************)
EXTENDS ScenarioIds, Sums_proofs, TLAPS

(***************************************************************************)
(* Positions in an order                                                   *)
(***************************************************************************)

\* The ranks of the members of a finite set of numbers are 0, 1, ... without a gap.
LEMMA RanksFill ==
    ASSUME NEW S \in SUBSET Nat, IsFiniteSet(S)
    PROVE  {Rank(S, c) : c \in S} = 0 .. Cardinality(S) - 1
<1> DEFINE before == {q \in S \X S : q[1] < q[2]}
           pos == [c \in S |-> Cardinality({d \in S : <<d, c>> \in before})]
<1>1. /\ before \in SUBSET (S \X S)
      /\ \A c \in S : <<c, c>> \notin before
      /\ \A c, d, e \in S : <<c, d>> \in before /\ <<d, e>> \in before => <<c, e>> \in before
      /\ \A c, d \in S : c = d \/ <<c, d>> \in before \/ <<d, c>> \in before
  OBVIOUS
<1> HIDE DEF before
<1>2. pos \in Surjection(S, 0 .. Cardinality(S) - 1)
  BY <1>1, PositionsFill
<1>3. \A c \in S : pos[c] = Rank(S, c)
  <2>1. \A c \in S : {d \in S : <<d, c>> \in before} = {d \in S : d < c}
    BY DEF before
  <2>2. QED
    BY <2>1 DEF Rank
<1> HIDE DEF pos
<1>4. QED
  BY <1>2, <1>3 DEF Surjection

(***************************************************************************)
(* Labellings                                                              *)
(***************************************************************************)

\* The labellings of k rows.
Labelling(k) == [1 .. k -> {NoLabel} \cup Nat]

\* The clusters of a labelling are finitely many.
LEMMA LabelsFinite ==
    ASSUME NEW k \in Nat, NEW f \in Labelling(k)
    PROVE  /\ Labels(f) \in SUBSET Nat
           /\ IsFiniteSet(Labels(f))
           /\ Cardinality(Labels(f)) \in Nat
           /\ \A p \in 1 .. k : f[p] # NoLabel => f[p] \in Labels(f)
           /\ \A c \in Labels(f) : \E p \in 1 .. k : f[p] = c /\ c # NoLabel
<1>1. Labels(f) = {f[p] : p \in 1 .. k} \ {NoLabel}
  BY DEF Labels, Labelling
<1>2. IsFiniteSet(1 .. k)
  BY FS_Interval
<1>3. f \in Surjection(1 .. k, {f[p] : p \in 1 .. k})
  BY DEF Surjection, Labelling
<1>4. IsFiniteSet({f[p] : p \in 1 .. k})
  BY <1>2, <1>3, FS_Surjection
<1>5. IsFiniteSet(Labels(f))
  BY <1>1, <1>4, FS_RemoveElement
<1>6. Labels(f) \in SUBSET Nat
  BY <1>1 DEF Labelling
<1>7. QED
  BY <1>1, <1>5, <1>6, FS_CardinalityType

\* The predecessors of a member of a finite set are counted by a natural number.
LEMMA RankIsNat ==
    ASSUME NEW S \in SUBSET Nat, IsFiniteSet(S), NEW c
    PROVE  Rank(S, c) \in Nat
<1>1. {d \in S : d < c} \in SUBSET S
  OBVIOUS
<1>2. QED
  BY <1>1, FS_Subset, FS_CardinalityType DEF Rank

\* Numbered without a gap, and at least one.
Contiguous(f) ==
    /\ Labels(f) = 0 .. Cardinality(Labels(f)) - 1
    /\ Cardinality(Labels(f)) >= 1

\* Renumbering closes the gaps.
LEMMA RenumberCloses ==
    ASSUME NEW k \in Nat, NEW f \in Labelling(k), Labels(f) # {}
    PROVE  Renumber(f) \in Labelling(k) /\ Contiguous(Renumber(f))
<1> DEFINE S == Labels(f)
           g == Renumber(f)
<1>1. S \in SUBSET Nat /\ IsFiniteSet(S) /\ Cardinality(S) \in Nat
  BY LabelsFinite
<1>2. Cardinality(S) >= 1
  BY <1>1, FS_EmptySet
<1>3. \A c \in S : Rank(S, c) \in Nat
  BY <1>1, RankIsNat
<1>4. DOMAIN f = 1 .. k
  BY DEF Labelling
<1>5. g = [p \in 1 .. k |-> IF f[p] = NoLabel THEN NoLabel ELSE Rank(S, f[p])]
  BY <1>4 DEF Renumber
<1>6. \A p \in 1 .. k : f[p] # NoLabel => f[p] \in S
  BY LabelsFinite
<1>7. \A c \in S : \E p \in 1 .. k : f[p] = c /\ c # NoLabel
  BY LabelsFinite
<1> HIDE DEF S, g
<1>8. g \in Labelling(k)
  BY <1>3, <1>5, <1>6 DEF Labelling
<1>9. Labels(g) = {Rank(S, c) : c \in S}
  <2>1. Labels(g) = {g[p] : p \in 1 .. k} \ {NoLabel}
    BY <1>5 DEF Labels
  <2>2. ASSUME NEW x \in Labels(g)
        PROVE  x \in {Rank(S, c) : c \in S}
    BY <1>5, <1>6, <2>1
  <2>3. ASSUME NEW c \in S
        PROVE  Rank(S, c) \in Labels(g)
    <3>1. PICK p \in 1 .. k : f[p] = c /\ c # NoLabel
      BY <1>7
    <3>2. g[p] = Rank(S, c) /\ Rank(S, c) # NoLabel
      BY <1>3, <1>5, <3>1 DEF NoLabel
    <3>3. QED
      BY <2>1, <3>2
  <2>4. QED
    BY <2>2, <2>3
<1>10. Labels(g) = 0 .. Cardinality(S) - 1
  BY <1>1, <1>9, RanksFill
<1>11. Cardinality(Labels(g)) = Cardinality(S)
  BY <1>1, <1>2, <1>10, FS_Interval
<1>12. QED
  BY <1>2, <1>8, <1>10, <1>11 DEF g, Contiguous

\* One cluster of all rows.
LEMMA OneClusterFits ==
    ASSUME NEW k \in Nat \ {0}
    PROVE  OneCluster(k) \in Labelling(k) /\ Contiguous(OneCluster(k))
<1>1. OneCluster(k) \in Labelling(k)
  BY DEF OneCluster, Labelling
<1>2. Labels(OneCluster(k)) = {0}
  <2>1. 1 \in 1 .. k
    OBVIOUS
  <2>2. QED
    BY <2>1 DEF OneCluster, Labels, NoLabel
<1>3. Cardinality({0}) = 1 /\ {0} = 0 .. 1 - 1
  BY FS_Singleton
<1>4. QED
  BY <1>1, <1>2, <1>3 DEF Contiguous

\* Whatever path run_umap_hdbscan takes, the clusters it hands on are contiguous.
LEMMA ClusteringsFit ==
    ASSUME NEW k \in Nat \ {0}, NEW f \in Clusterings(k)
    PROVE  f \in Labelling(k) /\ Contiguous(f)
<1>1. CASE f = OneCluster(k)
  BY <1>1, OneClusterFits
<1>2. CASE \E g \in RawLabels(k) : Labels(g) # {} /\ f = Renumber(g)
  <2>1. PICK g \in RawLabels(k) : Labels(g) # {} /\ f = Renumber(g)
    BY <1>2
  <2>2. g \in Labelling(k)
    BY <2>1, IdsAssumption DEF RawLabels, Labelling
  <2>3. QED
    BY <2>1, <2>2, RenumberCloses
<1>3. QED
  BY <1>1, <1>2 DEF Clusterings

\* Exactly MaxClusters clusters are kept when there are more.
LEMMA KeptSize ==
    ASSUME n \in Nat, label \in Labelling(n), Cardinality(Clusters) > MaxClusters
    PROVE  /\ Kept \in SUBSET Clusters
           /\ IsFiniteSet(Kept)
           /\ Cardinality(Kept) = MaxClusters
<1> DEFINE before == {q \in Clusters \X Clusters : Larger(q[1], q[2])}
           pos == [c \in Clusters |-> Cardinality({d \in Clusters : <<d, c>> \in before})]
           kept == [c \in Kept |-> pos[c]]
<1>1. /\ Clusters \in SUBSET Nat /\ IsFiniteSet(Clusters) /\ Cardinality(Clusters) \in Nat
      /\ MaxClusters \in Nat \ {0}
  BY LabelsFinite, IdsAssumption DEF Clusters
<1>2. ASSUME NEW c
      PROVE  Cardinality(Members(label, c)) \in Nat
  <2>1. Members(label, c) \in SUBSET (1 .. n)
    BY DEF Members, Labelling
  <2>2. IsFiniteSet(1 .. n)
    BY FS_Interval
  <2>3. QED
    BY <2>1, <2>2, FS_Subset, FS_CardinalityType
<1>3. /\ before \in SUBSET (Clusters \X Clusters)
      /\ \A c \in Clusters : <<c, c>> \notin before
      /\ \A c, d, e \in Clusters :
            <<c, d>> \in before /\ <<d, e>> \in before => <<c, e>> \in before
      /\ \A c, d \in Clusters : c = d \/ <<c, d>> \in before \/ <<d, c>> \in before
  BY <1>1, <1>2 DEF Larger
<1>4. \A c, d \in Clusters : <<d, c>> \in before <=> Larger(d, c)
  OBVIOUS
<1> HIDE DEF before
<1>5. /\ pos \in Injection(Clusters, 0 .. Cardinality(Clusters) - 1)
      /\ pos \in Surjection(Clusters, 0 .. Cardinality(Clusters) - 1)
  BY <1>1, <1>3, PositionsFill
<1>6. Kept = {c \in Clusters : pos[c] < MaxClusters}
  <2>1. \A c \in Clusters :
            {d \in Clusters : <<d, c>> \in before} = {d \in Clusters : Larger(d, c)}
    BY <1>4
  <2>2. QED
    BY <2>1 DEF Kept
<1> HIDE DEF pos
<1>7. Kept \in SUBSET Clusters /\ IsFiniteSet(Kept)
  BY <1>1, <1>6, FS_Subset
<1>8. kept \in Injection(Kept, 0 .. MaxClusters - 1)
  <2>1. \A c \in Kept : c \in Clusters /\ kept[c] = pos[c]
    BY <1>7
  <2>2. \A c \in Clusters : pos[c] \in Nat
    BY <1>1, <1>5 DEF Injection
  <2>3. \A c \in Kept : kept[c] \in 0 .. MaxClusters - 1
    BY <1>1, <1>6, <2>1, <2>2
  <2>4. \A c, d \in Kept : kept[c] = kept[d] => c = d
    BY <1>5, <2>1 DEF Injection, IsInjective
  <2>5. QED
    BY <2>3, <2>4 DEF Injection, IsInjective
<1>9. kept \in Surjection(Kept, 0 .. MaxClusters - 1)
  <2>1. kept \in [Kept -> 0 .. MaxClusters - 1]
    BY <1>8 DEF Injection
  <2>2. ASSUME NEW i \in 0 .. MaxClusters - 1
        PROVE  \E c \in Kept : kept[c] = i
    <3>1. i \in 0 .. Cardinality(Clusters) - 1
      BY <1>1
    <3>2. PICK c \in Clusters : pos[c] = i
      BY <1>5, <3>1 DEF Surjection
    <3>3. QED
      BY <1>1, <1>6, <3>2
  <2>3. QED
    BY <2>1, <2>2 DEF Surjection
<1> HIDE DEF kept
<1>10. Cardinality(0 .. MaxClusters - 1) = Cardinality(Kept)
  BY <1>7, <1>8, <1>9, FS_Surjection
<1>11. Cardinality(0 .. MaxClusters - 1) = MaxClusters
  BY <1>1, FS_Interval
<1>12. QED
  BY <1>7, <1>10, <1>11

\* The capped labelling has MaxClusters clusters, numbered without a gap, and the
\* outliers it had.
LEMMA CappedFits ==
    ASSUME n \in Nat, label \in Labelling(n), Cardinality(Clusters) > MaxClusters,
           NEW f \in Capped
    PROVE  /\ f \in Labelling(n)
           /\ Contiguous(f)
           /\ Cardinality(Labels(f)) = MaxClusters
<1> DEFINE K == Kept
<1>1. K \in SUBSET Clusters /\ IsFiniteSet(K) /\ Cardinality(K) = MaxClusters
  BY KeptSize
<1>2. MaxClusters \in Nat \ {0}
  BY IdsAssumption
<1>3. Clusters \in SUBSET Nat
  BY LabelsFinite DEF Clusters
<1>4. {Rank(K, c) : c \in K} = 0 .. MaxClusters - 1
  BY <1>1, <1>3, RanksFill
<1>5. \A c \in K : \E p \in 1 .. n : label[p] = c /\ c # NoLabel
  BY <1>1, LabelsFinite DEF Clusters
<1>6. PICK nearest \in [1 .. n -> 0 .. MaxClusters - 1] :
         f = [p \in 1 .. n |-> IF label[p] = NoLabel THEN NoLabel
                               ELSE IF label[p] \in K THEN Rank(K, label[p]) ELSE nearest[p]]
  BY DEF Capped, Rows
<1> HIDE DEF K
<1>7. \A p \in 1 .. n : f[p] \in {NoLabel} \cup 0 .. MaxClusters - 1
  BY <1>4, <1>6
<1>8. f \in Labelling(n)
  BY <1>2, <1>6, <1>7 DEF Labelling
<1>9. Labels(f) = {f[p] : p \in 1 .. n} \ {NoLabel}
  BY <1>6 DEF Labels
<1>10. Labels(f) \subseteq 0 .. MaxClusters - 1
  BY <1>7, <1>9
<1>11. ASSUME NEW i \in 0 .. MaxClusters - 1
       PROVE  i \in Labels(f)
  <2>1. PICK c \in K : Rank(K, c) = i
    BY <1>4
  <2>2. PICK p \in 1 .. n : label[p] = c /\ c # NoLabel
    BY <1>5
  <2>3. f[p] = i /\ i # NoLabel
    BY <1>6, <2>1, <2>2 DEF NoLabel
  <2>4. QED
    BY <1>9, <2>3
<1>12. Labels(f) = 0 .. MaxClusters - 1
  BY <1>10, <1>11
<1>13. Cardinality(Labels(f)) = MaxClusters
  BY <1>2, <1>12, FS_Interval
<1>14. QED
  BY <1>2, <1>8, <1>12, <1>13 DEF Contiguous

(***************************************************************************)
(* The invariant                                                           *)
(***************************************************************************)
Ids == 0 .. MaxClusters - 1

\* Clusters are numbered without a gap from the moment there are any.
Shape ==
    phase # "idle" => /\ Contiguous(label)
                      /\ phase = "matching" => Cardinality(Clusters) <= MaxClusters

\* The matching starts from nothing.
Fresh == phase # "matching" => mapping = NoRows /\ nextN = 0

\* No id reaches the cap.
Below == store \subseteq Ids /\ old \subseteq Ids /\ table \subseteq Ids /\ UsedIds \subseteq Ids

\* take_free has passed used indices only, and is for a recompute with old ids.
Filled == 0 .. nextN - 1 \subseteq UsedIds /\ (old = {} => nextN = 0)

IInv == TypeOK /\ Shape /\ Fresh /\ NoCollision /\ Below /\ Filled

\* One more cluster has an id.
LEMMA ExtendAdds ==
    ASSUME NoCollision, NEW c, NEW k, c \notin Mapped, k \notin UsedIds, Extend(c, k)
    PROVE  /\ Mapped' = Mapped \cup {c}
           /\ UsedIds' = UsedIds \cup {k}
           /\ mapping'[c] = k
           /\ \A d \in Mapped : mapping'[d] = mapping[d]
           /\ NoCollision'
<1>1. Mapped' = Mapped \cup {c} /\ mapping'[c] = k
  BY DEF Extend, Mapped
<1>2. \A d \in Mapped : mapping'[d] = mapping[d] /\ d # c /\ mapping[d] # k
  BY DEF Extend, Mapped, UsedIds
<1>3. UsedIds' = UsedIds \cup {k}
  BY <1>1, <1>2 DEF UsedIds
<1>4. NoCollision'
  BY <1>1, <1>2 DEF NoCollision
<1>5. QED
  BY <1>1, <1>2, <1>3, <1>4

\* The index take_free returns is below the cap: all before it are in use, each by
\* another cluster, and one cluster has none.
LEMMA FreeIndexBelow ==
    ASSUME IInv, phase = "matching", NEW c \in Unmapped, NEW k \in Nat, k >= nextN,
           \A i \in nextN .. k - 1 : i \in UsedIds
    PROVE  k \in Ids /\ 0 .. k - 1 \subseteq UsedIds
<1>1. /\ n \in Nat /\ label \in Labelling(n) /\ nextN \in Nat /\ MaxClusters \in Nat
      /\ Mapped \subseteq Clusters
  BY IdsAssumption DEF IInv, TypeOK, Labelling, Rows
<1>2. IsFiniteSet(Clusters) /\ Cardinality(Clusters) \in Nat
  BY <1>1, LabelsFinite DEF Clusters
<1>3. 0 .. k - 1 \subseteq UsedIds
  BY <1>1 DEF IInv, Filled
<1>4. /\ IsFiniteSet(Mapped) /\ Cardinality(Mapped) \in Nat
      /\ Cardinality(Mapped) < Cardinality(Clusters)
  <2>1. c \in Clusters /\ c \notin Mapped
    BY DEF Unmapped
  <2>2. Mapped \in SUBSET Clusters
    BY <1>1
  <2> HIDE DEF Mapped
  <2>3. IsFiniteSet(Mapped) /\ Cardinality(Mapped) <= Cardinality(Clusters)
        /\ Cardinality(Mapped) # Cardinality(Clusters)
    BY <1>2, <2>1, <2>2, FS_Subset
  <2>4. QED
    BY <1>2, <2>3, FS_CardinalityType
<1>5. IsFiniteSet(UsedIds) /\ Cardinality(UsedIds) <= Cardinality(Mapped)
  <2> DEFINE g == [d \in Mapped |-> mapping[d]]
  <2>1. g \in Surjection(Mapped, UsedIds)
    BY DEF Surjection, UsedIds
  <2> HIDE DEF g
  <2>2. QED
    BY <1>4, <2>1, FS_Surjection
<1>6. Cardinality(0 .. k - 1) <= Cardinality(UsedIds)
  BY <1>3, <1>5, FS_Subset
<1>7. Cardinality(0 .. k - 1) = k
  BY FS_Interval
<1>8. Cardinality(Clusters) <= MaxClusters
  BY DEF IInv, Shape
<1>9. Cardinality(UsedIds) \in Nat
  BY <1>5, FS_CardinalityType
<1>10. QED
  BY <1>1, <1>2, <1>3, <1>4, <1>5, <1>6, <1>7, <1>8, <1>9 DEF Ids

LEMMA InitIds == Init => IInv
<1> SUFFICES ASSUME Init PROVE IInv
  OBVIOUS
<1>1. Mapped = {} /\ UsedIds = {}
  BY DEF Init, NoRows, Mapped, UsedIds
<1>2. TypeOK
  <2>1. label \in [1 .. 0 -> {NoLabel} \cup Nat]
    <3>1. 1 .. 0 = {}
      OBVIOUS
    <3>2. QED
      BY <3>1 DEF Init, NoRows
  <2>2. QED
    BY <1>1, <2>1, IdsAssumption DEF Init, TypeOK, Rows
<1>3. QED
  BY <1>1, <1>2 DEF Init, IInv, Shape, Fresh, NoCollision, Below, Filled

\* While nothing is matched, nothing is mapped.
LEMMA NothingMapped ==
    ASSUME IInv, phase # "matching"
    PROVE  Mapped = {} /\ UsedIds = {}
BY DEF IInv, Fresh, NoRows, Mapped, UsedIds

LEMMA StartKeeps ==
    ASSUME IInv, NEW k \in 1 .. MaxRows, StartRecompute(k)
    PROVE  IInv'
<1>1. k \in Nat \ {0} /\ k \in 0 .. MaxRows
  BY IdsAssumption
<1>2. label' \in Labelling(k) /\ Contiguous(label')
  BY <1>1, ClusteringsFit DEF StartRecompute
<1>3. Mapped' = {} /\ UsedIds' = {} /\ Mapped = {}
  <2>1. Mapped = {} /\ UsedIds = {}
    BY NothingMapped DEF StartRecompute
  <2>2. QED
    BY <2>1 DEF StartRecompute, Mapped, UsedIds
<1>4. TypeOK'
  BY <1>1, <1>2, <1>3 DEF StartRecompute, IInv, TypeOK, Rows, Labelling
<1>5. Shape' /\ Fresh'
  BY <1>2 DEF StartRecompute, IInv, Fresh, Shape
<1>6. NoCollision' /\ Below' /\ Filled'
  BY <1>3 DEF StartRecompute, IInv, Fresh, NoCollision, Below, Filled
<1>7. QED
  BY <1>4, <1>5, <1>6 DEF IInv

LEMMA CapKeeps ==
    ASSUME IInv, CapClusters
    PROVE  IInv'
<1>1. n \in Nat /\ label \in Labelling(n)
  BY IdsAssumption DEF IInv, TypeOK, Labelling, Rows
<1>2. label' \in Labelling(n) /\ Contiguous(label')
      /\ Cardinality(Labels(label')) <= MaxClusters
  <2>1. CASE Cardinality(Clusters) <= MaxClusters
    BY <1>1, <2>1 DEF CapClusters, IInv, Shape, Clusters
  <2>2. CASE ~(Cardinality(Clusters) <= MaxClusters)
    <3>1. Cardinality(Clusters) > MaxClusters
      BY <1>1, <2>2, LabelsFinite, IdsAssumption DEF Clusters
    <3>2. label' \in Capped
      BY <2>2 DEF CapClusters
    <3>3. label' \in Labelling(n) /\ Contiguous(label')
          /\ Cardinality(Labels(label')) = MaxClusters
      BY <1>1, <3>1, <3>2, CappedFits
    <3>4. QED
      BY <3>3, IdsAssumption
  <2>3. QED
    BY <2>1, <2>2
<1>3. Mapped' = {} /\ UsedIds' = {}
  <2>1. Mapped = {} /\ UsedIds = {}
    BY NothingMapped DEF CapClusters
  <2>2. QED
    BY <2>1 DEF CapClusters, Mapped, UsedIds
<1>4. TypeOK'
  BY <1>2, <1>3 DEF CapClusters, IInv, TypeOK, Rows, Labelling, Clusters
<1>5. Shape' /\ Fresh'
  BY <1>2 DEF CapClusters, Fresh, Shape, Clusters
<1>6. NoCollision' /\ Below' /\ Filled'
  <2>1. nextN' = 0
    BY DEF CapClusters, IInv, Fresh
  <2>2. QED
    BY <1>3, <2>1 DEF CapClusters, IInv, NoCollision, Below, Filled
<1>7. QED
  BY <1>4, <1>5, <1>6 DEF IInv

LEMMA KeepKeeps ==
    ASSUME IInv, KeepIds
    PROVE  IInv'
<1>1. /\ Clusters = 0 .. Cardinality(Clusters) - 1 /\ Cardinality(Clusters) <= MaxClusters
      /\ Clusters \in SUBSET Nat /\ Cardinality(Clusters) \in Nat /\ MaxClusters \in Nat
  <2>1. n \in Nat /\ label \in Labelling(n)
    BY IdsAssumption DEF IInv, TypeOK, Labelling, Rows
  <2>2. QED
    BY <2>1, LabelsFinite, IdsAssumption DEF KeepIds, IInv, Shape, Contiguous, Clusters
<1>2. Mapped' = Clusters /\ UsedIds' = Clusters /\ Clusters' = Clusters
      /\ \A c \in Clusters : mapping'[c] = c
  BY DEF KeepIds, Mapped, UsedIds, Clusters
<1>3. TypeOK'
  BY <1>1, <1>2 DEF KeepIds, IInv, TypeOK, Rows
<1>4. Shape' /\ Fresh'
  BY <1>2 DEF KeepIds, IInv, Shape, Fresh
<1>5. NoCollision'
  BY <1>2 DEF NoCollision
<1>6. Below'
  BY <1>1, <1>2 DEF KeepIds, IInv, Below, Ids
<1>7. Filled'
  BY DEF KeepIds, IInv, Filled
<1>8. QED
  BY <1>3, <1>4, <1>5, <1>6, <1>7 DEF IInv

LEMMA MatchKeeps ==
    ASSUME IInv, MatchPair
    PROVE  IInv'
<1>1. PICK q \in BestPairs : Extend(q[1], q[2])
  BY DEF MatchPair
<1>2. q[1] \in Clusters /\ q[1] \notin Mapped /\ q[2] \in old /\ q[2] \notin UsedIds
  BY DEF BestPairs, FreePairs, Unmapped
<1>3. /\ Mapped' = Mapped \cup {q[1]} /\ UsedIds' = UsedIds \cup {q[2]}
      /\ mapping'[q[1]] = q[2] /\ \A d \in Mapped : mapping'[d] = mapping[d]
      /\ NoCollision'
  BY <1>1, <1>2, ExtendAdds DEF IInv
<1>4. Clusters' = Clusters /\ Rows' = Rows
  BY DEF MatchPair, Clusters, Rows
<1>5. TypeOK'
  BY <1>2, <1>3, <1>4 DEF MatchPair, IInv, TypeOK
<1>6. Shape' /\ Fresh'
  BY <1>4 DEF MatchPair, IInv, Shape, Fresh
<1>7. Below' /\ Filled'
  BY <1>2, <1>3 DEF MatchPair, IInv, Below, Filled
<1>8. QED
  BY <1>3, <1>5, <1>6, <1>7 DEF IInv

LEMMA TakeFreeKeeps ==
    ASSUME IInv, TakeFree
    PROVE  IInv'
<1>1. PICK c \in Unmapped, k \in nextN .. nextN + Cardinality(UsedIds) :
         /\ k \notin UsedIds
         /\ \A i \in nextN .. k - 1 : i \in UsedIds
         /\ Extend(c, k)
         /\ nextN' = k + 1
  BY DEF TakeFree
<1>2. k \in Nat /\ k >= nextN
  BY <1>1 DEF IInv, TypeOK
<1>3. k \in Ids /\ 0 .. k - 1 \subseteq UsedIds
  BY <1>1, <1>2, FreeIndexBelow DEF TakeFree
<1>4. c \in Clusters /\ c \notin Mapped
  BY DEF Unmapped
<1>5. /\ Mapped' = Mapped \cup {c} /\ UsedIds' = UsedIds \cup {k}
      /\ mapping'[c] = k /\ \A d \in Mapped : mapping'[d] = mapping[d]
      /\ NoCollision'
  BY <1>1, <1>4, ExtendAdds DEF IInv
<1>6. Clusters' = Clusters /\ Rows' = Rows
  BY DEF TakeFree, Clusters, Rows
<1>7. TypeOK'
  BY <1>1, <1>2, <1>4, <1>5, <1>6 DEF TakeFree, IInv, TypeOK
<1>8. Shape' /\ Fresh'
  BY <1>6 DEF TakeFree, IInv, Shape, Fresh
<1>9. Below'
  BY <1>3, <1>5 DEF TakeFree, IInv, Below
<1>10. Filled'
  BY <1>1, <1>2, <1>3, <1>5 DEF TakeFree, Filled
<1>11. QED
  BY <1>5, <1>7, <1>8, <1>9, <1>10 DEF IInv

LEMMA PublishKeeps ==
    ASSUME IInv, PublishIds
    PROVE  IInv'
<1>1. Mapped' = {} /\ UsedIds' = {} /\ DOMAIN NoRows = {}
  BY DEF PublishIds, NoRows, Mapped, UsedIds
<1>2. UsedIds \subseteq Nat
  BY DEF IInv, TypeOK, UsedIds
<1>3. TypeOK'
  <2>1. label' \in [1 .. 0 -> {NoLabel} \cup Nat]
    <3>1. 1 .. 0 = {}
      OBVIOUS
    <3>2. QED
      BY <3>1 DEF PublishIds, NoRows
  <2>2. QED
    BY <1>1, <1>2, <2>1, IdsAssumption DEF PublishIds, IInv, TypeOK, Rows
<1>4. QED
  BY <1>1, <1>3 DEF PublishIds, IInv, Shape, Fresh, NoCollision, Below, Filled

LEMMA LoseKeeps ==
    ASSUME IInv, LoseCentroids
    PROVE  IInv'
<1>1. /\ Mapped' = Mapped /\ UsedIds' = UsedIds /\ Clusters' = Clusters /\ Rows' = Rows
      /\ store' \subseteq store
  BY DEF LoseCentroids, Mapped, UsedIds, Clusters, Rows
<1>2. TypeOK'
  BY <1>1 DEF LoseCentroids, IInv, TypeOK
<1>3. Shape' /\ Fresh'
  BY <1>1 DEF LoseCentroids, IInv, Shape, Fresh
<1>4. NoCollision' /\ Below' /\ Filled'
  BY <1>1 DEF LoseCentroids, IInv, NoCollision, Below, Filled
<1>5. QED
  BY <1>2, <1>3, <1>4 DEF IInv

LEMMA StutterKeeps ==
    ASSUME IInv, UNCHANGED vars
    PROVE  IInv'
<1>1. Mapped' = Mapped /\ UsedIds' = UsedIds /\ Clusters' = Clusters /\ Rows' = Rows
  BY DEF vars, Mapped, UsedIds, Clusters, Rows
<1>2. QED
  BY <1>1 DEF vars, IInv, TypeOK, Shape, Fresh, NoCollision, Below, Filled

LEMMA NextIds == IInv /\ [Next]_vars => IInv'
<1> SUFFICES ASSUME IInv, [Next]_vars PROVE IInv'
  OBVIOUS
<1>1. ASSUME NEW k \in 1 .. MaxRows, StartRecompute(k) PROVE IInv'
  BY <1>1, StartKeeps
<1>2. CASE CapClusters
  BY <1>2, CapKeeps
<1>3. CASE KeepIds
  BY <1>3, KeepKeeps
<1>4. CASE MatchPair
  BY <1>4, MatchKeeps
<1>5. CASE TakeFree
  BY <1>5, TakeFreeKeeps
<1>6. CASE PublishIds
  BY <1>6, PublishKeeps
<1>7. CASE LoseCentroids
  BY <1>7, LoseKeeps
<1>8. CASE UNCHANGED vars
  BY <1>8, StutterKeeps
<1>9. QED
  BY <1>1, <1>2, <1>3, <1>4, <1>5, <1>6, <1>7, <1>8 DEF Next

\* The invariant of stabilising: kinds, contiguous clusters, distinct ids, all below
\* the cap.
THEOREM IdsInvariant == Spec => []IInv
<1>1. QED
  BY InitIds, NextIds, PTL DEF Spec

\* Kinds of values, the cap, distinct ids and the bound on ids always hold.
THEOREM TypeCorrect == Spec => []TypeOK
<1>1. IInv => TypeOK
  BY DEF IInv
<1>2. QED
  BY <1>1, IdsInvariant, PTL

\* However HDBSCAN labels the rows, the matching gets one to MaxClusters clusters
\* numbered without a gap.
THEOREM CapAlwaysHolds == Spec => []CapHolds
<1>1. IInv => CapHolds
  <2> SUFFICES ASSUME IInv, phase = "matching"
               PROVE  /\ Clusters = 0 .. Cardinality(Clusters) - 1
                      /\ Cardinality(Clusters) \in 1 .. MaxClusters
    BY DEF CapHolds
  <2>1. n \in Nat /\ label \in Labelling(n)
    BY IdsAssumption DEF IInv, TypeOK, Labelling, Rows
  <2>2. Cardinality(Clusters) \in Nat
    BY <2>1, LabelsFinite DEF Clusters
  <2>3. QED
    BY <2>2, IdsAssumption DEF IInv, Shape, Contiguous, Clusters
<1>2. QED
  BY <1>1, IdsInvariant, PTL

\* remap_centroids never meets a collision.
THEOREM IdsDistinct == Spec => []NoCollision
<1>1. IInv => NoCollision
  BY DEF IInv
<1>2. QED
  BY <1>1, IdsInvariant, PTL

\* However many recomputes, no id reaches the cap.
THEOREM IdsStayBounded == Spec => []IdsBounded
<1>1. IInv => table \subseteq 0 .. MaxClusters - 1
  BY DEF IInv, Below, Ids
<1>2. IdsBounded <=> CapHolds /\ table \subseteq 0 .. MaxClusters - 1
  BY DEF IdsBounded
<1>3. QED
  BY <1>1, <1>2, CapAlwaysHolds, IdsInvariant, PTL

(***************************************************************************)
(* The greedy matching                                                     *)
(***************************************************************************)

\* What was decided about a pair above the threshold.
Settled(c, o) ==
    \/ c \notin Mapped /\ o \notin UsedIds
    \/ c \in Mapped /\ mapping[c] \in old /\ sim[c][mapping[c]] >= sim[c][o]
    \/ \E d \in Mapped : mapping[d] = o /\ sim[d][o] >= sim[c][o]

Greedy == phase = "matching" => \A c \in Clusters, o \in old : sim[c][o] > 0 => Settled(c, o)

\* A cluster that gets an id leaves the other decisions alone.
LEMMA ExtendSettled ==
    ASSUME NoCollision, NEW c, NEW k, c \notin Mapped, k \notin UsedIds, Extend(c, k),
           UNCHANGED <<old, sim>>,
           NEW b, NEW o, Settled(b, o), b \in Mapped \/ o \in UsedIds \/ (b # c /\ o # k)
    PROVE  Settled(b, o)'
<1>1. /\ Mapped' = Mapped \cup {c} /\ UsedIds' = UsedIds \cup {k}
      /\ mapping'[c] = k /\ \A d \in Mapped : mapping'[d] = mapping[d]
  BY ExtendAdds
<1>2. CASE b \notin Mapped /\ o \notin UsedIds
  BY <1>1, <1>2 DEF Settled
<1>3. CASE b \in Mapped /\ mapping[b] \in old /\ sim[b][mapping[b]] >= sim[b][o]
  <2>1. b \in Mapped' /\ mapping'[b] = mapping[b]
    BY <1>1, <1>3
  <2>2. b \in Mapped' /\ mapping'[b] \in old' /\ sim'[b][mapping'[b]] >= sim'[b][o]
    BY <1>3, <2>1
  <2>3. QED
    BY <2>2 DEF Settled
<1>4. CASE \E d \in Mapped : mapping[d] = o /\ sim[d][o] >= sim[b][o]
  <2>1. PICK d \in Mapped : mapping[d] = o /\ sim[d][o] >= sim[b][o]
    BY <1>4
  <2>2. d \in Mapped' /\ mapping'[d] = o /\ sim'[d][o] >= sim'[b][o]
    BY <1>1, <2>1
  <2>3. QED
    BY <2>2 DEF Settled
<1>5. QED
  BY <1>2, <1>3, <1>4 DEF Settled

LEMMA MatchGreedy ==
    ASSUME IInv, Greedy, MatchPair
    PROVE  Greedy'
<1>1. PICK c0 \in Unmapped, o0 \in old \ UsedIds :
         /\ <<c0, o0>> \in BestPairs
         /\ Extend(c0, o0)
  <2>1. PICK q \in BestPairs : Extend(q[1], q[2])
    BY DEF MatchPair
  <2>2. q \in Unmapped \X (old \ UsedIds)
    BY DEF BestPairs, FreePairs
  <2>3. q = <<q[1], q[2]>> /\ q[1] \in Unmapped /\ q[2] \in old \ UsedIds
    BY <2>2
  <2>4. QED
    BY <2>1, <2>3
<1>2. c0 \in Clusters /\ c0 \notin Mapped /\ o0 \in old /\ o0 \notin UsedIds
  BY DEF Unmapped
<1>3. Mapped' = Mapped \cup {c0} /\ mapping'[c0] = o0
  BY <1>1, <1>2, ExtendAdds DEF IInv
<1> SUFFICES ASSUME NEW c \in Clusters, NEW o \in old, sim[c][o] > 0
             PROVE  Settled(c, o)'
  BY DEF Greedy, MatchPair, Clusters
<1>4. Settled(c, o) /\ sim \in [Clusters -> [old -> 0 .. MaxSim]] /\ UNCHANGED <<old, sim>>
  BY DEF Greedy, MatchPair, IInv, TypeOK
<1>5. CASE c \in Mapped \/ o \in UsedIds \/ (c # c0 /\ o # o0)
  <2>1. NoCollision
    BY DEF IInv
  <2>2. QED
    BY <1>1, <1>2, <1>4, <1>5, <2>1, ExtendSettled
<1>6. CASE c \notin Mapped /\ o \notin UsedIds /\ (c = c0 \/ o = o0)
  <2>1. <<c, o>> \in FreePairs
    BY <1>6 DEF FreePairs, Unmapped
  <2>2. sim[c0][o0] >= sim[c][o]
    <3>1. sim[c0][o0] \in 0 .. MaxSim /\ sim[c][o] \in 0 .. MaxSim
      BY <1>2, <1>4
    <3>2. sim[c][o] < sim[c0][o0] \/ sim[c][o] = sim[c0][o0]
      BY <1>1, <2>1 DEF BestPairs
    <3>3. QED
      BY <3>1, <3>2
  <2>3. CASE c = c0
    <3>1. c \in Mapped' /\ mapping'[c] \in old' /\ sim'[c][mapping'[c]] >= sim'[c][o]
      BY <1>2, <1>3, <1>4, <2>2, <2>3
    <3>2. QED
      BY <3>1 DEF Settled
  <2>4. CASE o = o0
    <3>1. c0 \in Mapped' /\ mapping'[c0] = o /\ sim'[c0][o] >= sim'[c][o]
      BY <1>2, <1>3, <1>4, <2>2, <2>4
    <3>2. QED
      BY <3>1 DEF Settled
  <2>5. QED
    BY <1>6, <2>3, <2>4
<1>7. QED
  BY <1>5, <1>6

LEMMA TakeFreeGreedy ==
    ASSUME IInv, Greedy, TakeFree
    PROVE  Greedy'
<1>1. PICK c \in Unmapped, k \in nextN .. nextN + Cardinality(UsedIds) :
         k \notin UsedIds /\ Extend(c, k)
  BY DEF TakeFree
<1> SUFFICES ASSUME NEW b \in Clusters, NEW o \in old, sim[b][o] > 0
             PROVE  Settled(b, o)'
  BY DEF Greedy, TakeFree, Clusters
<1>2. Settled(b, o)
  BY DEF Greedy, TakeFree
<1>3. b \in Mapped \/ o \in UsedIds
  <2>1. <<b, o>> \notin FreePairs
    BY DEF TakeFree
  <2>2. QED
    BY <2>1 DEF FreePairs, Unmapped
<1>4. c \notin Mapped
  BY DEF Unmapped
<1>5. QED
  BY <1>1, <1>2, <1>3, <1>4, ExtendSettled DEF IInv, TakeFree

LEMMA NextGreedy == IInv /\ Greedy /\ [Next]_vars => Greedy'
<1> SUFFICES ASSUME IInv, Greedy, [Next]_vars PROVE Greedy'
  OBVIOUS
<1>1. ASSUME NEW k \in 1 .. MaxRows, StartRecompute(k) PROVE Greedy'
  BY <1>1 DEF StartRecompute, Greedy
<1>2. CASE CapClusters
  <2>1. Mapped' = {} /\ UsedIds' = {}
    <3>1. Mapped = {} /\ UsedIds = {}
      BY <1>2, NothingMapped DEF CapClusters
    <3>2. QED
      BY <1>2, <3>1 DEF CapClusters, Mapped, UsedIds
  <2>2. QED
    BY <2>1 DEF Greedy, Settled
<1>3. CASE KeepIds
  BY <1>3 DEF KeepIds, Greedy
<1>4. CASE MatchPair
  BY <1>4, MatchGreedy
<1>5. CASE TakeFree
  BY <1>5, TakeFreeGreedy
<1>6. CASE PublishIds
  BY <1>6 DEF PublishIds, Greedy
<1>7. CASE LoseCentroids
  BY <1>7 DEF LoseCentroids, Greedy
<1>8. CASE UNCHANGED vars
  <2>1. Mapped' = Mapped /\ UsedIds' = UsedIds /\ Clusters' = Clusters
    BY <1>8 DEF vars, Mapped, UsedIds, Clusters
  <2>2. phase' = phase /\ old' = old /\ sim' = sim /\ mapping' = mapping
    BY <1>8 DEF vars
  <2>3. \A c, o : Settled(c, o)' <=> Settled(c, o)
    BY <2>1, <2>2 DEF Settled
  <2>4. QED
    BY <2>1, <2>2, <2>3 DEF Greedy
<1>9. QED
  BY <1>1, <1>2, <1>3, <1>4, <1>5, <1>6, <1>7, <1>8 DEF Next

\* Best pairs first is stable: no cluster and old scenario are left that resemble
\* each other more than what each was given.
THEOREM MatchingStable == Spec => []NoBlockingPair
<1>1. Init => Greedy
  BY DEF Init, Greedy
<1>2. IInv /\ Greedy => NoBlockingPair
  <2> SUFFICES ASSUME IInv, Greedy, Decided, NEW c \in Clusters, NEW o \in old, sim[c][o] > 0
               PROVE  \/ mapping[c] \in old /\ sim[c][mapping[c]] >= sim[c][o]
                      \/ \E d \in Clusters : mapping[d] = o /\ sim[d][o] >= sim[c][o]
    BY DEF NoBlockingPair
  <2>1. Settled(c, o)
    BY DEF Greedy, Decided
  <2>2. c \in Mapped /\ Mapped \subseteq Clusters
    BY DEF Decided, Unmapped, IInv, TypeOK
  <2>3. QED
    BY <2>1, <2>2 DEF Settled
<1>3. QED
  BY <1>1, <1>2, NextGreedy, IdsInvariant, PTL DEF Spec

(***************************************************************************)
(* What MlRecompute takes for granted                                      *)
(***************************************************************************)

\* The indices below m that are not in M.
Gaps(M, m) == {i \in 0 .. m - 1 : i \notin M}

\* They are the smallest indices outside M, as many as there are.
LEMMA GapsAreFree ==
    ASSUME NEW M \in SUBSET Nat, IsFiniteSet(M), NEW m \in Nat
    PROVE  Gaps(M, m) = FreeIndices(M, Cardinality(Gaps(M, m)))
<1> DEFINE G == Gaps(M, m)
           size == Cardinality(G)
           Upto(k) == {i \in 0 .. k : i \notin M}
<1>1. IsFiniteSet(G) /\ size \in Nat
  <2>1. G \in SUBSET (0 .. m - 1) /\ IsFiniteSet(0 .. m - 1)
    BY FS_Interval DEF Gaps
  <2> HIDE DEF G
  <2>2. QED
    BY <2>1, FS_Subset, FS_CardinalityType
<1>2. Cardinality(M) \in Nat
  BY FS_CardinalityType
<1>3. \A k \in Nat : IsFiniteSet(Upto(k)) /\ Cardinality(Upto(k)) \in Nat
  <2>1. \A k \in Nat : Upto(k) \in SUBSET (0 .. k) /\ IsFiniteSet(0 .. k)
    BY FS_Interval
  <2> HIDE DEF Upto
  <2>2. QED
    BY <2>1, FS_Subset, FS_CardinalityType
<1>4. ASSUME NEW k \in G
      PROVE  k \in FreeIndices(M, size)
  <2>1. k \in Nat /\ k \notin M /\ k <= m - 1
    BY DEF Gaps
  <2>2. Cardinality(Upto(k)) <= size
    <3>1. Upto(k) \in SUBSET G
      BY <2>1 DEF Gaps
    <3>2. QED
      BY <1>1, <3>1, FS_Subset
  <2>3. Cardinality(Upto(k) \cup M) <= Cardinality(Upto(k)) + Cardinality(M)
        /\ IsFiniteSet(Upto(k) \cup M)
    <3>1. /\ IsFiniteSet(Upto(k) \cup M)
          /\ Cardinality(Upto(k) \cup M)
                = Cardinality(Upto(k)) + Cardinality(M) - Cardinality(Upto(k) \cap M)
      BY <1>3, <2>1, FS_Union
    <3>2. Cardinality(Upto(k) \cap M) \in Nat
      BY <1>3, <2>1, FS_Intersection, FS_CardinalityType
    <3>3. QED
      BY <1>2, <1>3, <2>1, <3>1, <3>2
  <2>4. k + 1 <= Cardinality(Upto(k) \cup M)
    <3>1. 0 .. k \in SUBSET (Upto(k) \cup M)
      BY <2>1
    <3>2. Cardinality(0 .. k) <= Cardinality(Upto(k) \cup M)
      BY <2>3, <3>1, FS_Subset
    <3>3. Cardinality(0 .. k) = k + 1
      BY <2>1, FS_Interval
    <3>4. QED
      BY <3>2, <3>3
  <2>5. Cardinality(Upto(k) \cup M) \in Nat /\ Cardinality(Upto(k)) \in Nat
    BY <1>3, <2>1, <2>3, FS_CardinalityType
  <2>6. k \in 0 .. size + Cardinality(M)
    BY <1>1, <1>2, <2>1, <2>2, <2>3, <2>4, <2>5
  <2>7. QED
    BY <2>1, <2>2, <2>6 DEF FreeIndices
<1>5. ASSUME NEW k \in FreeIndices(M, size)
      PROVE  k \in G
  <2>1. k \in Nat /\ k \notin M /\ Cardinality(Upto(k)) <= size
    BY <1>1, <1>2 DEF FreeIndices
  <2>2. ASSUME k >= m PROVE FALSE
    <3>1. G \cup {k} \in SUBSET Upto(k) /\ k \notin G
      BY <2>1, <2>2 DEF Gaps
    <3>2. Cardinality(G \cup {k}) <= Cardinality(Upto(k))
      BY <1>3, <2>1, <3>1, FS_Subset
    <3>3. Cardinality(G \cup {k}) = size + 1
      BY <1>1, <3>1, FS_AddElement
    <3>4. QED
      BY <1>1, <1>3, <2>1, <3>2, <3>3
  <2>3. QED
    BY <2>1, <2>2 DEF Gaps
<1>6. QED
  BY <1>4, <1>5

\* Some old ids are matched, and the others fill the gaps from below.
FromOld ==
    IF old = {} THEN UsedIds = Mapped
    ELSE \E M \in SUBSET old : UsedIds = M \cup Gaps(M, nextN)

LEMMA TakeFreeFromOld ==
    ASSUME IInv, FromOld, TakeFree
    PROVE  FromOld'
<1>1. PICK c \in Unmapped, k \in nextN .. nextN + Cardinality(UsedIds) :
         /\ k \notin UsedIds
         /\ \A i \in nextN .. k - 1 : i \in UsedIds
         /\ Extend(c, k)
         /\ nextN' = k + 1
  BY DEF TakeFree
<1>2. nextN \in Nat /\ k \in Nat /\ k >= nextN
  BY <1>1 DEF IInv, TypeOK
<1>3. UsedIds' = UsedIds \cup {k} /\ old' = old /\ old # {}
  BY <1>1, ExtendAdds DEF IInv, TakeFree, Unmapped
<1>4. PICK M \in SUBSET old : UsedIds = M \cup Gaps(M, nextN)
  BY <1>3 DEF FromOld
<1>5. k \notin M /\ \A i \in nextN .. k - 1 : i \in M
  BY <1>1, <1>2, <1>4 DEF Gaps
<1>6. M \cup Gaps(M, k + 1) = M \cup Gaps(M, nextN) \cup {k}
  BY <1>2, <1>5 DEF Gaps
<1>7. UsedIds' = M \cup Gaps(M, nextN')
  BY <1>1, <1>3, <1>4, <1>6
<1>8. QED
  BY <1>3, <1>7 DEF FromOld

LEMMA NextFromOld == IInv /\ FromOld /\ [Next]_vars => FromOld'
<1> SUFFICES ASSUME IInv, FromOld, [Next]_vars PROVE FromOld'
  OBVIOUS
<1>1. ASSUME UsedIds' = {}, Mapped' = {}, nextN' = 0
      PROVE  FromOld'
  <2>1. Gaps({}, 0) = {}
    BY DEF Gaps
  <2>2. UsedIds' = {} \cup Gaps({}, nextN')
    BY <1>1, <2>1
  <2>3. QED
    BY <1>1, <2>2 DEF FromOld
<1>2. ASSUME phase # "matching", mapping' = mapping, nextN' = nextN
      PROVE  FromOld'
  <2>1. Mapped = {} /\ UsedIds = {} /\ nextN = 0
    BY <1>2, NothingMapped DEF IInv, Fresh
  <2>2. Mapped' = {} /\ UsedIds' = {}
    BY <1>2, <2>1 DEF Mapped, UsedIds
  <2>3. QED
    BY <1>1, <1>2, <2>1, <2>2
<1>3. ASSUME NEW k \in 1 .. MaxRows, StartRecompute(k) PROVE FromOld'
  BY <1>2, <1>3 DEF StartRecompute
<1>4. CASE CapClusters
  BY <1>2, <1>4 DEF CapClusters
<1>5. CASE KeepIds
  <2>1. Mapped' = Clusters /\ UsedIds' = Clusters
    BY <1>5 DEF KeepIds, Mapped, UsedIds
  <2>2. QED
    BY <1>5, <2>1 DEF KeepIds, FromOld
<1>6. CASE MatchPair
  <2>1. PICK q \in BestPairs : Extend(q[1], q[2])
    BY <1>6 DEF MatchPair
  <2>2. q[1] \notin Mapped /\ q[2] \in old /\ q[2] \notin UsedIds
    BY DEF BestPairs, FreePairs, Unmapped
  <2>3. UsedIds' = UsedIds \cup {q[2]} /\ old' = old /\ nextN' = nextN /\ old # {}
    BY <1>6, <2>1, <2>2, ExtendAdds DEF IInv, MatchPair
  <2>4. PICK M \in SUBSET old : UsedIds = M \cup Gaps(M, nextN)
    BY <2>3 DEF FromOld
  <2>5. M \cup {q[2]} \in SUBSET old
    BY <2>2
  <2>6. q[2] \notin Gaps(M, nextN) /\ q[2] \notin 0 .. nextN - 1
    BY <2>2, <2>4 DEF IInv, Filled
  <2>7. Gaps(M \cup {q[2]}, nextN) = Gaps(M, nextN)
    BY <2>6 DEF Gaps
  <2>8. UsedIds' = (M \cup {q[2]}) \cup Gaps(M \cup {q[2]}, nextN')
    BY <2>3, <2>4, <2>7
  <2>9. QED
    BY <2>3, <2>5, <2>8 DEF FromOld
<1>7. CASE TakeFree
  BY <1>7, TakeFreeFromOld
<1>8. CASE PublishIds
  BY <1>1, <1>8 DEF PublishIds, NoRows, Mapped, UsedIds
<1>9. CASE LoseCentroids
  BY <1>2, <1>9 DEF LoseCentroids
<1>10. CASE UNCHANGED vars
  <2>1. Mapped' = Mapped /\ UsedIds' = UsedIds /\ old' = old /\ nextN' = nextN
    BY <1>10 DEF vars, Mapped, UsedIds
  <2>2. QED
    BY <2>1 DEF FromOld
<1>11. QED
  BY <1>3, <1>4, <1>5, <1>6, <1>7, <1>8, <1>9, <1>10 DEF Next

\* The ids a recompute decides are among those MlRecompute lets a job find.
LEMMA DecidedIds ==
    ASSUME IInv, FromOld, Decided
    PROVE  UsedIds \in IdSets(old, MaxClusters)
<1>1. n \in Nat /\ label \in Labelling(n) /\ nextN \in Nat /\ MaxClusters \in Nat
  BY IdsAssumption DEF IInv, TypeOK, Labelling, Rows
<1>2. PICK M \in SUBSET old, m \in Nat : UsedIds = M \cup Gaps(M, m)
  <2>1. CASE old = {}
    <3>1. UsedIds = Clusters
      BY <2>1 DEF FromOld, Decided, Unmapped, IInv, TypeOK
    <3>2. Clusters = 0 .. Cardinality(Clusters) - 1 /\ Cardinality(Clusters) \in Nat
      BY <1>1, LabelsFinite DEF Decided, IInv, Shape, Contiguous, Clusters
    <3>3. UsedIds = {} \cup Gaps({}, Cardinality(Clusters))
      BY <3>1, <3>2 DEF Gaps
    <3>4. QED
      BY <3>2, <3>3
  <2>2. CASE old # {}
    BY <1>1, <2>2 DEF FromOld
  <2>3. QED
    BY <2>1, <2>2
<1>3. Ids \subseteq Nat /\ IsFiniteSet(Ids) /\ Cardinality(Ids) = MaxClusters
  BY <1>1, FS_Interval DEF Ids
<1>4. M \in SUBSET Ids /\ Gaps(M, m) \in SUBSET Ids
  BY <1>2 DEF IInv, Below
<1>5. IsFiniteSet(M) /\ M \in SUBSET Nat
  BY <1>3, <1>4, FS_Subset
<1>6. Cardinality(Gaps(M, m)) \in 0 .. MaxClusters
  <2>1. IsFiniteSet(Gaps(M, m)) /\ Cardinality(Gaps(M, m)) <= MaxClusters
    BY <1>3, <1>4, FS_Subset
  <2>2. QED
    BY <1>1, <2>1, FS_CardinalityType
<1>7. UsedIds = M \cup FreeIndices(M, Cardinality(Gaps(M, m)))
  BY <1>2, <1>5, GapsAreFree
<1>8. QED
  BY <1>6, <1>7 DEF IdSets

\* The clusterings MlRecompute works with are those the algorithm delivers.
THEOREM DeliversWhatIsAssumed == Spec => []AsRecomputeAssumes
<1>1. Init => FromOld
  BY DEF Init, FromOld, NoRows, Mapped, UsedIds
<1>2. IInv /\ FromOld => AsRecomputeAssumes
  <2> SUFFICES ASSUME IInv, FromOld, Decided
               PROVE  /\ UsedIds \in IdSets(old, MaxClusters)
                      /\ {RowIds[p] : p \in Rows} \ {NoLabel} = UsedIds
                      /\ \A p \in Rows : RowIds[p] = NoLabel <=> label[p] = NoLabel
    BY DEF AsRecomputeAssumes, IInv
  <2>1. n \in Nat /\ label \in Labelling(n) /\ Rows = 1 .. n
    BY IdsAssumption DEF IInv, TypeOK, Labelling, Rows
  <2>2. /\ \A p \in Rows : label[p] # NoLabel => label[p] \in Clusters
        /\ \A c \in Clusters : \E p \in Rows : label[p] = c /\ c # NoLabel
        /\ NoLabel \notin Clusters
    BY <2>1, LabelsFinite DEF Clusters, NoLabel
  <2>3. Mapped = Clusters /\ \A c \in Mapped : mapping[c] \in Nat
    BY DEF Decided, Unmapped, IInv, TypeOK
  <2>4. \A p \in Rows : RowIds[p] = IF label[p] \in Mapped THEN mapping[label[p]] ELSE NoLabel
    BY DEF RowIds
  <2>5. \A p \in Rows : RowIds[p] = NoLabel <=> label[p] = NoLabel
    BY <2>2, <2>3, <2>4 DEF NoLabel
  <2>6. {RowIds[p] : p \in Rows} \ {NoLabel} = UsedIds
    <3>1. ASSUME NEW p \in Rows, RowIds[p] # NoLabel PROVE RowIds[p] \in UsedIds
      BY <2>4, <3>1 DEF UsedIds
    <3>2. ASSUME NEW k \in UsedIds
          PROVE  k # NoLabel /\ \E p \in Rows : RowIds[p] = k
      <4>1. PICK c \in Mapped : mapping[c] = k
        BY DEF UsedIds
      <4>2. PICK p \in Rows : label[p] = c
        BY <2>2, <2>3, <4>1
      <4>3. QED
        BY <2>3, <2>4, <4>1, <4>2 DEF NoLabel
    <3>3. QED
      BY <3>1, <3>2
  <2>7. QED
    BY <2>5, <2>6, DecidedIds
<1>3. QED
  BY <1>1, <1>2, NextFromOld, IdsInvariant, PTL DEF Spec
===============================================================================
