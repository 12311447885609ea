---------------------------- MODULE MlIngest_proofs ----------------------------
(***************************************************************************)
(* Proofs about MlIngest for every set of requests, contents and batches    *)
(* and every value of the limits.                                           *)
(***************************************************************************)
EXTENDS MlIngest, FiniteSetTheorems, SequenceTheorems, TLAPS

(***************************************************************************)
(* The loop of put_logs                                                     *)
(***************************************************************************)

\* What is left of a batch after the size limit is a batch.
LEMMA ConsideredType ==
    ASSUME NEW raw \in Seq(Item)
    PROVE  Considered(raw) \in Seq(Item)
<1>1. CASE BatchMax > 0 /\ Len(raw) > BatchMax
  BY <1>1, IngestAssumption DEF Considered
<1>2. CASE ~(BatchMax > 0 /\ Len(raw) > BatchMax)
  BY <1>2 DEF Considered
<1>3. QED
  BY <1>1, <1>2

\* What put_logs accepts are logs with an id and a content.
LEMMA AcceptedAreLogs ==
    ASSUME NEW b \in Seq(Item), NEW i \in Accepted(b)
    PROVE  i \in 1 .. Len(b) /\ b[i] \in Log /\ ~HasAssignment(b[i].rid)
<1>1. i \in 1 .. Len(b) /\ IsValid(b[i]) /\ b[i].rid # None /\ ~HasAssignment(b[i].rid)
  BY DEF Accepted, Distinct
<1>2. b[i] \in Item
  BY <1>1
<1>3. b[i] \in Log
  BY <1>1, <1>2 DEF IsValid, Item, Log
<1>4. QED
  BY <1>1, <1>3

\* Two accepted positions of one batch carry different ids (seen_in_batch).
LEMMA AcceptedAreDistinct ==
    ASSUME NEW b \in Seq(Item), NEW i \in Accepted(b), NEW j \in Accepted(b),
           b[i].rid = b[j].rid
    PROVE  i = j
<1>1. i \in 1 .. Len(b) /\ j \in 1 .. Len(b)
  BY AcceptedAreLogs
<1>2. IsValid(b[i]) /\ IsValid(b[j])
  BY DEF Accepted, Distinct
<1>3. ~(i < j)
  <2>1. \A k \in 1 .. j - 1 : IsValid(b[k]) => b[k].rid # b[j].rid
    BY DEF Accepted, Distinct
  <2>2. QED
    BY <1>1, <1>2, <2>1
<1>4. ~(j < i)
  <2>1. \A k \in 1 .. i - 1 : IsValid(b[k]) => b[k].rid # b[i].rid
    BY DEF Accepted, Distinct
  <2>2. QED
    BY <1>1, <1>2, <2>1
<1>5. QED
  BY <1>1, <1>3, <1>4

\* Accepted and rejected items are disjoint parts of the batch, so what is left
\* to count as duplicates is a natural number.
LEMMA PartsOfBatch ==
    ASSUME NEW b \in Seq(Item)
    PROVE  /\ Cardinality(Accepted(b)) \in Nat
           /\ Cardinality(Rejected(b)) \in Nat
           /\ Cardinality(Accepted(b)) + Cardinality(Rejected(b)) <= Len(b)
<1>1. IsFiniteSet(1 .. Len(b)) /\ Cardinality(1 .. Len(b)) = Len(b)
  <2>1. Len(b) \in Nat
    OBVIOUS
  <2>2. IsFiniteSet(1 .. Len(b)) /\ Cardinality(1 .. Len(b)) = (IF 1 > Len(b) THEN 0 ELSE Len(b) - 1 + 1)
    BY <2>1, FS_Interval
  <2>3. QED
    BY <2>1, <2>2
<1>2. Accepted(b) \subseteq 1 .. Len(b) /\ Rejected(b) \subseteq 1 .. Len(b)
  BY DEF Accepted, Distinct, Rejected
<1>3. Accepted(b) \cap Rejected(b) = {}
  BY DEF Accepted, Distinct, Rejected
<1>4. IsFiniteSet(Accepted(b)) /\ IsFiniteSet(Rejected(b))
  BY <1>1, <1>2, FS_Subset
<1>5. /\ IsFiniteSet(Accepted(b) \cup Rejected(b))
      /\ Cardinality(Accepted(b) \cup Rejected(b))
           = Cardinality(Accepted(b)) + Cardinality(Rejected(b))
  <2>1. Cardinality(Accepted(b) \cap Rejected(b)) = 0
    BY <1>3, FS_EmptySet
  <2>2. Cardinality(Accepted(b)) \in Nat /\ Cardinality(Rejected(b)) \in Nat
    BY <1>4, FS_CardinalityType
  <2>3. /\ IsFiniteSet(Accepted(b) \cup Rejected(b))
        /\ Cardinality(Accepted(b) \cup Rejected(b))
             = Cardinality(Accepted(b)) + Cardinality(Rejected(b))
                 - Cardinality(Accepted(b) \cap Rejected(b))
    BY <1>4, FS_Union
  <2>4. QED
    BY <2>1, <2>2, <2>3
<1>6. Cardinality(Accepted(b) \cup Rejected(b)) <= Len(b)
  BY <1>1, <1>2, FS_Subset
<1>7. QED
  BY <1>4, <1>5, <1>6, FS_CardinalityType

(***************************************************************************)
(* Type correctness                                                         *)
(***************************************************************************)

\* put_logs appends a set of logs to the queue, or leaves it alone.
LEMMA PutQueueType ==
    ASSUME NEW q \in Seq(SUBSET Log), NEW logs \in SUBSET Log
    PROVE  Enqueue(q, logs) \in Seq(SUBSET Log)
BY DEF Enqueue

\* Every state of the specification is well typed.
THEOREM TypeCorrect == Spec => []TypeOK
<1>1. Init => TypeOK
  BY DEF Init, TypeOK
<1>2. TypeOK /\ [Next]_vars => TypeOK'
  <2> SUFFICES ASSUME TypeOK, [Next]_vars
               PROVE  TypeOK'
    OBVIOUS
  <2>1. ASSUME NEW raw \in Batches, PutLogs(raw)
        PROVE  TypeOK'
    <3> DEFINE b == Considered(raw)
               logs == {b[i] : i \in Accepted(b)}
    <3>1. b \in Seq(Item)
      BY ConsideredType, IngestAssumption
    <3>2. logs \in SUBSET Log
      BY <3>1, AcceptedAreLogs
    <3>3. queue' \in Seq(SUBSET Log)
      BY <2>1, <3>2, PutQueueType DEF PutLogs, TypeOK
    <3>4. first' \in [Request -> Content \cup {None}]
      <4>1. ASSUME NEW r \in Request, r \in Rids(logs)
            PROVE  (CHOOSE x \in logs : x.rid = r).content \in Content
        <5>1. \E x \in logs : x.rid = r
          BY <4>1 DEF Rids
        <5>2. (CHOOSE x \in logs : x.rid = r) \in logs
          BY <5>1
        <5>3. QED
          BY <3>2, <5>2 DEF Log
      <4>2. first' = [r \in Request |->
                        IF first[r] = None /\ r \in Rids(logs)
                        THEN (CHOOSE x \in logs : x.rid = r).content
                        ELSE first[r]]
        BY <2>1 DEF PutLogs
      <4>3. QED
        BY <4>1, <4>2 DEF TypeOK
    <3>5. counts' \in [Counters -> Nat]
      <4> DEFINE acc == Cardinality(Accepted(b))
                 rej == Cardinality(Rejected(b))
      <4>1. acc \in Nat /\ rej \in Nat /\ acc + rej <= Len(b) /\ Len(b) \in Nat
        BY <3>1, PartsOfBatch
      <4>2. \/ counts' = [counts EXCEPT !["accepted"]   = @ + acc,
                                        !["rejected"]   = @ + rej,
                                        !["duplicates"] = @ + Len(b) - acc - rej]
            \/ counts' = counts
        BY <2>1 DEF PutLogs
      <4>3. counts \in [Counters -> Nat]
        BY DEF TypeOK
      <4> HIDE DEF acc, rej, b
      <4>4. QED
        BY <4>1, <4>2, <4>3 DEF Counters
    <3>6. /\ puts' = puts + 1
          /\ UNCHANGED <<meta, vectors, batch, embedding, faulted, counted, restarts>>
      BY <2>1 DEF PutLogs
    <3>7. QED
      BY <3>3, <3>4, <3>5, <3>6 DEF TypeOK
  <2>2. ASSUME TakeBatch
        PROVE  TypeOK'
    BY <2>2 DEF TakeBatch, TypeOK, stored, history
  <2>3. ASSUME NEW x \in batch, SkipDuplicate(x)
        PROVE  TypeOK'
    BY <2>3 DEF SkipDuplicate, TypeOK, stored, history
  <2>4. ASSUME NEW x \in batch, StartEmbedding(x)
        PROVE  TypeOK'
    BY <2>4 DEF StartEmbedding, TypeOK, stored, history
  <2>5. ASSUME NEW x \in embedding, FinishItem(x)
        PROVE  TypeOK'
    <3>1. x.rid \in Request /\ x.content \in Content
      BY DEF TypeOK, Log
    <3>2. counts' \in [Counters -> Nat]
      BY <2>5 DEF FinishItem, TypeOK, Counters
    <3>3. counted' \in [Request -> Nat]
      BY <2>5, <3>1 DEF FinishItem, TypeOK
    <3>4. meta' \in [Request -> Content \cup {None}]
      BY <2>5, <3>1 DEF FinishItem, UpsertAssignment, TypeOK
    <3>5. vectors' \subseteq Request /\ embedding' \subseteq Log
      BY <2>5, <3>1 DEF FinishItem, TypeOK
    <3>6. UNCHANGED <<queue, batch, first, faulted, puts, restarts>>
      BY <2>5 DEF FinishItem
    <3>7. QED
      BY <3>2, <3>3, <3>4, <3>5, <3>6 DEF TypeOK
  <2>6. ASSUME NEW x \in embedding, FailEmbedding(x)
        PROVE  TypeOK'
    BY <2>6 DEF FailEmbedding, TypeOK, stored, Log
  <2>7. ASSUME NEW x \in embedding, FailVector(x)
        PROVE  TypeOK'
    BY <2>7 DEF FailVector, UpsertAssignment, TypeOK, Log
  <2>8. ASSUME NEW x \in embedding, FailCount(x)
        PROVE  TypeOK'
    BY <2>8 DEF FailCount, UpsertAssignment, TypeOK, Log
  <2>9. ASSUME Restart
        PROVE  TypeOK'
    <3>1. Rids(Pending) \subseteq Request
      BY DEF Rids, Pending, TypeOK, Log
    <3>2. QED
      BY <2>9, <3>1 DEF Restart, TypeOK, stored
  <2>10. CASE UNCHANGED vars
    BY <2>10 DEF TypeOK, vars, stored, volatile, history
  <2>11. QED
    BY <2>1, <2>2, <2>3, <2>4, <2>5, <2>6, <2>7, <2>8, <2>9, <2>10 DEF Next
<1>3. QED
  BY <1>1, <1>2, PTL DEF Spec

(***************************************************************************)
(* At most once                                                             *)
(***************************************************************************)

\* OnceInv holds in every state.  Each write of a row comes from a log that was
\* in flight, hence not stored, and the only one of its id in the worker.
THEOREM OnceInvariant == Spec => []OnceInv
<1>1. Init => OnceInv
  BY DEF Init, OnceInv, DistinctIds
<1>2. TypeOK /\ OnceInv /\ [Next]_vars => OnceInv'
  <2> SUFFICES ASSUME TypeOK, OnceInv, [Next]_vars
               PROVE  OnceInv'
    OBVIOUS
  <2>1. ASSUME NEW raw \in Batches, PutLogs(raw)
        PROVE  OnceInv'
    <3> DEFINE b == Considered(raw)
               logs == {b[i] : i \in Accepted(b)}
    <3>1. b \in Seq(Item)
      BY ConsideredType, IngestAssumption
    <3>2. DistinctIds(logs) /\ logs \in SUBSET Log
      BY <3>1, AcceptedAreDistinct, AcceptedAreLogs DEF DistinctIds
    <3>3. queue' = queue \/ queue' = Append(queue, logs)
      BY <2>1 DEF PutLogs, Enqueue
    <3>4. \A i \in DOMAIN queue' : DistinctIds(queue'[i])
      <4> HIDE DEF logs
      <4>1. CASE queue' = queue
        BY <4>1 DEF OnceInv
      <4>2. CASE queue' = Append(queue, logs)
        <5>1. queue \in Seq(SUBSET Log)
          BY DEF TypeOK
        <5>2. \A i \in DOMAIN queue' : queue'[i] = logs \/ (i \in DOMAIN queue /\ queue'[i] = queue[i])
          BY <3>2, <4>2, <5>1
        <5>3. QED
          BY <3>2, <5>2 DEF OnceInv
      <4>3. QED
        BY <3>3, <4>1, <4>2
    <3>5. UNCHANGED <<meta, batch, embedding, counted>>
      BY <2>1 DEF PutLogs
    <3>6. QED
      BY <3>4, <3>5 DEF OnceInv, HasAssignment, DistinctIds
  <2>2. ASSUME TakeBatch
        PROVE  OnceInv'
    <3>1. queue \in Seq(SUBSET Log) /\ queue # <<>>
      BY <2>2 DEF TypeOK, TakeBatch
    <3>2. batch' = queue[1] /\ 1 \in DOMAIN queue /\ embedding' = {}
      BY <2>2, <3>1 DEF TakeBatch
    <3>3. \A i \in DOMAIN queue' : i + 1 \in DOMAIN queue /\ queue'[i] = queue[i + 1]
      BY <2>2, <3>1 DEF TakeBatch
    <3>4. DistinctIds(batch' \cup embedding')
      BY <3>2 DEF OnceInv, DistinctIds
    <3>5. \A i \in DOMAIN queue' : DistinctIds(queue'[i])
      BY <3>3 DEF OnceInv
    <3>6. UNCHANGED <<meta, counted>>
      BY <2>2 DEF TakeBatch, stored, history
    <3>7. QED
      BY <3>2, <3>4, <3>5, <3>6 DEF OnceInv, HasAssignment, DistinctIds
  <2>3. ASSUME NEW x \in batch, SkipDuplicate(x)
        PROVE  OnceInv'
    BY <2>3 DEF SkipDuplicate, OnceInv, HasAssignment, DistinctIds, stored, history
  <2>4. ASSUME NEW x \in batch, StartEmbedding(x)
        PROVE  OnceInv'
    BY <2>4 DEF StartEmbedding, OnceInv, HasAssignment, DistinctIds, stored, history
  <2>5. ASSUME NEW x \in embedding, UpsertAssignment(x), embedding' = embedding \ {x},
               UNCHANGED <<batch, queue>>,
               counted' = counted \/ counted' = [counted EXCEPT ![x.rid] = @ + 1]
        PROVE  OnceInv'
    <3>1. x.rid \in Request /\ x.content # None
      BY IngestAssumption DEF TypeOK, Log
    <3>2. meta' = [meta EXCEPT ![x.rid] = x.content]
      BY <2>5 DEF UpsertAssignment
    <3>3. \A y \in embedding' : y.rid # x.rid /\ y.rid \in Request
      BY <2>5 DEF OnceInv, DistinctIds, TypeOK, Log
    <3>4. \A y \in embedding' : meta'[y.rid] = None
      BY <2>5, <3>2, <3>3 DEF OnceInv, HasAssignment, TypeOK
    <3>5. counted[x.rid] = 0
      BY <3>1 DEF OnceInv, HasAssignment, TypeOK
    <3>6. ASSUME NEW r \in Request
          PROVE  counted'[r] <= 1 /\ (counted'[r] > 0 => meta'[r] # None)
      <4>1. CASE r = x.rid
        BY <2>5, <3>1, <3>2, <3>5, <4>1 DEF TypeOK
      <4>2. CASE r # x.rid
        <5>1. meta'[r] = meta[r] /\ counted'[r] = counted[r]
          BY <2>5, <3>2, <4>2 DEF TypeOK
        <5>2. QED
          BY <5>1 DEF OnceInv, HasAssignment
      <4>3. QED
        BY <4>1, <4>2
    <3>7. DistinctIds(batch' \cup embedding')
      BY <2>5 DEF OnceInv, DistinctIds
    <3>8. \A i \in DOMAIN queue' : DistinctIds(queue'[i])
      BY <2>5 DEF OnceInv
    <3>9. QED
      BY <3>4, <3>6, <3>7, <3>8 DEF OnceInv, HasAssignment, DistinctIds
  <2>6. ASSUME NEW x \in embedding, FailEmbedding(x)
        PROVE  OnceInv'
    BY <2>6 DEF FailEmbedding, OnceInv, HasAssignment, DistinctIds, stored
  <2>7. ASSUME Restart
        PROVE  OnceInv'
    BY <2>7 DEF Restart, OnceInv, HasAssignment, DistinctIds, stored
  <2>8. CASE UNCHANGED vars
    BY <2>8 DEF OnceInv, HasAssignment, DistinctIds, vars, stored, volatile, history
  <2>9. ASSUME NEW x \in embedding, FinishItem(x) \/ FailVector(x) \/ FailCount(x)
        PROVE  OnceInv'
    BY <2>5, <2>9 DEF FinishItem, FailVector, FailCount
  <2>10. QED
    BY <2>1, <2>2, <2>3, <2>4, <2>6, <2>7, <2>8, <2>9 DEF Next
<1>3. QED
  BY <1>1, <1>2, TypeCorrect, PTL DEF Spec

\* No request is counted as classified twice.
THEOREM CountedAtMostOnce == Spec => []CountedOnce
<1>1. OnceInv => CountedOnce
  BY DEF OnceInv, CountedOnce
<1>2. QED
  BY <1>1, OnceInvariant, PTL

\* A stored assignment is never rewritten by a later log.
THEOREM StoredIsFinal == Spec => FirstWriteWins
<1>1. TypeOK /\ OnceInv /\ [Next]_vars
        => [\A r \in Request : meta[r] # None => meta'[r] = meta[r]]_meta
  <2> SUFFICES ASSUME TypeOK, OnceInv, [Next]_vars, NEW r \in Request, meta[r] # None
               PROVE  meta'[r] = meta[r]
    OBVIOUS
  <2>1. ASSUME NEW x \in embedding, UpsertAssignment(x)
        PROVE  meta'[r] = meta[r]
    <3>1. x.rid # r
      BY <2>1 DEF OnceInv, HasAssignment
    <3>2. QED
      BY <2>1, <3>1 DEF UpsertAssignment, TypeOK
  <2>2. (\E x \in embedding : UpsertAssignment(x)) \/ UNCHANGED meta
    BY DEF Next, PutLogs, TakeBatch, SkipDuplicate, StartEmbedding, FinishItem,
           FailEmbedding, FailVector, FailCount, Restart, vars, stored
  <2>3. QED
    BY <2>1, <2>2
<1>2. QED
  BY <1>1, TypeCorrect, OnceInvariant, PTL DEF Spec, FirstWriteWins

(***************************************************************************)
(* Nothing is lost in silence                                               *)
(***************************************************************************)

\* Rows and points disagree only where a failure fell between the two writes.
THEOREM PointsFollowRows == Spec => []VectorsFollowRows
<1>1. Init => VectorsFollowRows
  BY DEF Init, VectorsFollowRows, HasAssignment
<1>2. TypeOK /\ VectorsFollowRows /\ [Next]_vars => VectorsFollowRows'
  <2> SUFFICES ASSUME TypeOK, VectorsFollowRows, [Next]_vars, NEW r \in Request
               PROVE  /\ r \in vectors' => meta'[r] # None
                      /\ meta'[r] # None /\ r \notin vectors' => r \in faulted'
    BY DEF VectorsFollowRows, HasAssignment
  <2>1. ASSUME NEW x \in embedding, FinishItem(x) \/ FailVector(x) \/ FailCount(x)
        PROVE  /\ r \in vectors' => meta'[r] # None
               /\ meta'[r] # None /\ r \notin vectors' => r \in faulted'
    <3>1. x.rid \in Request /\ x.content # None
      BY IngestAssumption DEF TypeOK, Log
    <3>2. meta' = [meta EXCEPT ![x.rid] = x.content]
      BY <2>1 DEF FinishItem, FailVector, FailCount, UpsertAssignment
    <3>3. \/ vectors' = vectors \cup {x.rid} /\ faulted \subseteq faulted'
          \/ vectors' = vectors /\ faulted' = faulted \cup {x.rid}
      BY <2>1 DEF FinishItem, FailVector, FailCount
    <3>4. QED
      BY <3>1, <3>2, <3>3 DEF VectorsFollowRows, HasAssignment, TypeOK
  <2>2. ASSUME UNCHANGED <<meta, vectors>>, faulted \subseteq faulted'
        PROVE  /\ r \in vectors' => meta'[r] # None
               /\ meta'[r] # None /\ r \notin vectors' => r \in faulted'
    BY <2>2 DEF VectorsFollowRows, HasAssignment
  <2>3. \/ \E x \in embedding : FinishItem(x) \/ FailVector(x) \/ FailCount(x)
        \/ UNCHANGED <<meta, vectors>> /\ faulted \subseteq faulted'
    BY DEF Next, PutLogs, TakeBatch, SkipDuplicate, StartEmbedding, FailEmbedding,
           Restart, vars, stored, history
  <2>4. QED
    BY <2>1, <2>2, <2>3
<1>3. QED
  BY <1>1, <1>2, TypeCorrect, PTL DEF Spec

\* Dequeuing moves a batch from the queue to the worker and loses no log of it.
LEMMA TakeBatchKeepsPending ==
    ASSUME TypeOK, TakeBatch
    PROVE  Pending \subseteq Pending'
<1>1. queue \in Seq(SUBSET Log) /\ queue # <<>>
  BY DEF TypeOK, TakeBatch
<1>2. batch = {} /\ embedding = {} /\ batch' = queue[1] /\ queue' = Tail(queue)
  BY <1>1 DEF TakeBatch
<1>3. ASSUME NEW i \in DOMAIN queue, NEW x \in queue[i]
      PROVE  x \in batch' \/ \E j \in DOMAIN queue' : x \in queue'[j]
  <2>1. CASE i = 1
    BY <1>2, <2>1
  <2>2. CASE i # 1
    <3>1. i - 1 \in DOMAIN queue' /\ queue'[i - 1] = queue[i]
      BY <1>1, <1>2, <2>2
    <3>2. QED
      BY <3>1
  <2>3. QED
    BY <2>1, <2>2
<1>4. QED
  BY <1>2, <1>3 DEF Pending

\* Enqueuing adds the accepted logs and keeps those that wait.
LEMMA EnqueueKeepsPending ==
    ASSUME TypeOK, NEW logs \in SUBSET Log, queue' = Enqueue(queue, logs),
           UNCHANGED <<batch, embedding>>
    PROVE  Pending \subseteq Pending' /\ logs \subseteq Pending'
<1>1. queue \in Seq(SUBSET Log)
  BY DEF TypeOK
<1>2. CASE logs = {}
  BY <1>2 DEF Enqueue, Pending
<1>3. CASE logs # {}
  <2>1. queue' = Append(queue, logs)
    BY <1>3 DEF Enqueue
  <2>2. \A i \in DOMAIN queue : i \in DOMAIN queue' /\ queue'[i] = queue[i]
    BY <1>1, <2>1
  <2>3. Len(queue) + 1 \in DOMAIN queue' /\ queue'[Len(queue) + 1] = logs
    BY <1>1, <2>1
  <2>4. logs \subseteq Pending'
    BY <2>3 DEF Pending
  <2>5. Pending \subseteq Pending'
    BY <2>2 DEF Pending
  <2>6. QED
    BY <2>4, <2>5
<1>4. QED
  BY <1>2, <1>3

\* An accepted log is stored, under way, or was hit by a failure or a restart.
THEOREM NothingLostSilently == Spec => []NoSilentLoss
<1>1. Init => NoSilentLoss
  BY DEF Init, NoSilentLoss
<1>2. TypeOK /\ NoSilentLoss /\ [Next]_vars => NoSilentLoss'
  <2> SUFFICES ASSUME TypeOK, NoSilentLoss, [Next]_vars, NEW r \in Request, first'[r] # None
               PROVE  HasAssignment(r)' \/ IsPending(r)' \/ r \in faulted'
    BY DEF NoSilentLoss
  <2>1. ASSUME NEW raw \in Batches, PutLogs(raw)
        PROVE  HasAssignment(r)' \/ IsPending(r)' \/ r \in faulted'
    <3> DEFINE b == Considered(raw)
               logs == {b[i] : i \in Accepted(b)}
    <3>1. logs \in SUBSET Log
      BY ConsideredType, AcceptedAreLogs, IngestAssumption
    <3>2. /\ queue' = Enqueue(queue, logs)
          /\ UNCHANGED <<meta, batch, embedding, faulted>>
          /\ first[r] # None \/ r \in Rids(logs)
      BY <2>1 DEF PutLogs
    <3> HIDE DEF logs
    <3>3. Pending \subseteq Pending' /\ logs \subseteq Pending'
      BY <3>1, <3>2, EnqueueKeepsPending
    <3>4. CASE first[r] # None
      BY <3>2, <3>3, <3>4 DEF NoSilentLoss, HasAssignment, IsPending
    <3>5. CASE r \in Rids(logs)
      BY <3>3, <3>5 DEF Rids, IsPending
    <3>6. QED
      BY <3>2, <3>4, <3>5
  <2>2. ASSUME TakeBatch
        PROVE  HasAssignment(r)' \/ IsPending(r)' \/ r \in faulted'
    <3>1. UNCHANGED <<meta, first, faulted>>
      BY <2>2 DEF TakeBatch, stored, history
    <3>2. Pending \subseteq Pending'
      BY <2>2, TakeBatchKeepsPending
    <3>3. QED
      BY <3>1, <3>2 DEF NoSilentLoss, HasAssignment, IsPending
  <2>3. ASSUME NEW x \in batch, SkipDuplicate(x)
        PROVE  HasAssignment(r)' \/ IsPending(r)' \/ r \in faulted'
    <3>1. UNCHANGED <<meta, first, faulted, queue, embedding>> /\ batch' = batch \ {x}
      BY <2>3 DEF SkipDuplicate, stored, history
    <3>2. Pending \ {x} \subseteq Pending'
      BY <3>1 DEF Pending
    <3>3. CASE r = x.rid
      BY <2>3, <3>1, <3>3 DEF SkipDuplicate, HasAssignment
    <3>4. CASE r # x.rid
      BY <3>1, <3>2, <3>4 DEF NoSilentLoss, HasAssignment, IsPending
    <3>5. QED
      BY <3>3, <3>4
  <2>4. ASSUME NEW x \in batch, StartEmbedding(x)
        PROVE  HasAssignment(r)' \/ IsPending(r)' \/ r \in faulted'
    <3>1. UNCHANGED <<meta, first, faulted, queue>>
      BY <2>4 DEF StartEmbedding, stored, history
    <3>2. Pending \subseteq Pending'
      BY <2>4 DEF StartEmbedding, Pending
    <3>3. QED
      BY <3>1, <3>2 DEF NoSilentLoss, HasAssignment, IsPending
  <2>5. ASSUME NEW x \in embedding, EndItem(x)
        PROVE  HasAssignment(r)' \/ IsPending(r)' \/ r \in faulted'
    <3>1. /\ UNCHANGED <<first, queue, batch>>
          /\ embedding' = embedding \ {x}
          /\ faulted \subseteq faulted'
          /\ UpsertAssignment(x) \/ (meta' = meta /\ x.rid \in faulted')
      BY <2>5 DEF EndItem, FinishItem, FailEmbedding, FailVector, FailCount, stored
    <3>2. x.rid \in Request /\ x.content # None
      BY IngestAssumption DEF TypeOK, Log
    <3>3. Pending \ {x} \subseteq Pending'
      BY <3>1 DEF Pending
    <3>4. CASE r = x.rid
      BY <3>1, <3>2, <3>4 DEF UpsertAssignment, HasAssignment, TypeOK
    <3>5. CASE r # x.rid
      <4>1. meta'[r] = meta[r]
        BY <3>1, <3>5 DEF UpsertAssignment, TypeOK
      <4>2. QED
        BY <3>1, <3>3, <3>5, <4>1 DEF NoSilentLoss, HasAssignment, IsPending
    <3>6. QED
      BY <3>4, <3>5
  <2>6. ASSUME Restart
        PROVE  HasAssignment(r)' \/ IsPending(r)' \/ r \in faulted'
    BY <2>6 DEF Restart, NoSilentLoss, HasAssignment, IsPending, Rids, stored
  <2>7. CASE UNCHANGED vars
    <3>1. UNCHANGED <<meta, first, faulted>> /\ Pending' = Pending
      BY <2>7 DEF vars, stored, volatile, history, Pending
    <3>2. QED
      BY <3>1 DEF NoSilentLoss, HasAssignment, IsPending
  <2>8. QED
    BY <2>1, <2>2, <2>3, <2>4, <2>5, <2>6, <2>7 DEF Next, EndItem
<1>3. QED
  BY <1>1, <1>2, TypeCorrect, PTL DEF Spec

(***************************************************************************)
(* First come, first kept                                                   *)
(***************************************************************************)

\* No log of an id is with the worker, or in the first n batches of the queue.
ClearUpTo(r, n) ==
    /\ \A x \in batch \cup embedding : x.rid # r
    /\ \A i \in DOMAIN queue : i <= n => \A x \in queue[i] : x.rid # r

\* The next log of an id to be served carries the content accepted first: what the
\* worker holds, and in the queue what no earlier batch overtakes.
FirstIsNext(r) ==
    /\ \A x \in batch \cup embedding : x.rid = r => x.content = first[r]
    /\ \A i \in DOMAIN queue : \A x \in queue[i] :
          x.rid = r /\ ClearUpTo(r, i - 1) => x.content = first[r]

\* What is pending was accepted; an id without faults that is not stored will be
\* stored with its first content, and a stored one was.
OrderInv ==
    /\ \A x \in Pending : first[x.rid] # None
    /\ \A r \in Request \ faulted : IF meta[r] = None THEN FirstIsNext(r) ELSE meta[r] = first[r]

\* An id nothing is pending for has nothing in the worker or the queue.
LEMMA NotPending ==
    ASSUME NEW r, ~IsPending(r)
    PROVE  /\ \A x \in batch \cup embedding : x.rid # r
           /\ \A i \in DOMAIN queue : \A x \in queue[i] : x.rid # r
BY DEF IsPending, Pending

\* put_logs puts what it accepts behind what waits, and never accepts an id that
\* waits with another content as its first.
LEMMA PutKeepsOrder ==
    ASSUME TypeOK, OnceInv, NoSilentLoss, OrderInv, NEW raw \in Batches, PutLogs(raw)
    PROVE  OrderInv'
<1> DEFINE b == Considered(raw)
           logs == {b[i] : i \in Accepted(b)}
<1>1. b \in Seq(Item)
  BY ConsideredType, IngestAssumption
<1>2. logs \in SUBSET Log /\ DistinctIds(logs)
  BY <1>1, AcceptedAreLogs, AcceptedAreDistinct DEF DistinctIds
<1>3. /\ queue' = Enqueue(queue, logs)
      /\ first' = [r \in Request |-> IF first[r] = None /\ r \in Rids(logs)
                                     THEN (CHOOSE x \in logs : x.rid = r).content ELSE first[r]]
      /\ UNCHANGED <<meta, batch, embedding, faulted>>
  BY <1>2 DEF PutLogs
<1> HIDE DEF logs, b
<1>4. \A x \in logs : x.rid \in Request /\ x.content \in Content
  BY <1>2 DEF Log
<1>5. ASSUME NEW x \in logs
      PROVE  first'[x.rid] # None /\ (first[x.rid] = None => first'[x.rid] = x.content)
  <2>1. (CHOOSE y \in logs : y.rid = x.rid) = x
    BY <1>2 DEF DistinctIds
  <2>2. x.rid \in Rids(logs)
    BY DEF Rids
  <2>3. QED
    BY <1>3, <1>4, <2>1, <2>2, IngestAssumption
<1>6. \A r \in Request : first[r] # None => first'[r] = first[r]
  BY <1>3
<1>7. queue \in Seq(SUBSET Log)
  BY DEF TypeOK
<1>8. /\ \A i \in DOMAIN queue : i \in DOMAIN queue' /\ queue'[i] = queue[i]
      /\ \A i \in DOMAIN queue' : i \in DOMAIN queue \/ (queue'[i] = logs /\ \A j \in DOMAIN queue : j <= i - 1)
  <2>1. CASE logs = {}
    BY <1>3, <2>1 DEF Enqueue
  <2>2. CASE logs # {}
    <3>1. queue' = Append(queue, logs)
      BY <1>3, <2>2 DEF Enqueue
    <3>2. QED
      BY <1>2, <1>7, <3>1
  <2>3. QED
    BY <2>1, <2>2
<1>9. \A x \in Pending : x.rid \in Request
  BY DEF Pending, TypeOK, Log
<1>10. \A x \in Pending' : x \in Pending \/ x \in logs
  BY <1>3, <1>8 DEF Pending
<1>11. \A x \in Pending' : first'[x.rid] # None
  BY <1>5, <1>6, <1>9, <1>10 DEF OrderInv
<1>12. ASSUME NEW r \in Request \ faulted', meta'[r] # None
       PROVE  meta'[r] = first'[r]
  <2>1. meta[r] = first[r] /\ meta[r] # None
    BY <1>3, <1>12 DEF OrderInv
  <2>2. QED
    BY <1>3, <1>6, <2>1
<1>13. ASSUME NEW r \in Request \ faulted', meta'[r] = None
       PROVE  FirstIsNext(r)'
  <2>1. FirstIsNext(r) /\ r \notin faulted /\ meta[r] = None
    BY <1>3, <1>13 DEF OrderInv
  <2>2. \A x \in Pending : x.rid = r => first[r] # None
    BY DEF OrderInv
  <2>3. \A x \in batch' \cup embedding' : x.rid = r => x.content = first'[r]
    BY <1>3, <1>6, <2>1, <2>2 DEF FirstIsNext, Pending
  <2>4. ASSUME NEW i \in DOMAIN queue', NEW x \in queue'[i], x.rid = r, ClearUpTo(r, i - 1)'
        PROVE  x.content = first'[r]
    <3>1. CASE i \in DOMAIN queue
      <4>1. x \in queue[i] /\ x \in Pending
        BY <1>8, <3>1 DEF Pending
      <4>2. ClearUpTo(r, i - 1)
        BY <1>3, <1>8, <2>4 DEF ClearUpTo
      <4>3. x.content = first[r]
        BY <2>1, <2>4, <3>1, <4>1, <4>2 DEF FirstIsNext
      <4>4. QED
        BY <1>6, <2>2, <2>4, <4>1, <4>3
    <3>2. CASE i \notin DOMAIN queue
      <4>1. x \in logs /\ \A j \in DOMAIN queue : j <= i - 1
        BY <1>8, <3>2
      <4>2. ~IsPending(r)
        BY <1>3, <1>8, <2>4, <4>1 DEF ClearUpTo, IsPending, Pending
      <4>3. first[r] = None
        BY <2>1, <4>2 DEF NoSilentLoss, HasAssignment
      <4>4. QED
        BY <1>5, <2>4, <4>1, <4>3
    <3>3. QED
      BY <3>1, <3>2
  <2>5. QED
    BY <2>3, <2>4 DEF FirstIsNext
<1>14. QED
  BY <1>11, <1>12, <1>13 DEF OrderInv

\* The dispatcher serves the oldest batch, when nothing is with the worker.
LEMMA TakeKeepsOrder ==
    ASSUME TypeOK, OrderInv, TakeBatch
    PROVE  OrderInv'
<1>1. queue \in Seq(SUBSET Log) /\ queue # <<>>
  BY DEF TypeOK, TakeBatch
<1>2. batch = {} /\ embedding = {} /\ batch' = queue[1] /\ embedding' = {} /\ 1 \in DOMAIN queue
  BY <1>1 DEF TakeBatch
<1>3. \A i \in DOMAIN queue' : i \in Nat \ {0} /\ i + 1 \in DOMAIN queue /\ queue'[i] = queue[i + 1]
  BY <1>1 DEF TakeBatch
<1>4. \A i \in DOMAIN queue : i = 1 \/ (i \in Nat /\ i - 1 \in DOMAIN queue' /\ queue'[i - 1] = queue[i])
  BY <1>1 DEF TakeBatch
<1>5. UNCHANGED <<meta, first, faulted>>
  BY DEF TakeBatch, stored, history
<1>6. \A x \in Pending' : x \in Pending
  BY <1>2, <1>3 DEF Pending
<1>7. ASSUME NEW r \in Request \ faulted', meta'[r] = None
      PROVE  FirstIsNext(r)'
  <2>1. FirstIsNext(r)
    BY <1>5, <1>7 DEF OrderInv
  <2>2. ASSUME NEW x \in batch', x.rid = r
        PROVE  x.content = first'[r]
    <3>1. ClearUpTo(r, 1 - 1)
      <4>1. \A i \in DOMAIN queue : ~(i <= 1 - 1)
        BY <1>1
      <4>2. QED
        BY <1>2, <4>1 DEF ClearUpTo
    <3>2. QED
      BY <1>2, <1>5, <2>1, <2>2, <3>1 DEF FirstIsNext
  <2>3. ASSUME NEW i \in DOMAIN queue', NEW x \in queue'[i], x.rid = r, ClearUpTo(r, i - 1)'
        PROVE  x.content = first'[r]
    <3>1. ASSUME NEW j \in DOMAIN queue, j <= i
          PROVE  \A y \in queue[j] : y.rid # r
      <4>1. CASE j = 1
        BY <1>2, <2>3, <4>1 DEF ClearUpTo
      <4>2. CASE j # 1
        <5>1. j - 1 \in DOMAIN queue' /\ queue'[j - 1] = queue[j] /\ j - 1 <= i - 1
          BY <1>3, <1>4, <3>1, <4>2
        <5>2. QED
          BY <2>3, <5>1 DEF ClearUpTo
      <4>3. QED
        BY <4>1, <4>2
    <3>2. (i + 1) - 1 = i
      BY <1>3
    <3>3. ClearUpTo(r, (i + 1) - 1)
      BY <1>2, <3>1, <3>2 DEF ClearUpTo
    <3>4. QED
      BY <1>3, <1>5, <2>1, <2>3, <3>3 DEF FirstIsNext
  <2>4. QED
    BY <1>2, <2>2, <2>3 DEF FirstIsNext
<1>8. QED
  BY <1>5, <1>6, <1>7 DEF OrderInv

\* A log that leaves the semaphore's waiting line or the worker changes nothing
\* about the order of the others.
LEMMA ShrinkKeepsNext ==
    ASSUME NEW r, NEW x, FirstIsNext(r), x.rid # r,
           queue' = queue, first' = first,
           batch' \cup embedding' \subseteq batch \cup embedding,
           batch \cup embedding \subseteq (batch' \cup embedding') \cup {x}
    PROVE  FirstIsNext(r)'
<1>1. \A n : ClearUpTo(r, n)' => ClearUpTo(r, n)
  BY DEF ClearUpTo
<1>2. QED
  BY <1>1 DEF FirstIsNext

\* OrderInv holds in every state: batches are queued behind one another and served
\* from the front, one at a time.
THEOREM OrderInvariant == Spec => []OrderInv
<1>1. Init => OrderInv
  BY DEF Init, OrderInv, FirstIsNext, Pending
<1>2. TypeOK /\ OnceInv /\ NoSilentLoss /\ OrderInv /\ [Next]_vars => OrderInv'
  <2> SUFFICES ASSUME TypeOK, OnceInv, NoSilentLoss, OrderInv, [Next]_vars
               PROVE  OrderInv'
    OBVIOUS
  <2>1. ASSUME NEW x \in batch, SkipDuplicate(x)
        PROVE  OrderInv'
    <3>1. UNCHANGED <<meta, first, faulted, queue, embedding>> /\ batch' = batch \ {x} /\ meta[x.rid] # None
      BY <2>1 DEF SkipDuplicate, stored, history, HasAssignment
    <3>2. \A y \in Pending' : y \in Pending
      BY <3>1 DEF Pending
    <3>3. ASSUME NEW r \in Request \ faulted', meta'[r] = None
          PROVE  FirstIsNext(r)'
      <4>1. FirstIsNext(r) /\ x.rid # r
        BY <3>1, <3>3 DEF OrderInv
      <4>2. QED
        BY <3>1, <4>1, ShrinkKeepsNext
    <3>4. QED
      BY <3>1, <3>2, <3>3 DEF OrderInv
  <2>2. ASSUME NEW x \in batch, StartEmbedding(x)
        PROVE  OrderInv'
    <3>1. UNCHANGED <<meta, first, faulted, queue>> /\ batch' \cup embedding' = batch \cup embedding
      BY <2>2 DEF StartEmbedding, stored, history
    <3>2. Pending' = Pending
      BY <3>1 DEF Pending
    <3>3. \A r : FirstIsNext(r)' <=> FirstIsNext(r)
      BY <3>1 DEF FirstIsNext, ClearUpTo
    <3>4. QED
      BY <3>1, <3>2, <3>3 DEF OrderInv
  <2>3. ASSUME NEW x \in embedding, EndItem(x)
        PROVE  OrderInv'
    <3>1. /\ UNCHANGED <<first, queue, batch>>
          /\ embedding' = embedding \ {x}
          /\ faulted \subseteq faulted'
          /\ UpsertAssignment(x) \/ (meta' = meta /\ x.rid \in faulted')
      BY <2>3 DEF EndItem, FinishItem, FailEmbedding, FailVector, FailCount, stored
    <3>2. x.rid \in Request /\ x.content # None /\ meta[x.rid] = None
      BY IngestAssumption DEF TypeOK, Log, OnceInv, HasAssignment
    <3>3. \A y \in Pending' : y \in Pending
      BY <3>1 DEF Pending
    <3>4. ASSUME NEW r \in Request \ faulted'
          PROVE  IF meta'[r] = None THEN FirstIsNext(r)' ELSE meta'[r] = first'[r]
      <4>1. r \notin faulted
        BY <3>1
      <4>2. CASE r = x.rid
        <5>1. x.content = first[r]
          BY <3>2, <4>1, <4>2 DEF OrderInv, FirstIsNext
        <5>2. meta'[r] = x.content
          BY <3>1, <3>2, <3>4, <4>2 DEF UpsertAssignment, TypeOK
        <5>3. QED
          BY <3>1, <3>2, <5>1, <5>2
      <4>3. CASE r # x.rid
        <5>1. meta'[r] = meta[r]
          BY <3>1, <4>3 DEF UpsertAssignment, TypeOK
        <5>2. CASE meta[r] = None
          <6>1. FirstIsNext(r)
            BY <4>1, <5>2 DEF OrderInv
          <6>2. FirstIsNext(r)'
            BY <3>1, <4>3, <6>1, ShrinkKeepsNext
          <6>3. QED
            BY <5>1, <5>2, <6>2
        <5>3. CASE meta[r] # None
          BY <3>1, <4>1, <5>1, <5>3 DEF OrderInv
        <5>4. QED
          BY <5>2, <5>3
      <4>4. QED
        BY <4>2, <4>3
    <3>5. QED
      BY <3>1, <3>3, <3>4 DEF OrderInv
  <2>4. ASSUME Restart
        PROVE  OrderInv'
    <3>1. queue' = <<>> /\ batch' = {} /\ embedding' = {} /\ UNCHANGED <<meta, first>> /\ faulted \subseteq faulted'
      BY <2>4 DEF Restart, stored
    <3>2. Pending' = {}
      BY <3>1 DEF Pending
    <3>3. \A r : FirstIsNext(r)'
      BY <3>1 DEF FirstIsNext
    <3>4. QED
      BY <3>1, <3>2, <3>3 DEF OrderInv
  <2>5. CASE UNCHANGED vars
    <3>1. UNCHANGED <<meta, first, faulted, queue, batch, embedding>>
      BY <2>5 DEF vars, stored, volatile, history
    <3>2. QED
      BY <3>1 DEF OrderInv, FirstIsNext, ClearUpTo, Pending
  <2>6. QED
    BY <2>1, <2>2, <2>3, <2>4, <2>5, PutKeepsOrder, TakeKeepsOrder DEF Next, EndItem
<1>3. QED
  BY <1>1, <1>2, TypeCorrect, OnceInvariant, NothingLostSilently, PTL DEF Spec

\* The row of an id no failure has hit holds the log accepted first.
THEOREM FirstIsKept == Spec => []FirstAcceptedWins
<1>1. OrderInv => FirstAcceptedWins
  BY DEF OrderInv, FirstAcceptedWins
<1>2. QED
  BY <1>1, OrderInvariant, PTL

(***************************************************************************)
(* The ledger                                                               *)
(***************************************************************************)

\* What phase says of a request.
LEMMA PhaseOf ==
    ASSUME NEW r \in Request
    PROVE  /\ meta[r] # None => phase[r] = "stored"
           /\ meta[r] = None /\ IsPending(r) => phase[r] = "accepted"
           /\ meta[r] = None /\ ~IsPending(r) /\ first[r] # None => phase[r] = "lost"
           /\ meta[r] = None /\ ~IsPending(r) /\ first[r] = None => phase[r] = "unseen"
BY DEF phase, HasAssignment

\* A request about which nothing changes keeps its phase.
LEMMA PhaseStays ==
    ASSUME NEW r \in Request, meta'[r] = meta[r], IsPending(r)' <=> IsPending(r),
           meta[r] = None /\ ~IsPending(r) => (first'[r] # None <=> first[r] # None)
    PROVE  phase'[r] = phase[r]
BY DEF phase, HasAssignment

\* Requests that all move to one phase while the others stay make a move of the ledger.
LEMMA Moves ==
    ASSUME NEW S \in SUBSET Request, NEW to,
           \A r \in S : phase'[r] = to,
           \A r \in Request \ S : phase'[r] = phase[r]
    PROVE  Ledger!Move(S, to)
<1>1. phase' = [r \in Request |-> phase'[r]]
  BY DEF phase
<1>2. QED
  BY <1>1 DEF Ledger!Move

\* A step that leaves the rows and the phases alone is none of the ledger.
LEMMA Stutters ==
    ASSUME meta' = meta, \A r \in Request : phase'[r] = phase[r]
    PROVE  UNCHANGED Ledger!vars
<1>1. phase' = [r \in Request |-> phase'[r]] /\ phase = [r \in Request |-> phase[r]]
  BY DEF phase
<1>2. QED
  BY <1>1 DEF Ledger!vars

\* A PUT accepts the ids it takes that no earlier log waits for.
LEMMA PutAccepts ==
    ASSUME TypeOK, NEW raw \in Batches, PutLogs(raw)
    PROVE  Ledger!Next
<1> DEFINE b == Considered(raw)
           logs == {b[i] : i \in Accepted(b)}
<1>1. logs \in SUBSET Log /\ \A x \in logs : meta[x.rid] = None
  BY ConsideredType, AcceptedAreLogs, IngestAssumption DEF HasAssignment
<1>2. /\ queue' = Enqueue(queue, logs)
      /\ \A r \in Request : first'[r] = IF first[r] = None /\ r \in Rids(logs)
                                      THEN (CHOOSE x \in logs : x.rid = r).content ELSE first[r]
      /\ UNCHANGED <<meta, batch, embedding, faulted>>
  BY DEF PutLogs
<1> HIDE DEF logs, b
<1>3. Pending \subseteq Pending' /\ logs \subseteq Pending'
  BY <1>1, <1>2, EnqueueKeepsPending
<1>4. Pending' \subseteq Pending \cup logs
  <2>1. queue \in Seq(SUBSET Log)
    BY DEF TypeOK
  <2>2. \A i \in DOMAIN queue' : queue'[i] = logs \/ (i \in DOMAIN queue /\ queue'[i] = queue[i])
    BY <1>1, <1>2, <2>1 DEF Enqueue
  <2>3. QED
    BY <1>2, <2>2 DEF Pending
<1>5. \A r : IsPending(r)' <=> IsPending(r) \/ r \in Rids(logs)
  BY <1>3, <1>4 DEF IsPending, Rids
<1> DEFINE S == {r \in Request : r \in Rids(logs) /\ ~IsPending(r)}
<1>6. ASSUME NEW r \in S
      PROVE  phase[r] \in {"unseen", "lost"} /\ phase'[r] = "accepted"
  <2>1. r \in Request /\ r \in Rids(logs) /\ ~IsPending(r) /\ IsPending(r)'
    BY <1>5
  <2>2. meta[r] = None /\ meta'[r] = None
    BY <1>1, <1>2, <2>1 DEF Rids
  <2>3. phase'[r] = "accepted"
    BY <2>1, <2>2 DEF phase, HasAssignment
  <2>4. QED
    BY <2>1, <2>2, <2>3, PhaseOf
<1>7. ASSUME NEW r \in Request \ S
      PROVE  phase'[r] = phase[r]
  <2>1. IsPending(r)' <=> IsPending(r)
    BY <1>5
  <2>2. ~IsPending(r) => first'[r] = first[r]
    BY <1>2
  <2>3. QED
    BY <1>2, <2>1, <2>2, PhaseStays
<1>8. S \in SUBSET Request
  OBVIOUS
<1> HIDE DEF S
<1>9. Ledger!Move(S, "accepted")
  BY <1>6, <1>7, <1>8, Moves
<1>10. Ledger!Accept(S)
  BY <1>2, <1>6, <1>9 DEF Ledger!Accept
<1>11. QED
  BY <1>8, <1>10 DEF Ledger!Next

\* An item that ends in the worker is stored, lost, or leaves a later log of its id
\* to wait.
LEMMA EndsAnItem ==
    ASSUME TypeOK, OnceInv, OrderInv, NEW x \in embedding, EndItem(x)
    PROVE  Ledger!Next \/ UNCHANGED Ledger!vars
<1>1. /\ UNCHANGED <<first, queue, batch>>
      /\ embedding' = embedding \ {x}
      /\ UpsertAssignment(x) \/ meta' = meta
  BY DEF EndItem, FinishItem, FailEmbedding, FailVector, FailCount, stored
<1>2. x.rid \in Request /\ x.content \in Content /\ x.content # None /\ meta[x.rid] = None
  BY IngestAssumption DEF TypeOK, Log, OnceInv, HasAssignment
<1>3. x \in Pending /\ IsPending(x.rid) /\ first[x.rid] # None
  BY DEF Pending, IsPending, OrderInv
<1>4. phase[x.rid] = "accepted"
  BY <1>2, <1>3, PhaseOf
<1>5. Pending' \subseteq Pending /\ Pending \subseteq Pending' \cup {x}
  BY <1>1 DEF Pending
<1>6. \A r \in Request \ {x.rid} : IsPending(r)' <=> IsPending(r)
  BY <1>5 DEF IsPending
<1>7. \A r \in Request \ {x.rid} : meta'[r] = meta[r]
  BY <1>1, <1>2 DEF UpsertAssignment, TypeOK
<1>8. \A r \in Request \ {x.rid} : phase'[r] = phase[r]
  BY <1>1, <1>6, <1>7, PhaseStays
<1>9. CASE UpsertAssignment(x)
  <2>1. meta' = [meta EXCEPT ![x.rid] = x.content]
    BY <1>9 DEF UpsertAssignment
  <2>2. meta'[x.rid] # None
    BY <1>2, <2>1 DEF TypeOK
  <2>3. phase'[x.rid] = "stored"
    BY <1>2, <2>2 DEF phase, HasAssignment
  <2>4. Ledger!Move({x.rid}, "stored")
    BY <1>2, <1>8, <2>3, Moves
  <2>5. Ledger!Store(x.rid, x.content)
    BY <1>4, <2>1, <2>4 DEF Ledger!Store
  <2>6. QED
    BY <1>2, <2>5 DEF Ledger!Next
<1>10. CASE meta' = meta /\ IsPending(x.rid)'
  <2>1. phase'[x.rid] = phase[x.rid]
    BY <1>2, <1>3, <1>10, PhaseStays
  <2>2. QED
    BY <1>8, <1>10, <2>1, Stutters
<1>11. CASE meta' = meta /\ ~IsPending(x.rid)'
  <2>1. phase'[x.rid] = "lost"
    BY <1>1, <1>2, <1>3, <1>11 DEF phase, HasAssignment
  <2>2. Ledger!Move({x.rid}, "lost")
    BY <1>2, <1>8, <2>1, Moves
  <2>3. Ledger!Lose({x.rid})
    BY <1>4, <1>11, <2>2 DEF Ledger!Lose
  <2>4. QED
    BY <1>2, <2>3 DEF Ledger!Next
<1>12. QED
  BY <1>1, <1>9, <1>10, <1>11

\* A restart loses what waits and is not stored.
LEMMA RestartLoses ==
    ASSUME TypeOK, OrderInv, Restart
    PROVE  Ledger!Next
<1>1. queue' = <<>> /\ batch' = {} /\ embedding' = {} /\ UNCHANGED <<meta, first>>
  BY DEF Restart, stored
<1>2. \A r : ~IsPending(r)'
  BY <1>1 DEF Pending, IsPending
<1>3. \A r : IsPending(r) => first[r] # None
  BY DEF OrderInv, IsPending
<1> DEFINE S == {r \in Request : meta[r] = None /\ IsPending(r)}
<1>4. ASSUME NEW r \in S
      PROVE  phase[r] = "accepted" /\ phase'[r] = "lost"
  BY <1>1, <1>2, <1>3, PhaseOf DEF phase, HasAssignment
<1>5. ASSUME NEW r \in Request \ S
      PROVE  phase'[r] = phase[r]
  <2>1. CASE meta[r] # None
    BY <1>1, <2>1 DEF phase, HasAssignment
  <2>2. CASE ~IsPending(r)
    BY <1>1, <1>2, <2>2, PhaseStays
  <2>3. QED
    BY <2>1, <2>2
<1>6. S \in SUBSET Request
  OBVIOUS
<1> HIDE DEF S
<1>7. Ledger!Move(S, "lost")
  BY <1>4, <1>5, <1>6, Moves
<1>8. Ledger!Lose(S)
  BY <1>1, <1>4, <1>7 DEF Ledger!Lose
<1>9. QED
  BY <1>6, <1>8 DEF Ledger!Next

\* The write path, with its queue, batches, stores and failures, keeps the promises
\* of the ledger.
THEOREM KeepsTheLedger == Spec => ImplementsLedger
<1>1. Init => Ledger!Init
  <2> SUFFICES ASSUME Init
               PROVE  Ledger!Init
    OBVIOUS
  <2>1. \A r \in Request : meta[r] = None /\ first[r] = None /\ ~IsPending(r)
    BY DEF Init, IsPending, Pending
  <2>2. phase = [r \in Request |-> phase[r]]
    BY DEF phase
  <2>3. QED
    BY <2>1, <2>2, PhaseOf DEF Init, Ledger!Init
<1>2. TypeOK /\ OnceInv /\ OrderInv /\ [Next]_vars => [Ledger!Next]_(Ledger!vars)
  <2> SUFFICES ASSUME TypeOK, OnceInv, OrderInv, [Next]_vars
               PROVE  Ledger!Next \/ UNCHANGED Ledger!vars
    OBVIOUS
  <2>1. ASSUME TakeBatch
        PROVE  UNCHANGED Ledger!vars
    <3>1. UNCHANGED <<meta, first>>
      BY <2>1 DEF TakeBatch, stored, history
    <3>2. Pending' \subseteq Pending
      <4>1. queue \in Seq(SUBSET Log) /\ queue # <<>>
        BY <2>1 DEF TypeOK, TakeBatch
      <4>2. \A i \in DOMAIN queue' : i + 1 \in DOMAIN queue /\ queue'[i] = queue[i + 1]
        BY <2>1, <4>1 DEF TakeBatch
      <4>3. batch' = queue[1] /\ 1 \in DOMAIN queue /\ embedding' = {}
        BY <2>1, <4>1 DEF TakeBatch
      <4>4. QED
        BY <4>2, <4>3 DEF Pending
    <3>3. Pending' = Pending
      BY <2>1, <3>2, TakeBatchKeepsPending
    <3>4. \A r : IsPending(r)' <=> IsPending(r)
      BY <3>3 DEF IsPending
    <3>5. QED
      BY <3>1, <3>4, PhaseStays, Stutters
  <2>2. ASSUME NEW x \in batch, SkipDuplicate(x)
        PROVE  UNCHANGED Ledger!vars
    <3>1. UNCHANGED <<meta, first, queue, embedding>> /\ batch' = batch \ {x} /\ meta[x.rid] # None
      BY <2>2 DEF SkipDuplicate, stored, history, HasAssignment
    <3>2. Pending' \subseteq Pending /\ Pending \subseteq Pending' \cup {x}
      BY <3>1 DEF Pending
    <3>3. ASSUME NEW r \in Request
          PROVE  phase'[r] = phase[r]
      <4>1. CASE r = x.rid
        BY <3>1, <4>1 DEF phase, HasAssignment
      <4>2. CASE r # x.rid
        <5>1. IsPending(r)' <=> IsPending(r)
          BY <3>2, <4>2 DEF IsPending
        <5>2. QED
          BY <3>1, <5>1, PhaseStays
      <4>3. QED
        BY <4>1, <4>2
    <3>4. QED
      BY <3>1, <3>3, Stutters
  <2>3. ASSUME NEW x \in batch, StartEmbedding(x)
        PROVE  UNCHANGED Ledger!vars
    <3>1. UNCHANGED <<meta, first>> /\ Pending' = Pending
      BY <2>3 DEF StartEmbedding, stored, history, Pending
    <3>2. \A r : IsPending(r)' <=> IsPending(r)
      BY <3>1 DEF IsPending
    <3>3. QED
      BY <3>1, <3>2, PhaseStays, Stutters
  <2>4. CASE UNCHANGED vars
    <3>1. UNCHANGED <<meta, first>> /\ Pending' = Pending
      BY <2>4 DEF vars, stored, volatile, history, Pending
    <3>2. \A r : IsPending(r)' <=> IsPending(r)
      BY <3>1 DEF IsPending
    <3>3. QED
      BY <3>1, <3>2, PhaseStays, Stutters
  <2>5. QED
    BY <2>1, <2>2, <2>3, <2>4, PutAccepts, EndsAnItem, RestartLoses DEF Next, EndItem
<1>3. QED
  BY <1>1, <1>2, TypeCorrect, OnceInvariant, OrderInvariant, PTL
     DEF Spec, ImplementsLedger, Ledger!Spec


(***************************************************************************)
(* What EveryLogSettles rests on: the worker's steps run out.               *)
(***************************************************************************)

\* The worker holds finitely many logs, and no more of them at once than the
\* semaphore lets through.
WorkInv ==
    /\ IsFiniteSet(batch) /\ IsFiniteSet(embedding)
    /\ \A i \in DOMAIN queue : IsFiniteSet(queue[i])
    /\ Cardinality(embedding) <= Concurrency

\* The logs of a batch are finitely many.
LEMMA AcceptedAreFinite ==
    ASSUME NEW b \in Seq(Item)
    PROVE  IsFiniteSet({b[i] : i \in Accepted(b)})
<1> DEFINE S == Accepted(b)
           g == [i \in S |-> b[i]]
<1>1. S \in SUBSET (1 .. Len(b))
  BY AcceptedAreLogs
<1>2. IsFiniteSet(S)
  <2>1. IsFiniteSet(1 .. Len(b))
    BY FS_Interval
  <2>2. QED
    BY <1>1, <2>1, FS_Subset
<1>3. g \in Surjection(S, {b[i] : i \in S})
  BY DEF Surjection
<1> HIDE DEF g, S
<1>4. IsFiniteSet({b[i] : i \in S})
  BY <1>2, <1>3, FS_Surjection
<1>5. QED
  BY <1>4 DEF S

\* However the batches come and the calls end, the worker's sets stay finite and the
\* semaphore keeps its count.
THEOREM WorkInvariant == Spec => []WorkInv
<1>1. Init => WorkInv
  <2> SUFFICES ASSUME Init PROVE WorkInv
    OBVIOUS
  <2>1. IsFiniteSet({}) /\ Cardinality({}) = 0
    BY FS_EmptySet
  <2>2. QED
    BY <2>1, IngestAssumption DEF Init, WorkInv
<1>2. TypeOK /\ WorkInv /\ [Next]_vars => WorkInv'
  <2> SUFFICES ASSUME TypeOK, WorkInv, [Next]_vars
               PROVE  WorkInv'
    OBVIOUS
  <2>1. ASSUME NEW raw \in Batches, PutLogs(raw)
        PROVE  WorkInv'
    <3> DEFINE b == Considered(raw)
               logs == {b[i] : i \in Accepted(b)}
    <3>1. IsFiniteSet(logs)
      BY ConsideredType, IngestAssumption, AcceptedAreFinite
    <3>2. queue' = Enqueue(queue, logs) /\ batch' = batch /\ embedding' = embedding
      BY <2>1 DEF PutLogs
    <3> HIDE DEF logs
    <3>3. queue \in Seq(SUBSET Log)
      BY DEF TypeOK
    <3>4. \A i \in DOMAIN queue' : IsFiniteSet(queue'[i])
      <4>1. CASE logs = {}
        BY <3>2, <4>1 DEF Enqueue, WorkInv
      <4>2. CASE logs # {}
        BY <3>1, <3>2, <3>3, <4>2 DEF Enqueue, WorkInv
      <4>3. QED
        BY <4>1, <4>2
    <3>5. QED
      BY <3>2, <3>4 DEF WorkInv
  <2>2. CASE TakeBatch
    <3>1. queue \in Seq(SUBSET Log) /\ queue # <<>>
      BY <2>2 DEF TypeOK, TakeBatch
    <3>2. batch' = queue[1] /\ queue' = Tail(queue) /\ embedding' = embedding
      BY <2>2, <3>1 DEF TakeBatch
    <3>3. IsFiniteSet(batch')
      BY <3>1, <3>2 DEF WorkInv
    <3>4. \A i \in DOMAIN queue' : IsFiniteSet(queue'[i])
      <4>1. \A i \in DOMAIN queue' : i + 1 \in DOMAIN queue /\ queue'[i] = queue[i + 1]
        BY <3>1, <3>2
      <4>2. QED
        BY <4>1 DEF WorkInv
    <3>5. QED
      BY <3>2, <3>3, <3>4 DEF WorkInv
  <2>3. ASSUME NEW x \in batch, SkipDuplicate(x)
        PROVE  WorkInv'
    <3>1. batch' \subseteq batch /\ queue' = queue /\ embedding' = embedding
      BY <2>3 DEF SkipDuplicate
    <3>2. QED
      BY <3>1, FS_Subset DEF WorkInv
  <2>4. ASSUME NEW x \in batch, StartEmbedding(x)
        PROVE  WorkInv'
    <3>1. batch' \subseteq batch /\ queue' = queue /\ embedding' = embedding \cup {x}
      BY <2>4 DEF StartEmbedding
    <3>2. IsFiniteSet(batch') /\ IsFiniteSet(embedding')
      BY <3>1, FS_Subset, FS_AddElement DEF WorkInv
    <3>3. Cardinality(embedding') <= Cardinality(embedding) + 1
      <4>1. Cardinality(embedding \cup {x}) = IF x \in embedding THEN Cardinality(embedding)
                                              ELSE Cardinality(embedding) + 1
        BY FS_AddElement DEF WorkInv
      <4>2. Cardinality(embedding) \in Nat
        BY FS_CardinalityType DEF WorkInv
      <4>3. QED
        BY <3>1, <4>1, <4>2
    <3>4. Cardinality(embedding) < Concurrency /\ Cardinality(embedding) \in Nat /\ Cardinality(embedding') \in Nat
      BY <2>4, <3>2, FS_CardinalityType DEF StartEmbedding, WorkInv
    <3>5. Cardinality(embedding') <= Concurrency
      BY <3>3, <3>4, IngestAssumption
    <3>6. QED
      BY <3>1, <3>2, <3>5 DEF WorkInv
  <2>5. ASSUME NEW x \in embedding, EndItem(x)
        PROVE  WorkInv'
    <3>1. embedding' \in SUBSET embedding /\ batch' = batch /\ queue' = queue
      BY <2>5 DEF EndItem, FinishItem, FailEmbedding, FailVector, FailCount
    <3>2. /\ IsFiniteSet(embedding') /\ Cardinality(embedding') <= Cardinality(embedding)
          /\ Cardinality(embedding') \in Nat /\ Cardinality(embedding) \in Nat
      BY <3>1, FS_Subset, FS_CardinalityType DEF WorkInv
    <3>3. Cardinality(embedding') <= Concurrency
      BY <3>2, IngestAssumption DEF WorkInv
    <3>4. QED
      BY <3>1, <3>2, <3>3 DEF WorkInv
  <2>6. CASE Restart
    <3>1. queue' = <<>> /\ batch' = {} /\ embedding' = {}
      BY <2>6 DEF Restart
    <3>2. IsFiniteSet({}) /\ Cardinality({}) = 0
      BY FS_EmptySet
    <3>3. QED
      BY <3>1, <3>2, IngestAssumption DEF WorkInv
  <2>7. CASE UNCHANGED vars
    BY <2>7 DEF vars, volatile, WorkInv
  <2>8. QED
    BY <2>1, <2>2, <2>3, <2>4, <2>5, <2>6, <2>7 DEF Next, EndItem
<1>3. QED
  BY <1>1, <1>2, TypeCorrect, PTL DEF Spec

\* Each step of the worker takes a batch off the queue, an item off the batch or an
\* item off the semaphore, and adds nothing to what it takes from.
WorkShrinks ==
    [][puts' = puts /\ restarts' = restarts =>
           \/ Len(queue') < Len(queue)
           \/ queue' = queue /\ Cardinality(batch') < Cardinality(batch)
           \/ queue' = queue /\ batch' = batch /\ Cardinality(embedding') < Cardinality(embedding)]_vars

\* Without new requests the worker comes to an end: its steps go down in the
\* lexicographic order of the queue, the batch and the calls under way, whatever is
\* skipped and whatever fails.
THEOREM WorkAlwaysShrinks == Spec => WorkShrinks
<1>1. ASSUME TypeOK, WorkInv, Next, puts' = puts, restarts' = restarts
      PROVE  \/ Len(queue') < Len(queue)
             \/ queue' = queue /\ Cardinality(batch') < Cardinality(batch)
             \/ queue' = queue /\ batch' = batch /\ Cardinality(embedding') < Cardinality(embedding)
  <2>1. ASSUME NEW raw \in Batches, PutLogs(raw) PROVE FALSE
    BY <1>1, <2>1 DEF PutLogs, TypeOK
  <2>2. ~Restart
    BY <1>1 DEF Restart, TypeOK
  <2>3. CASE TakeBatch
    <3>1. queue \in Seq(SUBSET Log) /\ queue # <<>> /\ queue' = Tail(queue)
      BY <1>1, <2>3 DEF TypeOK, TakeBatch
    <3>2. Len(queue') < Len(queue)
      BY <3>1
    <3>3. QED
      BY <3>2
  <2>4. ASSUME NEW x \in batch, SkipDuplicate(x) \/ StartEmbedding(x)
        PROVE  queue' = queue /\ Cardinality(batch') < Cardinality(batch)
    <3>1. batch' = batch \ {x} /\ queue' = queue
      BY <2>4 DEF SkipDuplicate, StartEmbedding
    <3>2. IsFiniteSet(batch)
      BY <1>1 DEF WorkInv
    <3>3. Cardinality(batch') = Cardinality(batch) - 1 /\ Cardinality(batch) \in Nat
      BY <3>1, <3>2, FS_RemoveElement, FS_CardinalityType
    <3>4. QED
      BY <3>1, <3>3
  <2>5. ASSUME NEW x \in embedding, EndItem(x)
        PROVE  queue' = queue /\ batch' = batch /\ Cardinality(embedding') < Cardinality(embedding)
    <3>1. embedding' = embedding \ {x} /\ queue' = queue /\ batch' = batch
      BY <2>5 DEF EndItem, FinishItem, FailEmbedding, FailVector, FailCount
    <3>2. IsFiniteSet(embedding)
      BY <1>1 DEF WorkInv
    <3>3. Cardinality(embedding') = Cardinality(embedding) - 1 /\ Cardinality(embedding) \in Nat
      BY <3>1, <3>2, FS_RemoveElement, FS_CardinalityType
    <3>4. QED
      BY <3>1, <3>3
  <2>6. QED
    BY <1>1, <2>1, <2>2, <2>3, <2>4, <2>5 DEF Next, EndItem
<1>2. TypeOK /\ WorkInv /\ [Next]_vars =>
        [puts' = puts /\ restarts' = restarts =>
           \/ Len(queue') < Len(queue)
           \/ queue' = queue /\ Cardinality(batch') < Cardinality(batch)
           \/ queue' = queue /\ batch' = batch /\ Cardinality(embedding') < Cardinality(embedding)]_vars
  BY <1>1
<1>3. QED
  BY <1>2, TypeCorrect, WorkInvariant, PTL DEF Spec, WorkShrinks
===============================================================================
