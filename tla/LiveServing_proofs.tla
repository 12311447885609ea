-------------------------- MODULE LiveServing_proofs --------------------------
(* Proofs about LiveServing, for any requests, records, timestamps and page   *)
(* size: the data ML has is committed, a source's counter never runs ahead of *)
(* its records, pages leave no row out, and the cache is never staler than    *)
(* its time to live and a timeout.                                            *)
EXTENDS LiveServing, FiniteSetTheorems, WellFoundedInduction, TLAPS

------------------------------------------------------------------------------
(* Live requests and the counters of their sources.                           *)
Requested ==
    [Requests -> [phase : {"idle", "looked", "stored", "sent", "done"},
                  source : Sources \cup {Nothing}, read : Nat]]
DataInv ==
    /\ service \in {"ml", "mock"}
    /\ valid \in [DOMAIN valid -> Nat] /\ DOMAIN valid \subseteq Sources
    /\ stored \in [DOMAIN stored -> DOMAIN valid] /\ DOMAIN stored \subseteq Records
    /\ IsFiniteSet(DOMAIN stored)
    /\ req \in Requested
    /\ overlap \in BOOLEAN
    /\ accepted \cup classified \subseteq DOMAIN stored

\* A request's records are committed together, once, and stay.
SendInv ==
    \A r \in Requests :
        /\ req[r].phase \in {"idle", "looked"} => Batch[r] \cap DOMAIN stored = {}
        /\ req[r].phase \in {"stored", "sent"} => Batch[r] \subseteq DOMAIN stored

\* Own(s) in a given table.
OwnIn(records, s) == {i \in DOMAIN records : records[i] = s}

\* What a request has read of a counter is bound to the records like the counter.
CountInv ==
    /\ \A s \in DOMAIN valid : /\ valid[s] <= Cardinality(OwnIn(stored, s))
                               /\ ~overlap => valid[s] = Cardinality(OwnIn(stored, s))
    /\ \A r \in Requests : req[r].phase = "looked" =>
          /\ req[r].source \in Sources
          /\ req[r].read <= Cardinality(OwnIn(stored, req[r].source))
          /\ ~overlap => req[r].read = Cardinality(OwnIn(stored, req[r].source))
    /\ ~overlap => \A r, q \in Requests :
                      req[r].phase = "looked" /\ req[q].phase = "looked" => r = q

LiveInv == DataInv /\ SendInv /\ CountInv

LEMMA OwnFinite ==
  ASSUME DataInv, NEW s
  PROVE  IsFiniteSet(OwnIn(stored, s)) /\ Cardinality(OwnIn(stored, s)) \in Nat
<1>1. OwnIn(stored, s) \in SUBSET DOMAIN stored
  BY DEF OwnIn
<1>2. IsFiniteSet(OwnIn(stored, s))
  BY <1>1, FS_Subset DEF DataInv
<1> QED
  BY <1>2, FS_CardinalityType

LEMMA LiveInit == Init => LiveInv
<1> SUFFICES ASSUME Init PROVE LiveInv
  OBVIOUS
<1>1. CASE valid = [s \in {} |-> 0] /\ stored = [i \in {} |-> Old] /\ accepted = {} /\ classified = {}
  <2>1. DOMAIN stored = {} /\ DOMAIN valid = {}
    BY <1>1
  <2>2. IsFiniteSet(DOMAIN stored)
    BY <2>1, FS_EmptySet
  <2>3. DataInv
    BY <1>1, <2>1, <2>2 DEF DataInv, Init, Requested, Idle, Sources, Records
  <2>4. SendInv
    BY <1>1, <2>1 DEF SendInv, Init, Idle
  <2>5. CountInv
    BY <1>1, <2>1 DEF CountInv, Init, Idle
  <2> QED
    BY <2>3, <2>4, <2>5 DEF LiveInv
<1>2. CASE /\ valid = [s \in {Old} |-> Cardinality(OldRecords)]
           /\ stored = [i \in OldRecords |-> Old]
           /\ accepted = IF service = "ml" THEN OldRecords ELSE {}
           /\ classified = OldRecords \/ (service = "ml" /\ classified = {})
  <2>1. /\ DOMAIN stored = OldRecords /\ DOMAIN valid = {Old}
        /\ IsFiniteSet(OldRecords) /\ Cardinality(OldRecords) \in Nat
    BY <1>2, ServingAssumption, FS_CardinalityType
  <2>2. DataInv
    BY <1>2, <2>1 DEF DataInv, Init, Requested, Idle, Sources, Records
  <2>3. SendInv
    BY <2>1, ServingAssumption DEF SendInv, Init, Idle
  <2>4. OwnIn(stored, Old) = OldRecords
    BY <1>2, <2>1 DEF OwnIn
  <2>5. CountInv
    BY <1>2, <2>1, <2>4 DEF CountInv, Init, Idle
  <2> QED
    BY <2>2, <2>3, <2>5 DEF LiveInv
<1> QED
  BY <1>1, <1>2 DEF Init

\* Looking a source up reads a counter that is bound to the records there are.
LEMMA LookUpKeeps ==
  ASSUME LiveInv, NEW r \in Requests, LookUp(r)
  PROVE  LiveInv'
<1> USE DEF LiveInv
<1>1. /\ service' = service /\ valid' = valid /\ stored' = stored
      /\ accepted' = accepted /\ classified' = classified
      /\ req[r].phase = "idle"
  BY DEF LookUp, ml
<1> DEFINE s == req'[r].source
           n == req'[r].read
<1>2. /\ s \in Sources /\ n \in Nat
      /\ n <= Cardinality(OwnIn(stored, s))
      /\ ~overlap => n = Cardinality(OwnIn(stored, s))
      /\ req' = [req EXCEPT ![r] = [phase |-> "looked", source |-> s, read |-> n]]
  <2>0. req \in Requested
    BY DEF DataInv
  <2>1. CASE /\ DOMAIN valid = {}
             /\ req' = [req EXCEPT ![r] = [phase |-> "looked", source |-> r, read |-> 0]]
    <3>1. OwnIn(stored, r) = {}
      BY <2>1 DEF DataInv, OwnIn
    <3>2. Cardinality(OwnIn(stored, r)) = 0
      BY <3>1, FS_EmptySet
    <3>3. s = r /\ n = 0
      BY <2>0, <2>1 DEF Requested
    <3> HIDE DEF s, n
    <3> QED
      BY <2>1, <3>2, <3>3 DEF Sources
  <2>2. ASSUME NEW t \in DOMAIN valid,
               req' = [req EXCEPT ![r] = [phase |-> "looked", source |-> t, read |-> valid[t]]]
        PROVE  /\ s \in Sources /\ n \in Nat
               /\ n <= Cardinality(OwnIn(stored, s))
               /\ ~overlap => n = Cardinality(OwnIn(stored, s))
               /\ req' = [req EXCEPT ![r] = [phase |-> "looked", source |-> s, read |-> n]]
    <3>1. /\ t \in Sources /\ valid[t] \in Nat
          /\ valid[t] <= Cardinality(OwnIn(stored, t))
          /\ ~overlap => valid[t] = Cardinality(OwnIn(stored, t))
      BY DEF DataInv, CountInv
    <3>2. s = t /\ n = valid[t]
      BY <2>0, <2>2 DEF Requested
    <3> HIDE DEF s, n
    <3> QED
      BY <2>2, <3>1, <3>2
  <2> QED
    BY <2>1, <2>2 DEF LookUp
<1>3. /\ req' \in Requested
      /\ req'[r] = [phase |-> "looked", source |-> s, read |-> n]
      /\ \A q \in Requests : q # r => req'[q] = req[q]
  BY <1>2 DEF DataInv, Requested
<1>4. /\ overlap' \in BOOLEAN
      /\ overlap => overlap'
      /\ ~overlap' => \A q \in Requests : req[q].phase # "looked"
  BY DEF LookUp, DataInv
<1>5. DataInv'
  BY <1>1, <1>3, <1>4 DEF DataInv, Requested, Sources
<1>6. SendInv'
  BY <1>1, <1>3 DEF SendInv
<1>7. \A t : OwnIn(stored', t) = OwnIn(stored, t)
  BY <1>1 DEF OwnIn
<1>8. CountInv'
  <2>1. \A t \in DOMAIN valid' : /\ valid'[t] <= Cardinality(OwnIn(stored', t))
                                 /\ ~overlap' => valid'[t] = Cardinality(OwnIn(stored', t))
    BY <1>1, <1>4, <1>7 DEF CountInv
  <2>2. \A q \in Requests : req'[q].phase = "looked" =>
            /\ req'[q].source \in Sources
            /\ req'[q].read <= Cardinality(OwnIn(stored', req'[q].source))
            /\ ~overlap' => req'[q].read = Cardinality(OwnIn(stored', req'[q].source))
    BY <1>2, <1>3, <1>4, <1>7 DEF CountInv
  <2>3. ~overlap' => \A p, q \in Requests :
                       req'[p].phase = "looked" /\ req'[q].phase = "looked" => p = q
    BY <1>3, <1>4
  <2> QED
    BY <2>1, <2>2, <2>3 DEF CountInv
<1> QED
  BY <1>5, <1>6, <1>8

\* The commit adds to a source exactly the records it adds to its counter.
LEMMA CommitKeeps ==
  ASSUME LiveInv, NEW r \in Requests, Commit(r)
  PROVE  LiveInv'
<1> DEFINE s == req[r].source
           B == Batch[r]
<1> USE DEF LiveInv
<1>1. /\ req[r].phase = "looked" /\ s \in Sources /\ req[r].read \in Nat
      /\ B \cap DOMAIN stored = {}
      /\ B \subseteq Records
      /\ IsFiniteSet(B) /\ Cardinality(B) \in Nat
  BY ServingAssumption, FS_CardinalityType
     DEF Commit, SendInv, CountInv, DataInv, Requested, Records
<1>2. /\ DOMAIN stored' = DOMAIN stored \cup B
      /\ \A i \in B : stored'[i] = s
      /\ \A i \in DOMAIN stored : stored'[i] = stored[i]
      /\ stored' \in [DOMAIN stored \cup B -> DOMAIN valid \cup {s}]
  BY <1>1 DEF Commit, With, DataInv
<1>3. /\ DOMAIN valid' = DOMAIN valid \cup {s}
      /\ valid'[s] = req[r].read + Cardinality(B)
      /\ \A t \in DOMAIN valid \ {s} : valid'[t] = valid[t]
      /\ valid' \in [DOMAIN valid \cup {s} -> Nat]
  BY <1>1 DEF Commit, With, DataInv
<1>4. /\ req' \in Requested
      /\ req'[r].phase = "stored"
      /\ \A q \in Requests : q # r => req'[q] = req[q]
  BY DEF Commit, DataInv, Requested
<1>5. /\ service' = service /\ overlap' = overlap
      /\ accepted' = accepted /\ classified' = classified
  BY DEF Commit, ml
<1>6. IsFiniteSet(DOMAIN stored')
  <2>1. IsFiniteSet(DOMAIN stored) /\ IsFiniteSet(B)
    BY <1>1 DEF DataInv
  <2> HIDE DEF B
  <2>2. IsFiniteSet(DOMAIN stored \cup B)
    BY <2>1, FS_Union
  <2> QED
    BY <1>2, <2>2
<1>7. DataInv'
  BY <1>1, <1>2, <1>3, <1>4, <1>5, <1>6 DEF DataInv, Requested, Sources
<1>8. SendInv'
  BY <1>1, <1>2, <1>4, ServingAssumption DEF SendInv
<1>9. /\ OwnIn(stored', s) = OwnIn(stored, s) \cup B
      /\ \A t : t # s => OwnIn(stored', t) = OwnIn(stored, t)
  BY <1>1, <1>2 DEF OwnIn
<1>10. Cardinality(OwnIn(stored', s)) = Cardinality(OwnIn(stored, s)) + Cardinality(B)
  <2>1. IsFiniteSet(OwnIn(stored, s)) /\ Cardinality(OwnIn(stored, s)) \in Nat
    BY OwnFinite
  <2>2. OwnIn(stored, s) \cap B = {}
    BY <1>1 DEF OwnIn
  <2>3. Cardinality(OwnIn(stored, s) \cap B) = 0
    BY <2>2, FS_EmptySet
  <2> HIDE DEF B
  <2>4. Cardinality(OwnIn(stored, s) \cup B)
          = Cardinality(OwnIn(stored, s)) + Cardinality(B) - Cardinality(OwnIn(stored, s) \cap B)
    BY <1>1, <2>1, FS_Union
  <2> QED
    BY <1>1, <1>9, <2>1, <2>3, <2>4
<1>11. CountInv'
  <2> HIDE DEF s, B
  <2>1. Cardinality(OwnIn(stored, s)) \in Nat
    BY OwnFinite
  <2>2. /\ req[r].read <= Cardinality(OwnIn(stored, s))
        /\ ~overlap => req[r].read = Cardinality(OwnIn(stored, s))
    BY <1>1 DEF CountInv, s
  <2>3. \A t \in DOMAIN valid' : /\ valid'[t] <= Cardinality(OwnIn(stored', t))
                                 /\ ~overlap' => valid'[t] = Cardinality(OwnIn(stored', t))
    <3> SUFFICES ASSUME NEW t \in DOMAIN valid'
                 PROVE  /\ valid'[t] <= Cardinality(OwnIn(stored', t))
                        /\ ~overlap' => valid'[t] = Cardinality(OwnIn(stored', t))
      OBVIOUS
    <3>1. CASE t = s
      BY <1>1, <1>3, <1>5, <1>10, <2>1, <2>2, <3>1
    <3>2. CASE t # s
      BY <1>3, <1>5, <1>9, <3>2 DEF CountInv
    <3> QED
      BY <3>1, <3>2
  <2>4. \A q \in Requests : req'[q].phase = "looked" =>
            /\ req'[q].source \in Sources
            /\ req'[q].read <= Cardinality(OwnIn(stored', req'[q].source))
            /\ ~overlap' => req'[q].read = Cardinality(OwnIn(stored', req'[q].source))
    <3> SUFFICES ASSUME NEW q \in Requests, req'[q].phase = "looked"
                 PROVE  /\ req'[q].source \in Sources
                        /\ req'[q].read <= Cardinality(OwnIn(stored', req'[q].source))
                        /\ ~overlap' => req'[q].read = Cardinality(OwnIn(stored', req'[q].source))
      OBVIOUS
    <3>1. q # r /\ req'[q] = req[q] /\ overlap
      BY <1>1, <1>4 DEF CountInv
    <3>2. /\ req[q].source \in Sources /\ req[q].read \in Nat
          /\ req[q].read <= Cardinality(OwnIn(stored, req[q].source))
      BY <3>1 DEF CountInv, DataInv, Requested
    <3>3. CASE req[q].source = s
      BY <1>1, <1>5, <1>10, <2>1, <3>1, <3>2, <3>3
    <3>4. CASE req[q].source # s
      BY <1>5, <1>9, <3>1, <3>2, <3>4
    <3> QED
      BY <3>3, <3>4
  <2>5. ~overlap' => \A p, q \in Requests :
                       req'[p].phase = "looked" /\ req'[q].phase = "looked" => p = q
    BY <1>4, <1>5 DEF CountInv
  <2> QED
    BY <2>3, <2>4, <2>5 DEF CountInv
<1> QED
  BY <1>7, <1>8, <1>11

\* Every other step leaves the database alone and gives ML only what is in it.
LEMMA OthersKeep ==
  ASSUME LiveInv, service' = service, valid' = valid, stored' = stored, overlap' = overlap,
         accepted' \cup classified' \subseteq DOMAIN stored,
         req' \in Requested,
         \A q \in Requests : \/ req'[q] = req[q]
                             \/ /\ req[q].phase \in {"stored", "sent"}
                                /\ req'[q].phase \in {"sent", "done"}
  PROVE  LiveInv'
<1> USE DEF LiveInv
<1>1. DataInv'
  BY DEF DataInv, Requested, Sources
<1>2. SendInv'
  BY DEF SendInv
<1>3. \A t : OwnIn(stored', t) = OwnIn(stored, t)
  BY DEF OwnIn
<1>4. CountInv'
  BY <1>3 DEF CountInv
<1> QED
  BY <1>1, <1>2, <1>4

LEMMA LiveStep == LiveInv /\ [Next]_vars => LiveInv'
<1> SUFFICES ASSUME LiveInv, [Next]_vars PROVE LiveInv'
  OBVIOUS
<1>0. /\ accepted \cup classified \subseteq DOMAIN stored
      /\ req \in Requested
  BY DEF LiveInv, DataInv
<1>1. ASSUME NEW r \in Requests, LookUp(r) PROVE LiveInv'
  BY <1>1, LookUpKeeps
<1>2. ASSUME NEW r \in Requests, Commit(r) PROVE LiveInv'
  BY <1>2, CommitKeeps
<1>3. ASSUME NEW r \in Requests, Send(r) PROVE LiveInv'
  <2>1. Batch[r] \subseteq DOMAIN stored
    BY <1>3 DEF Send, SendFrom, LiveInv, SendInv
  <2>2. accepted' \cup classified' \subseteq DOMAIN stored
    BY <1>0, <1>3, <2>1 DEF Send, SendFrom
  <2>3. /\ req' \in Requested
        /\ \A q \in Requests : req'[q] = req[q] \/ (req[q].phase = "stored" /\ req'[q].phase = "sent")
    BY <1>0, <1>3 DEF Send, SendFrom, Requested
  <2> QED
    BY <1>3, <2>2, <2>3, OthersKeep DEF Send, SendFrom
<1>4. ASSUME NEW r \in Requests, SendFails(r) \/ Answered(r) PROVE LiveInv'
  <2>1. /\ req' \in Requested
        /\ \A q \in Requests : \/ req'[q] = req[q]
                               \/ /\ req[q].phase \in {"stored", "sent"}
                                  /\ req'[q].phase \in {"sent", "done"}
    BY <1>0, <1>4 DEF SendFails, Answered, Requested
  <2> QED
    BY <1>0, <1>4, <2>1, OthersKeep DEF SendFails, Answered, ml
<1>5. ASSUME NEW i \in Records, Classify(i) PROVE LiveInv'
  BY <1>0, <1>5, OthersKeep DEF Classify, database
<1>6. CASE StartSync \/ ReadPage \/ PageFails \/ EndSync
  BY <1>0, <1>6, OthersKeep DEF StartSync, ReadPage, ReadUpTo, PageFails, EndSync, database, ml
<1>7. ASSUME NEW v \in Views, Ask(v) \/ Compute(v) \/ Keep(v) \/ AskFails(v) PROVE LiveInv'
  BY <1>0, <1>7, OthersKeep DEF Ask, Compute, Keep, AskFails, database, ml
<1>8. CASE Tick
  BY <1>0, <1>8, OthersKeep DEF Tick, database, ml
<1>9. CASE UNCHANGED vars
  BY <1>0, <1>9, OthersKeep DEF vars, database, ml
<1> QED
  BY <1>1, <1>2, <1>3, <1>4, <1>5, <1>6, <1>7, <1>8, <1>9 DEF Next

\* The strengthening: records are committed before ML has them, and neither a counter
\* nor what a request has read of it is ever above the source's records.
THEOREM LiveInvariant == Spec => []LiveInv
<1> QED
  BY LiveInit, LiveStep, PTL DEF Spec

\* A source is never shown as waiting for records it does not have, and without
\* overlapping requests one shown as done is classified to the last record.
THEOREM ProgressIsHonest == Spec => []ProgressHonest
<1>1. LiveInv => ProgressHonest
  <2> SUFFICES ASSUME LiveInv, NEW s \in DOMAIN valid
               PROVE  /\ valid[s] <= Cardinality(Own(s))
                      /\ ~overlap => /\ valid[s] = Cardinality(Own(s))
                                     /\ Done(s) => Own(s) \subseteq classified
    BY DEF ProgressHonest
  <2>0. Own(s) = OwnIn(stored, s)
    BY DEF Own, OwnIn
  <2>1. /\ valid[s] <= Cardinality(Own(s))
        /\ ~overlap => valid[s] = Cardinality(Own(s))
    BY <2>0 DEF LiveInv, CountInv
  <2>2. ASSUME ~overlap, Done(s) PROVE Own(s) \subseteq classified
    <3>1. IsFiniteSet(Own(s)) /\ Cardinality(Own(s)) \in Nat
      BY <2>0, OwnFinite DEF LiveInv
    <3>2. Own(s) \cap classified \in SUBSET Own(s)
      OBVIOUS
    <3>3. /\ IsFiniteSet(Own(s) \cap classified)
          /\ Cardinality(Own(s) \cap classified) <= Cardinality(Own(s))
          /\ Cardinality(Own(s)) = Cardinality(Own(s) \cap classified) => Own(s) = Own(s) \cap classified
      BY <3>1, <3>2, FS_Subset
    <3>4. Cardinality(Own(s) \cap classified) \in Nat
      BY <3>3, FS_CardinalityType
    <3>5. Cardinality(Own(s) \cap classified) >= Cardinality(Own(s))
      BY <2>1, <2>2 DEF Done
    <3> QED
      BY <3>1, <3>3, <3>4, <3>5
  <2> QED
    BY <2>1, <2>2
<1> QED
  BY <1>1, LiveInvariant, PTL

------------------------------------------------------------------------------
(* The position of a row in the order ML lists its assignments in.            *)
\* Position(i) in a given set of rows.
PositionIn(C, i) == Cardinality({j \in C : Before(j, i)})

LEMMA BeforeTotal ==
  ASSUME service \in {"ml", "mock"}
  PROVE  /\ \A i \in Records : ~Before(i, i)
         /\ \A i, j \in Records : i # j => Before(i, j) \/ Before(j, i)
         /\ \A i, j, k \in Records : Before(i, j) /\ Before(j, k) => Before(i, k)
<1>1. /\ Records \subseteq Nat
      /\ \A i \in Records : Stamp[i] \in Int
  BY ServingAssumption DEF Records
<1>2. CASE service = "ml"
  BY <1>1, <1>2 DEF Before
<1>3. CASE service = "mock"
  BY <1>1, <1>3 DEF Before
<1> QED
  BY <1>2, <1>3

LEMMA PositionType ==
  ASSUME NEW C, IsFiniteSet(C), NEW i
  PROVE  /\ IsFiniteSet({j \in C : Before(j, i)})
         /\ PositionIn(C, i) \in Nat
<1>1. {j \in C : Before(j, i)} \in SUBSET C
  OBVIOUS
<1>2. IsFiniteSet({j \in C : Before(j, i)})
  BY <1>1, FS_Subset
<1> QED
  BY <1>2, FS_CardinalityType DEF PositionIn

\* Rows that arrive only push others back.
LEMMA PositionGrows ==
  ASSUME NEW C, NEW D, IsFiniteSet(D), C \subseteq D, NEW i
  PROVE  PositionIn(C, i) <= PositionIn(D, i)
<1>1. IsFiniteSet({j \in D : Before(j, i)})
  BY PositionType
<1>2. {j \in C : Before(j, i)} \in SUBSET {j \in D : Before(j, i)}
  OBVIOUS
<1> QED
  BY <1>1, <1>2, FS_Subset DEF PositionIn

LEMMA PositionStrict ==
  ASSUME service \in {"ml", "mock"}, NEW C, IsFiniteSet(C), C \subseteq Records,
         NEW i \in C, NEW k \in C, Before(i, k)
  PROVE  PositionIn(C, i) < PositionIn(C, k)
<1> DEFINE I == {j \in C : Before(j, i)}
           K == {j \in C : Before(j, k)}
<1>1. IsFiniteSet(I) /\ IsFiniteSet(K) /\ Cardinality(I) \in Nat /\ Cardinality(K) \in Nat
  BY PositionType DEF PositionIn
<1>2. I \in SUBSET K
  BY BeforeTotal
<1>3. i \in K /\ i \notin I
  BY BeforeTotal
<1> HIDE DEF I, K
<1>4. Cardinality(I) <= Cardinality(K) /\ (Cardinality(K) = Cardinality(I) => K = I)
  BY <1>1, <1>2, FS_Subset
<1>5. Cardinality(I) < Cardinality(K)
  BY <1>1, <1>3, <1>4
<1> QED
  BY <1>5 DEF PositionIn, I, K

LEMMA PositionBelowTotal ==
  ASSUME service \in {"ml", "mock"}, NEW C, IsFiniteSet(C), C \subseteq Records, NEW i \in C
  PROVE  PositionIn(C, i) < Cardinality(C)
<1> DEFINE I == {j \in C : Before(j, i)}
<1>1. IsFiniteSet(I) /\ Cardinality(I) \in Nat /\ Cardinality(C) \in Nat
  BY PositionType, FS_CardinalityType DEF PositionIn
<1>2. I \in SUBSET C /\ i \in C /\ i \notin I
  BY BeforeTotal
<1> HIDE DEF I
<1>3. Cardinality(I) <= Cardinality(C) /\ (Cardinality(C) = Cardinality(I) => C = I)
  BY <1>2, FS_Subset
<1>4. Cardinality(I) < Cardinality(C)
  BY <1>1, <1>2, <1>3
<1> QED
  BY <1>4 DEF PositionIn, I

LEMMA PositionUnique ==
  ASSUME service \in {"ml", "mock"}, NEW C, IsFiniteSet(C), C \subseteq Records,
         NEW i \in C, NEW k \in C, PositionIn(C, i) = PositionIn(C, k)
  PROVE  i = k
<1>1. PositionIn(C, i) \in Nat /\ PositionIn(C, k) \in Nat
  BY PositionType
<1>2. ~Before(i, k)
  <2> SUFFICES ASSUME Before(i, k) PROVE FALSE
    OBVIOUS
  <2> QED
    BY <1>1, PositionStrict
<1>3. ~Before(k, i)
  <2> SUFFICES ASSUME Before(k, i) PROVE FALSE
    OBVIOUS
  <2> QED
    BY <1>1, PositionStrict
<1> QED
  BY <1>2, <1>3, BeforeTotal

\* As many rows as lie between two positions, and no more.
LEMMA RowsBetween ==
  ASSUME service \in {"ml", "mock"}, NEW C, IsFiniteSet(C), C \subseteq Records,
         NEW T \in SUBSET C, NEW a \in Nat, NEW b \in Int, a <= b + 1,
         \A i \in T : PositionIn(C, i) \in a..b
  PROVE  IsFiniteSet(T) /\ Cardinality(T) \in Nat /\ Cardinality(T) <= b - a + 1
<1> DEFINE f == [i \in T |-> PositionIn(C, i)]
<1>1. f \in Injection(T, a..b)
  BY PositionUnique DEF Injection, IsInjective
<1> HIDE DEF f
<1>2. IsFiniteSet(a..b) /\ Cardinality(a..b) = IF a > b THEN 0 ELSE b - a + 1
  BY FS_Interval
<1>3. IsFiniteSet(T) /\ Cardinality(T) <= Cardinality(a..b)
  BY <1>1, <1>2, FS_Injection
<1>4. Cardinality(T) \in Nat
  BY <1>3, FS_CardinalityType
<1> QED
  BY <1>2, <1>3, <1>4

\* Where a page is empty, there is no row at its offset or after it.
LEMMA EmptyPageIsLast ==
  ASSUME service \in {"ml", "mock"}, NEW C, IsFiniteSet(C), C \subseteq Records,
         NEW n \in Nat, \A i \in C : PositionIn(C, i) # n
  PROVE  \A i \in C : PositionIn(C, i) < n
<1> DEFINE T == {PositionIn(C, i) : i \in {k \in C : PositionIn(C, k) >= n}}
<1>0. \A i \in C : PositionIn(C, i) \in Nat
  BY PositionType
<1>1. ASSUME T # {} PROVE FALSE
  <2>1. T \subseteq Nat
    BY <1>0
  <2>2. PICK m \in T : \A y \in T : ~ (<<y, m>> \in OpToRel(<, Nat))
    <3> HIDE DEF T
    <3> QED
      BY <1>1, <2>1, WFMin, NatLessThanWellFounded
  <2>3. PICK i \in C : PositionIn(C, i) = m /\ m >= n
    OBVIOUS
  <2>4. m \in Nat /\ m > n
    BY <1>0, <2>3
  <2>5. \A k \in C : Before(k, i) => PositionIn(C, k) \in 0..(n - 1)
    <3> SUFFICES ASSUME NEW k \in C, Before(k, i) PROVE PositionIn(C, k) \in 0..(n - 1)
      OBVIOUS
    <3>1. PositionIn(C, k) < m
      BY <2>3, PositionStrict
    <3>2. PositionIn(C, k) \in Nat
      BY <1>0
    <3>3. PositionIn(C, k) \notin T
      BY <2>2, <2>4, <3>1, <3>2 DEF OpToRel
    <3>4. PositionIn(C, k) < n
      BY <3>2, <3>3
    <3> QED
      BY <3>2, <3>4
  <2>6. Cardinality({k \in C : Before(k, i)}) <= n
    <3> DEFINE B == {k \in C : Before(k, i)}
    <3>1. B \in SUBSET C /\ \A k \in B : PositionIn(C, k) \in 0..(n - 1)
      BY <2>5
    <3> HIDE DEF B
    <3>2. Cardinality(B) <= (n - 1) - 0 + 1 /\ Cardinality(B) \in Nat
      BY <3>1, RowsBetween
    <3>3. Cardinality(B) <= n
      BY <3>2
    <3> QED
      BY <3>3 DEF B
  <2> QED
    BY <2>3, <2>4, <2>6 DEF PositionIn
<1>2. T = {}
  BY <1>1
<1> QED
  BY <1>0, <1>2

------------------------------------------------------------------------------
(* A sync that reads pages while rows arrive.                                 *)
Pagers == [phase : {"idle", "paging", "fetched"}, offset : Nat,
           items : SUBSET classified, start : SUBSET classified]
PagerInv ==
    /\ pager \in Pagers
    /\ pager.phase = "paging" =>
          \A i \in pager.start : PositionIn(classified, i) < pager.offset => i \in pager.items
    /\ pager.phase = "fetched" => pager.start \subseteq pager.items

LEMMA ClassifiedFinite ==
  ASSUME LiveInv
  PROVE  /\ service \in {"ml", "mock"}
         /\ classified \subseteq Records
         /\ IsFiniteSet(classified)
<1>1. classified \in SUBSET DOMAIN stored /\ IsFiniteSet(DOMAIN stored)
  BY DEF LiveInv, DataInv
<1> QED
  BY <1>1, FS_Subset DEF LiveInv, DataInv

LEMMA ReadPageKeeps ==
  ASSUME LiveInv, PagerInv, ReadPage
  PROVE  PagerInv'
<1> DEFINE items == PageAt(pager.offset)
           offset == pager.offset + Cardinality(items)
<1>1. /\ service \in {"ml", "mock"} /\ classified \subseteq Records
      /\ IsFiniteSet(classified) /\ Cardinality(classified) \in Nat
  BY ClassifiedFinite, FS_CardinalityType
<1>2. /\ pager.phase = "paging" /\ pager.offset \in Nat
      /\ pager.items \subseteq classified /\ pager.start \subseteq classified
      /\ \A i \in pager.start : PositionIn(classified, i) < pager.offset => i \in pager.items
  BY DEF PagerInv, Pagers, ReadPage, ReadUpTo
<1>3. \A i \in classified : PositionIn(classified, i) \in Nat
  BY <1>1, PositionType
<1>4. /\ items \in SUBSET classified
      /\ \A i \in classified : i \in items <=> PositionIn(classified, i) \in pager.offset..(pager.offset + Page - 1)
  BY DEF PageAt, Position, PositionIn
<1>5. Page \in Nat \ {0}
  BY ServingAssumption
<1>6. IsFiniteSet(items) /\ Cardinality(items) \in Nat /\ Cardinality(items) <= Page
  <2> DEFINE b == pager.offset + Page - 1
  <2>1. b \in Int /\ pager.offset <= b + 1 /\ b - pager.offset + 1 = Page
    BY <1>2, <1>5
  <2>2. \A i \in items : PositionIn(classified, i) \in pager.offset..b
    BY <1>4
  <2> HIDE DEF items, b
  <2> QED
    BY <1>1, <1>2, <1>4, <2>1, <2>2, RowsBetween
<1>7. classified' = classified /\ service' = service
  BY DEF ReadPage, ReadUpTo, ml
<1>8. \A i : PositionIn(classified, i)' = PositionIn(classified, i)
  BY <1>7 DEF PositionIn, Before
<1>9. pager' = [pager EXCEPT !.offset = offset, !.items = @ \cup items,
                             !.phase = IF items = {} \/ offset >= Cardinality(classified)
                                       THEN "fetched" ELSE "paging"]
  BY DEF ReadPage, ReadUpTo
<1> HIDE DEF items
<1>10. pager' \in Pagers
  <2>1. pager' = [phase |-> IF items = {} \/ offset >= Cardinality(classified) THEN "fetched" ELSE "paging",
                  offset |-> offset, items |-> pager.items \cup items, start |-> pager.start]
    BY <1>9 DEF PagerInv, Pagers
  <2>2. offset \in Nat /\ pager.items \cup items \subseteq classified
    BY <1>2, <1>4, <1>6
  <2> QED
    BY <1>2, <2>1, <2>2 DEF Pagers
<1>11. /\ pager'.offset = offset /\ offset \in Nat
       /\ pager'.items = pager.items \cup items
       /\ pager'.start = pager.start
       /\ pager'.phase = IF items = {} \/ offset >= Cardinality(classified) THEN "fetched" ELSE "paging"
  BY <1>2, <1>6, <1>9 DEF PagerInv, Pagers
<1>12. \A i \in pager.start : PositionIn(classified, i) < offset => i \in pager'.items
  <2> SUFFICES ASSUME NEW i \in pager.start, PositionIn(classified, i) < offset
               PROVE  i \in pager.items \cup items
    BY <1>11
  <2>1. CASE PositionIn(classified, i) < pager.offset
    BY <1>2, <2>1
  <2>2. CASE PositionIn(classified, i) >= pager.offset
    <3>1. PositionIn(classified, i) \in pager.offset..(pager.offset + Page - 1)
      BY <1>2, <1>3, <1>5, <1>6, <2>2
    <3> QED
      BY <1>2, <1>4, <3>1
  <2> QED
    BY <1>2, <1>3, <2>1, <2>2
<1>13. pager'.phase = "fetched" => pager'.start \subseteq pager'.items
  <2> SUFFICES ASSUME pager'.phase = "fetched", NEW i \in pager.start
               PROVE  i \in pager'.items
    BY <1>11
  <2>1. CASE items = {}
    <3>1. \A k \in classified : PositionIn(classified, k) # pager.offset
      BY <1>2, <1>3, <1>4, <1>5, <2>1
    <3>2. PositionIn(classified, i) < pager.offset
      BY <1>1, <1>2, <3>1, EmptyPageIsLast
    <3> QED
      BY <1>2, <1>11, <3>2
  <2>2. CASE offset >= Cardinality(classified)
    <3>1. PositionIn(classified, i) < Cardinality(classified)
      BY <1>1, <1>2, PositionBelowTotal
    <3>2. PositionIn(classified, i) < offset
      BY <1>1, <1>2, <1>3, <1>11, <2>2, <3>1
    <3> QED
      BY <1>12, <3>2
  <2> QED
    BY <1>11, <2>1, <2>2
<1> QED
  BY <1>7, <1>8, <1>10, <1>11, <1>12, <1>13 DEF PagerInv, Pagers

\* Rows that ML classifies meanwhile never bring a row below the offset.
LEMMA ArrivalsKeep ==
  ASSUME LiveInv, PagerInv, classified \subseteq classified', service' = service, pager' = pager,
         IsFiniteSet(classified')
  PROVE  PagerInv'
<1>1. pager.phase = "paging" =>
         \A i \in pager.start : PositionIn(classified', i) < pager.offset => i \in pager.items
  <2> SUFFICES ASSUME pager.phase = "paging", NEW i \in pager.start,
                      PositionIn(classified', i) < pager.offset
               PROVE  i \in pager.items
    OBVIOUS
  <2>1. PositionIn(classified, i) <= PositionIn(classified', i)
    BY PositionGrows
  <2>2. PositionIn(classified, i) \in Nat /\ PositionIn(classified', i) \in Nat /\ pager.offset \in Nat
    BY ClassifiedFinite, PositionType DEF PagerInv, Pagers
  <2>3. PositionIn(classified, i) < pager.offset
    BY <2>1, <2>2
  <2> QED
    BY <2>3 DEF PagerInv, Pagers
<1>2. \A i : PositionIn(classified, i)' = PositionIn(classified', i)
  BY DEF PositionIn, Before
<1> QED
  BY <1>1, <1>2 DEF PagerInv, Pagers

LEMMA PagerStep == LiveInv /\ LiveInv' /\ PagerInv /\ [Next]_vars => PagerInv'
<1> SUFFICES ASSUME LiveInv, LiveInv', PagerInv, [Next]_vars PROVE PagerInv'
  OBVIOUS
<1>0. IsFiniteSet(classified')
  <2>1. classified' \in SUBSET DOMAIN stored' /\ IsFiniteSet(DOMAIN stored')
    BY DEF LiveInv, DataInv
  <2> QED
    BY <2>1, FS_Subset
<1>1. CASE ReadPage
  BY <1>1, ReadPageKeeps
<1>2. CASE StartSync
  <2>1. pager' = [phase |-> "paging", offset |-> 0, items |-> {}, start |-> classified]
        /\ classified' = classified /\ service' = service
    BY <1>2 DEF StartSync, ml
  <2>2. \A i : PositionIn(classified, i)' = PositionIn(classified, i)
    BY <2>1 DEF PositionIn, Before
  <2>3. \A i : PositionIn(classified, i) \in Nat
    BY ClassifiedFinite, PositionType
  <2> QED
    BY <2>1, <2>2, <2>3 DEF PagerInv, Pagers
<1>3. CASE PageFails \/ EndSync
  BY <1>3 DEF PageFails, EndSync, NotPaging, PagerInv, Pagers
<1>4. ASSUME NEW r \in Requests, LookUp(r) \/ Commit(r) \/ SendFails(r) \/ Answered(r) PROVE PagerInv'
  BY <1>0, <1>4, ArrivalsKeep DEF LookUp, Commit, SendFails, Answered, ml
<1>5. ASSUME NEW r \in Requests, Send(r) PROVE PagerInv'
  BY <1>0, <1>5, ArrivalsKeep DEF Send, SendFrom
<1>6. ASSUME NEW i \in Records, Classify(i) PROVE PagerInv'
  BY <1>0, <1>6, ArrivalsKeep DEF Classify
<1>7. ASSUME NEW v \in Views, Ask(v) \/ Compute(v) \/ Keep(v) \/ AskFails(v) PROVE PagerInv'
  BY <1>0, <1>7, ArrivalsKeep DEF Ask, Compute, Keep, AskFails, ml
<1>8. CASE Tick \/ UNCHANGED vars
  BY <1>0, <1>8, ArrivalsKeep DEF Tick, vars, ml
<1> QED
  BY <1>1, <1>2, <1>3, <1>4, <1>5, <1>6, <1>7, <1>8 DEF Next

\* The strengthening: of the rows there were at the start, those whose position is below
\* the offset have been read, and rows that arrive push positions up only.
THEOREM PagerInvariant == Spec => []PagerInv
<1>1. Init => PagerInv
  BY DEF Init, NotPaging, PagerInv, Pagers
<1> QED
  BY <1>1, PagerStep, LiveInvariant, PTL DEF Spec

\* A sync leaves out none of the rows ML had when it began, for any page size, any
\* timestamps, ties included, and any rows that arrive between two pages.
THEOREM NothingSkipped == Spec => []NoRowSkipped
<1>1. PagerInv => NoRowSkipped
  BY DEF PagerInv, Pagers, NoRowSkipped
<1> QED
  BY <1>1, PagerInvariant, PTL

------------------------------------------------------------------------------
(* The statistics cache.                                                      *)
Asked == [phase : {"idle", "asking", "answered"}, waited : 0..Timeout, age : 0..Timeout,
          seen : SUBSET classified, caught : BOOLEAN]
Entries == [left : 1..Ttl, age : Nat, seen : SUBSET classified, caught : BOOLEAN]
CacheInv ==
    /\ dropped \subseteq classified
    /\ view \in [Views -> Asked]
    /\ \A v \in Views : /\ view[v].age <= view[v].waited
                        /\ view[v].phase = "answered" /\ ~view[v].caught => dropped \subseteq view[v].seen
    /\ cache # Nothing =>
          /\ cache \in Entries
          /\ cache.age + cache.left <= Ttl + Timeout
          /\ ~cache.caught => dropped \subseteq cache.seen

\* Rows that arrive change nothing of what was seen.
LEMMA CacheIdle ==
  ASSUME CacheInv, classified \subseteq classified', cache' = cache, view' = view, dropped' = dropped
  PROVE  CacheInv'
  BY DEF CacheInv, Asked, Entries

\* Dropping the cache marks the requests under way.
LEMMA CacheDropped ==
  ASSUME CacheInv, Invalidate, classified' = classified
  PROVE  CacheInv'
<1>1. cache' = Nothing /\ dropped' = classified /\ view' = Caught
  BY DEF Invalidate
<1>2. ASSUME NEW v \in Views
      PROVE  /\ view'[v] \in Asked
             /\ view'[v].age <= view'[v].waited
             /\ view'[v].phase = "answered" => view'[v].caught
  <2> DEFINE c == view[v].phase # "idle"
  <2>1. view[v] \in Asked /\ view[v].age <= view[v].waited
    BY DEF CacheInv
  <2>2. view'[v] = [view[v] EXCEPT !.caught = c]
    BY <1>1 DEF Caught
  <2>3. c \in BOOLEAN /\ (view[v].phase = "answered" => c)
    OBVIOUS
  <2> HIDE DEF c
  <2>4. view'[v] = [phase |-> view[v].phase, waited |-> view[v].waited, age |-> view[v].age,
                    seen |-> view[v].seen, caught |-> c]
    BY <2>1, <2>2 DEF Asked
  <2>5. view'[v].phase = view[v].phase /\ view'[v].caught = c
    BY <2>4
  <2> QED
    BY <2>1, <2>3, <2>4, <2>5 DEF Asked
<1>3. view' \in [Views -> Asked]
  BY <1>1, <1>2 DEF Caught
<1> QED
  BY <1>1, <1>2, <1>3 DEF CacheInv, Asked

LEMMA CacheAsked ==
  ASSUME CacheInv, NEW v \in Views, Ask(v) \/ Compute(v) \/ AskFails(v)
  PROVE  CacheInv'
<1>1. classified' = classified /\ cache' = cache /\ dropped' = dropped
  BY DEF Ask, Compute, AskFails, ml
<1>2. Timeout \in Nat
  BY ServingAssumption
<1>3. /\ view'[v] \in Asked
      /\ view'[v].age <= view'[v].waited
      /\ view'[v].phase = "answered" => view'[v].seen = classified
  <2>0. view \in [Views -> Asked] /\ view[v] \in Asked /\ view[v].age <= view[v].waited
    BY DEF CacheInv
  <2>1. CASE Ask(v)
    <3>1. view'[v] = [phase |-> "asking", waited |-> 0, age |-> 0, seen |-> {}, caught |-> FALSE]
      BY <2>0, <2>1 DEF Ask, NotAsking
    <3> QED
      BY <1>2, <3>1 DEF Asked
  <2>2. CASE Compute(v)
    <3>1. view'[v] = [view[v] EXCEPT !.phase = "answered", !.seen = classified]
      BY <2>0, <2>2 DEF Compute
    <3>2. view'[v] = [phase |-> "answered", waited |-> view[v].waited, age |-> view[v].age,
                      seen |-> classified, caught |-> view[v].caught]
      BY <2>0, <3>1 DEF Asked
    <3> QED
      BY <2>0, <3>2 DEF Asked
  <2>3. CASE AskFails(v)
    <3>1. view'[v] = [phase |-> "idle", waited |-> 0, age |-> 0, seen |-> {}, caught |-> FALSE]
      BY <2>0, <2>3 DEF AskFails, NotAsking
    <3> QED
      BY <1>2, <3>1 DEF Asked
  <2> QED
    BY <2>1, <2>2, <2>3
<1>4. view' = [view EXCEPT ![v] = view'[v]]
  BY DEF Ask, Compute, AskFails, CacheInv
<1>5. view' \in [Views -> Asked] /\ \A u \in Views : u # v => view'[u] = view[u]
  BY <1>3, <1>4 DEF CacheInv
<1> QED
  BY <1>1, <1>3, <1>5 DEF CacheInv, Asked, Entries

LEMMA CacheKept ==
  ASSUME CacheInv, NEW v \in Views, Keep(v)
  PROVE  CacheInv'
<1>1. classified' = classified /\ dropped' = dropped
  BY DEF Keep, ml
<1>2. Timeout \in Nat /\ Ttl \in Nat
  BY ServingAssumption
<1>3. /\ view[v].phase = "answered" /\ view[v].age \in 0..Timeout
      /\ view[v].seen \subseteq classified /\ view[v].caught \in BOOLEAN
      /\ ~view[v].caught => dropped \subseteq view[v].seen
  BY DEF Keep, CacheInv, Asked, Entries
<1>4. cache' # Nothing =>
          /\ cache' \in Entries
          /\ cache'.age + cache'.left <= Ttl + Timeout
          /\ ~cache'.caught => dropped \subseteq cache'.seen
  BY <1>2, <1>3 DEF Keep, CacheInv, Asked, Entries
<1>5. /\ view' \in [Views -> Asked]
      /\ \A u \in Views : view'[u] = IF u = v THEN NotAsking ELSE view[u]
  BY <1>2 DEF Keep, NotAsking, CacheInv, Asked, Entries
<1> QED
  BY <1>1, <1>2, <1>4, <1>5 DEF CacheInv, Asked, Entries, NotAsking

LEMMA CacheAges ==
  ASSUME CacheInv, Tick
  PROVE  CacheInv'
<1>1. classified' = classified /\ dropped' = dropped
  BY DEF Tick, ml
<1>2. Timeout \in Nat /\ Ttl \in Nat
  BY ServingAssumption
<1>3. cache' # Nothing =>
          /\ cache' \in Entries
          /\ cache'.age + cache'.left <= Ttl + Timeout
          /\ ~cache'.caught => dropped \subseteq cache'.seen
  <2>1. CASE cache = Nothing
    BY <2>1 DEF Tick
  <2>2. CASE cache # Nothing
    <3>1. /\ cache \in Entries
          /\ cache.age + cache.left <= Ttl + Timeout
          /\ ~cache.caught => dropped \subseteq cache.seen
          /\ cache' = IF cache.left = 1 THEN Nothing
                      ELSE [cache EXCEPT !.left = @ - 1, !.age = @ + 1]
      BY <2>2 DEF CacheInv, Asked, Entries, Tick, Older
    <3>2. CASE cache.left = 1
      BY <3>1, <3>2
    <3>3. CASE cache.left # 1
      <4>1. cache' = [left |-> cache.left - 1, age |-> cache.age + 1, seen |-> cache.seen,
                      caught |-> cache.caught]
        BY <3>1, <3>3 DEF Entries
      <4>2. cache.left - 1 \in 1..Ttl /\ cache.age + 1 \in Nat
        BY <1>2, <3>1, <3>3 DEF Entries
      <4>3. cache'.age = cache.age + 1 /\ cache'.left = cache.left - 1
            /\ cache'.caught = cache.caught /\ cache'.seen = cache.seen
        BY <4>1
      <4> QED
        BY <1>2, <3>1, <4>1, <4>2, <4>3 DEF Entries
    <3> QED
      BY <3>2, <3>3
  <2> QED
    BY <2>1, <2>2
<1>4. ASSUME NEW v \in Views
      PROVE  /\ view'[v] \in Asked
             /\ view'[v].age <= view'[v].waited
             /\ view'[v].phase = "answered" /\ ~view'[v].caught => dropped \subseteq view'[v].seen
  <2>1. /\ view[v] \in Asked
        /\ view[v].age <= view[v].waited
        /\ view[v].phase = "answered" /\ ~view[v].caught => dropped \subseteq view[v].seen
        /\ view[v].phase # "idle" => view[v].waited < Timeout
        /\ view'[v] = IF view[v].phase = "idle" THEN view[v]
                      ELSE [view[v] EXCEPT !.waited = @ + 1,
                                           !.age = IF view[v].phase = "answered" THEN @ + 1 ELSE @]
    BY DEF CacheInv, Asked, Entries, Tick
  <2> DEFINE age == IF view[v].phase = "answered" THEN view[v].age + 1 ELSE view[v].age
  <2>2. CASE view[v].phase = "idle"
    BY <2>1, <2>2
  <2>3. CASE view[v].phase # "idle"
    <3>1. view'[v] = [phase |-> view[v].phase, waited |-> view[v].waited + 1, age |-> age,
                      seen |-> view[v].seen, caught |-> view[v].caught]
      <4>1. view'[v] = [view[v] EXCEPT !.waited = @ + 1, !.age = age]
        BY <2>1, <2>3
      <4> HIDE DEF age
      <4> QED
        BY <2>1, <4>1 DEF Asked
    <3>2. view[v].waited + 1 \in 0..Timeout /\ age \in 0..Timeout /\ age <= view[v].waited + 1
      BY <1>2, <2>1, <2>3 DEF Asked
    <3> HIDE DEF age
    <3>3. /\ view'[v].phase = view[v].phase /\ view'[v].waited = view[v].waited + 1
          /\ view'[v].age = age
          /\ view'[v].seen = view[v].seen /\ view'[v].caught = view[v].caught
      BY <3>1
    <3> QED
      BY <2>1, <3>1, <3>2, <3>3 DEF Asked
  <2> QED
    BY <2>2, <2>3
<1>5. view' \in [Views -> Asked]
  BY <1>4 DEF Tick
<1> QED
  BY <1>1, <1>3, <1>4, <1>5 DEF CacheInv, Asked, Entries

LEMMA CacheStep == CacheInv /\ [Next]_vars => CacheInv'
<1> SUFFICES ASSUME CacheInv, [Next]_vars PROVE CacheInv'
  OBVIOUS
<1>1. ASSUME NEW r \in Requests, LookUp(r) \/ Commit(r) \/ SendFails(r) PROVE CacheInv'
  BY <1>1, CacheIdle DEF LookUp, Commit, SendFails, ml, statistics
<1>2. ASSUME NEW r \in Requests, Send(r) PROVE CacheInv'
  BY <1>2, CacheIdle DEF Send, SendFrom, statistics
<1>3. ASSUME NEW r \in Requests, Answered(r) PROVE CacheInv'
  BY <1>3, CacheDropped DEF Answered, ml
<1>4. ASSUME NEW i \in Records, Classify(i) PROVE CacheInv'
  BY <1>4, CacheIdle DEF Classify, statistics
<1>5. CASE StartSync \/ ReadPage \/ PageFails
  BY <1>5, CacheIdle DEF StartSync, ReadPage, ReadUpTo, PageFails, ml, statistics
<1>6. CASE EndSync
  BY <1>6, CacheIdle, CacheDropped DEF EndSync, ml, statistics
<1>7. ASSUME NEW v \in Views, Ask(v) \/ Compute(v) \/ AskFails(v) PROVE CacheInv'
  BY <1>7, CacheAsked
<1>8. ASSUME NEW v \in Views, Keep(v) PROVE CacheInv'
  BY <1>8, CacheKept
<1>9. CASE Tick
  BY <1>9, CacheAges
<1>10. CASE UNCHANGED vars
  BY <1>10, CacheIdle DEF vars, ml, statistics
<1> QED
  BY <1>1, <1>2, <1>3, <1>4, <1>5, <1>6, <1>7, <1>8, <1>9, <1>10 DEF Next

\* The strengthening: an entry's age and the time it has left are bound together, and a
\* request that was not caught by a drop has seen what ML had at the last one.
THEOREM CacheInvariant == Spec => []CacheInv
<1>1. Init => CacheInv
  BY ServingAssumption DEF Init, CacheInv, Asked, Entries, NotAsking
<1> QED
  BY <1>1, CacheStep, PTL DEF Spec

\* What the cache serves is younger than a time to live and a timeout, and misses
\* nothing of the last drop unless its request was under way then.
THEOREM CacheIsFollowing == Spec => []CacheFollows
<1>1. CacheInv => CacheFollows
  BY ServingAssumption DEF CacheInv, Asked, Entries, CacheFollows
<1> QED
  BY <1>1, CacheInvariant, PTL

\* Every reachable state is well typed, and ML and the cache only hold records whose
\* source and counter the backend has committed.
THEOREM TypeCorrect == Spec => []TypeOK
<1>1. LiveInv /\ PagerInv /\ CacheInv => TypeOK
  BY DEF LiveInv, DataInv, Requested, PagerInv, Pagers, CacheInv, Asked, Entries, TypeOK
<1> QED
  BY <1>1, LiveInvariant, PagerInvariant, CacheInvariant, PTL
==============================================================================
