-------------------------- MODULE EmbedSlots_proofs --------------------------
(***************************************************************************)
(* Proofs about EmbedSlots for every number of batches and every setting of *)
(* the limits, the recovery streak and the retries.                         *)
(***************************************************************************)
EXTENDS EmbedSlots, FiniteSetTheorems, TLAPS

\* The number of batches in a phase is a natural number.
LEMMA CountIsNat ==
    ASSUME NEW p
    PROVE  IsFiniteSet(In(p)) /\ Cardinality(In(p)) \in Nat
<1>1. In(p) \in SUBSET Batch
  BY DEF In
<1>2. IsFiniteSet(In(p))
  BY <1>1, SlotsAssumption, FS_Subset
<1>3. QED
  BY <1>2, FS_CardinalityType

\* A batch that goes from one phase to another leaves the first by one smaller,
\* makes the second by one larger, and does not touch the others.
LEMMA GoCounts ==
    ASSUME phase \in [Batch -> Phase], NEW b \in Batch, NEW from \in Phase, NEW to \in Phase,
           phase[b] = from, Go(b, to), from # to
    PROVE  /\ Cardinality(In(from)') = Cardinality(In(from)) - 1
           /\ Cardinality(In(to)') = Cardinality(In(to)) + 1
           /\ \A q \in Phase \ {from, to} : Cardinality(In(q)') = Cardinality(In(q))
<1>1. \A x \in Batch : phase'[x] = IF x = b THEN to ELSE phase[x]
  BY DEF Go
<1>2. In(from)' = In(from) \ {b} /\ b \in In(from)
  BY <1>1 DEF In
<1>3. In(to)' = In(to) \cup {b} /\ b \notin In(to)
  BY <1>1 DEF In
<1>4. \A q \in Phase \ {from, to} : In(q)' = In(q)
  BY <1>1 DEF In
<1>5. Cardinality(In(from) \ {b}) = Cardinality(In(from)) - 1
  BY <1>2, CountIsNat, FS_RemoveElement
<1>6. Cardinality(In(to) \cup {b}) = Cardinality(In(to)) + 1
  BY <1>3, CountIsNat, FS_AddElement
<1>7. \A q \in Phase \ {from, to} : Cardinality(In(q)') = Cardinality(In(q))
  BY <1>4
<1>8. QED
  BY <1>2, <1>3, <1>5, <1>6, <1>7

\* A call under way holds a slot, so a release finds one to give back.
Slots == inFlight = Cardinality(In("calling")) + Cardinality(In("crashed"))

\* Every variable keeps its kind, and the counter keeps counting the calls.
LEMMA InitSlots == Init => TypeOK /\ Slots
<1> SUFFICES ASSUME Init PROVE TypeOK /\ Slots
  OBVIOUS
<1>2. TypeOK
  BY SlotsAssumption DEF Init, TypeOK, Phase
<1>3. In("calling") = {} /\ In("crashed") = {}
  BY DEF Init, In
<1>4. QED
  BY <1>2, <1>3, FS_EmptySet DEF Init, Slots

\* One more success, up to the number that matters.
LEMMA MoreType ==
    ASSUME NEW n \in 0 .. RecoverEvery
    PROVE  /\ More(n) \in 0 .. RecoverEvery
           /\ More(n) <= n + 1
           /\ \A m \in 0 .. RecoverEvery : n <= m => More(n) <= More(m)
BY SlotsAssumption DEF More, Least

\* What release does to the gate while a call is under way.
LEMMA ReleaseType ==
    ASSUME TypeOK, Slots, NEW b \in Batch, phase[b] = "calling",
           ReleaseSuccess \/ ReleaseBusy \/ ReleaseError
    PROVE  /\ inFlight' = inFlight - 1
           /\ inFlight' \in 0 .. MaxLimit
           /\ limit' \in MinLimit .. MaxLimit
           /\ streak' \in 0 .. RecoverEvery
           /\ earned' \in 0 .. RecoverEvery
<1> USE SlotsAssumption
<1>1. inFlight > 0
  <2>1. b \in In("calling")
    BY DEF In
  <2>2. Cardinality(In("calling")) # 0
    BY <2>1, CountIsNat, FS_EmptySet
  <2>3. QED
    BY <2>2, CountIsNat DEF Slots
<1>2. FreeSlot
  BY DEF ReleaseSuccess, ReleaseBusy, ReleaseError
<1>3. inFlight' = inFlight - 1 /\ inFlight' \in 0 .. MaxLimit
  BY <1>1, <1>2 DEF FreeSlot, TypeOK
<1>4. More(streak) \in 0 .. RecoverEvery /\ More(earned) \in 0 .. RecoverEvery
  BY MoreType DEF TypeOK
<1>5. CASE ReleaseSuccess
  BY <1>3, <1>4, <1>5 DEF ReleaseSuccess, TypeOK
<1>6. CASE ReleaseBusy
  <2>1. limit' \in MinLimit .. MaxLimit
    <3>1. limit \div 2 \in Nat /\ limit \div 2 <= limit
      BY DEF TypeOK
    <3>2. QED
      BY <1>6, <3>1 DEF ReleaseBusy, TypeOK
  <2>2. QED
    BY <1>3, <1>6, <2>1 DEF ReleaseBusy
<1>7. CASE ReleaseError
  BY <1>3, <1>7 DEF ReleaseError, TypeOK
<1>8. QED
  BY <1>5, <1>6, <1>7
\* One more attempt, or the end.
LEMMA RetryType ==
    ASSUME TypeOK, NEW b \in Batch, phase[b] = "calling", RetryOrRaise(b)
    PROVE  /\ \E p \in {"raised", "sleeping"} : Go(b, p)
           /\ attempt' \in [Batch -> 0 .. MaxRetries]
<1>1. CASE attempt[b] >= MaxRetries
  BY <1>1 DEF RetryOrRaise, TypeOK
<1>2. CASE ~(attempt[b] >= MaxRetries)
  <2>1. attempt[b] + 1 \in 0 .. MaxRetries
    BY <1>2, SlotsAssumption DEF TypeOK
  <2>2. QED
    BY <1>2, <2>1 DEF RetryOrRaise, TypeOK
<1>3. QED
  BY <1>1, <1>2

\* The counter keeps counting when a call is answered and its slot freed.
LEMMA AnsweredSlots ==
    ASSUME TypeOK, Slots, NEW b \in Batch, phase[b] = "calling", inFlight' = inFlight - 1,
           NEW p \in {"returned", "raised", "sleeping"}, Go(b, p)
    PROVE  Slots' /\ phase' \in [Batch -> Phase]
<1>1. /\ Cardinality(In("calling")') = Cardinality(In("calling")) - 1
      /\ Cardinality(In("crashed")') = Cardinality(In("crashed"))
  BY GoCounts DEF TypeOK, Phase
<1>2. phase' \in [Batch -> Phase]
  BY DEF Go, TypeOK, Phase
<1>3. QED
  BY <1>1, <1>2, CountIsNat DEF Slots, TypeOK

\* Each step keeps the types and the count.
LEMMA StepSlots ==
    ASSUME TypeOK, Slots, [Next]_vars
    PROVE  TypeOK' /\ Slots'
<1> USE SlotsAssumption
<1>1. ASSUME NEW b \in Batch, Acquire(b)
      PROVE  TypeOK' /\ Slots'
  <2>1. /\ Cardinality(In("calling")') = Cardinality(In("calling")) + 1
        /\ Cardinality(In("crashed")') = Cardinality(In("crashed"))
    BY <1>1, GoCounts DEF Acquire, TypeOK, Phase
  <2>2. Slots'
    BY <1>1, <2>1, CountIsNat DEF Acquire, Slots
  <2>3. phase' \in [Batch -> Phase]
    BY <1>1 DEF Acquire, Go, TypeOK, Phase
  <2>4. QED
    BY <1>1, <2>2, <2>3 DEF Acquire, TypeOK
<1>2. ASSUME NEW b \in Batch, Succeed(b)
      PROVE  TypeOK' /\ Slots'
  BY <1>2, ReleaseType, AnsweredSlots DEF Succeed, TypeOK
<1>3. ASSUME NEW b \in Batch, AnswerBusy(b)
      PROVE  TypeOK' /\ Slots'
  BY <1>3, ReleaseType, RetryType, AnsweredSlots DEF AnswerBusy, TypeOK
<1>4. ASSUME NEW b \in Batch, AnswerHiccup(b)
      PROVE  TypeOK' /\ Slots'
  BY <1>4, ReleaseType, RetryType, AnsweredSlots DEF AnswerHiccup, TypeOK
<1>5. ASSUME NEW b \in Batch, AnswerRefused(b)
      PROVE  TypeOK' /\ Slots'
  BY <1>5, ReleaseType, AnsweredSlots DEF AnswerRefused, TypeOK
<1>6. ASSUME NEW b \in Batch, AnswerUncaught(b)
      PROVE  TypeOK' /\ Slots'
  <2>1. /\ Cardinality(In("calling")') = Cardinality(In("calling")) - 1
        /\ Cardinality(In("crashed")') = Cardinality(In("crashed")) + 1
    BY <1>6, GoCounts DEF AnswerUncaught, TypeOK, Phase
  <2>2. Slots'
    BY <1>6, <2>1, CountIsNat DEF AnswerUncaught, Slots, gate
  <2>3. phase' \in [Batch -> Phase]
    BY <1>6 DEF AnswerUncaught, Go, TypeOK, Phase
  <2>4. QED
    BY <1>6, <2>2, <2>3 DEF AnswerUncaught, TypeOK, gate
<1>7. ASSUME NEW b \in Batch, Wake(b)
      PROVE  TypeOK' /\ Slots'
  <2>1. /\ Cardinality(In("calling")') = Cardinality(In("calling"))
        /\ Cardinality(In("crashed")') = Cardinality(In("crashed"))
    BY <1>7, GoCounts DEF Wake, TypeOK, Phase
  <2>2. Slots'
    BY <1>7, <2>1 DEF Wake, Slots, gate
  <2>3. phase' \in [Batch -> Phase]
    BY <1>7 DEF Wake, Go, TypeOK, Phase
  <2>4. QED
    BY <1>7, <2>2, <2>3 DEF Wake, TypeOK, gate
<1>8. CASE UNCHANGED vars
  BY <1>8 DEF vars, gate, loop, TypeOK, Slots, In
<1>9. QED
  BY <1>1, <1>2, <1>3, <1>4, <1>5, <1>6, <1>7, <1>8 DEF Next, Answer

\* Types hold in every reachable state, for any number of batches and limits: in
\* particular the limit never leaves the bounds of the constructor.
THEOREM TypeCorrect == Spec => []TypeOK
<1>1. Init => TypeOK /\ Slots
  BY InitSlots
<1>2. TypeOK /\ Slots /\ [Next]_vars => TypeOK' /\ Slots'
  BY StepSlots
<1>3. QED
  BY <1>1, <1>2, PTL DEF Spec

\* The gate counts the calls under way and the slots lost, and the provider never
\* sees more than max_limit calls at once, even while the limit shrinks.
THEOREM SlotsCounted == Spec => []SlotsAreCalls
<1>1. Init => TypeOK /\ Slots
  BY InitSlots
<1>2. TypeOK /\ Slots /\ [Next]_vars => TypeOK' /\ Slots'
  BY StepSlots
<1>3. TypeOK /\ Slots => SlotsAreCalls
  BY CountIsNat, SlotsAssumption DEF TypeOK, Slots, SlotsAreCalls
<1>4. QED
  BY <1>1, <1>2, <1>3, PTL DEF Spec

\* The streak of the gate never runs ahead of the successes that count.
LEMMA StepStreak ==
    ASSUME TypeOK, StreakInv, [Next]_vars
    PROVE  /\ StreakInv'
           /\ limit' > limit => limit' = limit + 1 /\ More(earned) = RecoverEvery
<1> USE SlotsAssumption
<1>1. CASE UNCHANGED <<limit, streak, earned>>
  BY <1>1 DEF StreakInv, TypeOK
<1>2. CASE ReleaseSuccess
  <2>1. /\ More(streak) <= More(earned)
        /\ More(streak) \in 0 .. RecoverEvery
        /\ More(earned) \in 0 .. RecoverEvery
    BY MoreType DEF TypeOK, StreakInv
  <2>2. QED
    BY <1>2, <2>1 DEF ReleaseSuccess, StreakInv, TypeOK
<1>3. CASE ReleaseBusy
  <2>1. limit \div 2 <= limit /\ limit \div 2 \in Nat
    BY DEF TypeOK
  <2>2. QED
    BY <1>3, <2>1 DEF ReleaseBusy, StreakInv, TypeOK
<1>4. QED
  BY <1>1, <1>2, <1>3
     DEF Next, Acquire, Wake, Answer, Succeed, AnswerBusy, AnswerHiccup, AnswerRefused,
         AnswerUncaught, ReleaseError, vars, gate

\* A limit that was lowered rises only after recover_every successes since the
\* last busy answer, whatever calls were under way when it was lowered.
THEOREM RaisesEarned == Spec => RaisesAreEarned
<1>1. Init => StreakInv
  BY DEF Init, StreakInv
<1>2. TypeOK /\ StreakInv /\ [Next]_vars =>
          /\ StreakInv'
          /\ [limit' > limit => limit' = limit + 1 /\ More(earned) = RecoverEvery]_vars
  BY StepStreak
<1>3. QED
  BY <1>1, <1>2, TypeCorrect, PTL DEF Spec, RaisesAreEarned

-------------------------------------------------------------------------------
(* What EveryBatchEnds rests on: the steps run out, and as long as somebody     *)
(* waits and min_limit slots are not all lost, somebody can move.               *)

\* The steps a batch may still take: a retry counts three, the wait, the call and
\* the sleep before the next one.
Left(b) ==
    CASE phase[b] = "sleeping" -> 3 * (MaxRetries - attempt[b]) + 3
      [] phase[b] = "waiting"  -> 3 * (MaxRetries - attempt[b]) + 2
      [] phase[b] = "calling"  -> 3 * (MaxRetries - attempt[b]) + 1
      [] OTHER -> 0

\* Every step of the system spends one of those steps of one batch and gives none
\* to another.
Spends(b) ==
    /\ Left(b)' < Left(b)
    /\ \A c \in Batch \ {b} : Left(c)' = Left(c)
StepsRunOut == [][\E b \in Batch : Spends(b)]_vars

\* A batch has a natural number of steps left, at most three per attempt.
LEMMA LeftType ==
    ASSUME TypeOK
    PROVE  \A b \in Batch : Left(b) \in 0 .. 3 * MaxRetries + 3
<1> SUFFICES ASSUME NEW b \in Batch PROVE Left(b) \in 0 .. 3 * MaxRetries + 3
  OBVIOUS
<1>1. attempt[b] \in Nat /\ attempt[b] <= MaxRetries /\ MaxRetries \in Nat
  BY SlotsAssumption DEF TypeOK
<1> DEFINE more == MaxRetries - attempt[b]
<1>2. more \in Nat /\ more <= MaxRetries
  BY <1>1
<1>3. Left(b) \in {0, 3 * more + 3, 3 * more + 2, 3 * more + 1}
  BY DEF Left
<1> HIDE DEF more
<1>4. QED
  BY <1>1, <1>2, <1>3

\* A batch that is not the one that moves keeps its steps.
LEMMA OthersKeep ==
    ASSUME TypeOK, NEW b \in Batch, NEW to, Go(b, to),
           attempt' = attempt \/ attempt' = [attempt EXCEPT ![b] = @ + 1]
    PROVE  \A c \in Batch \ {b} : Left(c)' = Left(c)
<1>1. \A c \in Batch \ {b} : phase'[c] = phase[c] /\ attempt'[c] = attempt[c]
  BY DEF Go, TypeOK
<1>2. QED
  BY <1>1 DEF Left

\* The batch that moves has fewer steps left afterwards.
LEMMA MoverSpends ==
    ASSUME TypeOK, NEW b \in Batch, NEW to \in Phase, Go(b, to),
           \/ /\ attempt' = attempt
              /\ \/ phase[b] = "waiting" /\ to = "calling"
                 \/ phase[b] = "sleeping" /\ to = "waiting"
                 \/ phase[b] = "calling" /\ to \in {"returned", "raised", "crashed"}
           \/ /\ attempt' = [attempt EXCEPT ![b] = @ + 1]
              /\ phase[b] = "calling" /\ to = "sleeping"
    PROVE  Left(b)' < Left(b)
<1>1. attempt[b] \in Nat /\ attempt[b] <= MaxRetries /\ MaxRetries \in Nat
  BY SlotsAssumption DEF TypeOK
<1>2. phase'[b] = to
  BY DEF Go, TypeOK
<1>3. CASE /\ attempt' = attempt
           /\ \/ phase[b] = "waiting" /\ to = "calling"
              \/ phase[b] = "sleeping" /\ to = "waiting"
              \/ phase[b] = "calling" /\ to \in {"returned", "raised", "crashed"}
  <2> DEFINE more == 3 * (MaxRetries - attempt[b])
  <2>1. more \in Nat
    BY <1>1
  <2>2. /\ to = "calling" => Left(b)' = more + 1
        /\ to = "waiting" => Left(b)' = more + 2
        /\ to \in {"returned", "raised", "crashed"} => Left(b)' = 0
    BY <1>2, <1>3 DEF Left
  <2>3. /\ phase[b] = "waiting" => Left(b) = more + 2
        /\ phase[b] = "sleeping" => Left(b) = more + 3
        /\ phase[b] = "calling" => Left(b) = more + 1
    BY DEF Left
  <2> HIDE DEF more
  <2>4. QED
    BY <1>3, <2>1, <2>2, <2>3
<1>4. CASE /\ attempt' = [attempt EXCEPT ![b] = @ + 1]
           /\ phase[b] = "calling" /\ to = "sleeping"
  <2>1. attempt'[b] = attempt[b] + 1
    BY <1>4 DEF TypeOK
  <2>2. Left(b)' = 3 * (MaxRetries - (attempt[b] + 1)) + 3
    BY <1>2, <1>4, <2>1 DEF Left
  <2>3. Left(b) = 3 * (MaxRetries - attempt[b]) + 1
    BY <1>4 DEF Left
  <2>4. QED
    BY <1>1, <2>2, <2>3
<1>5. QED
  BY <1>3, <1>4

\* No behaviour goes on for ever: every step lowers what one batch has left, which
\* is a natural number, and raises nobody's, whatever the provider answers.
THEOREM StepsAlwaysRunOut == Spec => StepsRunOut
<1>1. ASSUME TypeOK, Next PROVE \E b \in Batch : Spends(b)
  <2>1. PICK b \in Batch : Acquire(b) \/ Answer(b) \/ Wake(b)
    BY <1>1 DEF Next
  <2>2. CASE Acquire(b)
    <3>1. Spends(b)
      BY <1>1, <2>2, OthersKeep, MoverSpends DEF Acquire, Phase, Spends
    <3>2. QED
      BY <3>1
  <2>3. CASE Wake(b)
    <3>1. Spends(b)
      BY <1>1, <2>3, OthersKeep, MoverSpends DEF Wake, Phase, Spends
    <3>2. QED
      BY <3>1
  <2>4. CASE Answer(b)
    <3>1. \/ /\ attempt' = attempt
             /\ \E to \in {"returned", "raised", "crashed"} : phase[b] = "calling" /\ Go(b, to)
          \/ /\ attempt' = [attempt EXCEPT ![b] = @ + 1]
             /\ phase[b] = "calling" /\ Go(b, "sleeping")
      BY <2>4 DEF Answer, Succeed, AnswerBusy, AnswerHiccup, AnswerRefused, AnswerUncaught, RetryOrRaise
    <3>2. Spends(b)
      BY <1>1, <3>1, OthersKeep, MoverSpends DEF Phase, Spends
    <3>3. QED
      BY <3>2
  <2>5. QED
    BY <2>1, <2>2, <2>3, <2>4
<1>2. TypeOK /\ [Next]_vars => [\E b \in Batch : Spends(b)]_vars
  BY <1>1
<1>3. QED
  BY <1>2, TypeCorrect, PTL DEF Spec, StepsRunOut

\* Whoever waits is not waiting for nobody: a slot is free, or a call under way will
\* give one back, however far the limit was lowered, as long as uncaught exceptions
\* have lost fewer than min_limit slots.
NobodyStuck ==
    In("waiting") # {} /\ Cardinality(In("crashed")) < MinLimit
        => inFlight < limit \/ In("calling") # {}

\* The gate never closes on everybody.
THEOREM NobodyEverStuck == Spec => []NobodyStuck
<1>1. TypeOK /\ SlotsAreCalls => NobodyStuck
  <2> SUFFICES ASSUME TypeOK, SlotsAreCalls, Cardinality(In("crashed")) < MinLimit, In("calling") = {}
               PROVE  inFlight < limit
    BY DEF NobodyStuck
  <2>1. Cardinality(In("calling")) = 0
    BY FS_EmptySet
  <2>2. Cardinality(In("crashed")) \in Nat
    BY CountIsNat
  <2>3. limit \in Nat /\ MinLimit <= limit /\ MinLimit \in Nat
    BY SlotsAssumption DEF TypeOK
  <2>4. QED
    BY <2>1, <2>2, <2>3 DEF SlotsAreCalls
<1>2. QED
  BY <1>1, TypeCorrect, SlotsCounted, PTL
===============================================================================
