------------------------------ MODULE EmbedSlots ------------------------------
(***************************************************************************)
(* The gate in front of the embedding provider: AdaptiveConcurrency and the *)
(* retry loop of _embed_batch_with_retry, run by any number of batches at   *)
(* once.  A busy provider halves the limit, successes raise it again, and   *)
(* calls started under the larger limit go on when it shrinks.              *)
(*                                                                          *)
(* acquire and release run under one lock, so each is an action.  The       *)
(* answers of a provider are reduced to what the loop tells apart: busy     *)
(* (also every transport error), a retryable error that is not busy, an     *)
(* error that is not retryable, and an exception the loop does not catch.   *)
(***************************************************************************)
EXTENDS Naturals, FiniteSets

CONSTANTS Batch,         \* the batches to embed
          MaxLimit,      \* AdaptiveConcurrency.max_limit
          MinLimit,      \* AdaptiveConcurrency.min_limit
          RecoverEvery,  \* AdaptiveConcurrency.recover_every
          MaxRetries,    \* embeddings.max_retries
          MaxUncaught    \* bound on the calls that end in an uncaught exception

ASSUME SlotsAssumption ==
    /\ IsFiniteSet(Batch)
    /\ MaxLimit \in Nat \ {0}
    /\ MinLimit \in 1 .. MaxLimit
    /\ RecoverEvery \in Nat \ {0}
    /\ MaxRetries \in Nat
    /\ MaxUncaught \in Nat

VARIABLES
    limit,     \* _limit
    inFlight,  \* _in_flight
    streak,    \* _success_streak, up to RecoverEvery: more is not told apart
    phase,     \* where the coroutine of each batch is
    attempt,   \* its loop variable
    earned     \* history: successes since the last busy answer or raise, up to RecoverEvery

gate == <<limit, inFlight, streak>>
loop == <<phase, attempt>>
vars == <<gate, loop, earned>>

Phase == {"waiting", "calling", "sleeping", "returned", "raised", "crashed"}

In(p) == {b \in Batch : phase[b] = p}

Least(m, n) == IF m < n THEN m ELSE n

More(n) == Least(n + 1, RecoverEvery)

Init ==
    /\ limit = MaxLimit
    /\ inFlight = 0
    /\ streak = 0
    /\ phase = [b \in Batch |-> "waiting"]
    /\ attempt = [b \in Batch |-> 0]
    /\ earned = 0

Go(b, p) == phase' = [phase EXCEPT ![b] = p]

\* acquire: the wait on the condition ends when a slot is free.
Acquire(b) ==
    /\ phase[b] = "waiting"
    /\ inFlight < limit
    /\ inFlight' = inFlight + 1
    /\ Go(b, "calling")
    /\ UNCHANGED <<limit, streak, attempt, earned>>

\* The slot is given back, never below zero.
FreeSlot == inFlight' = IF inFlight > 0 THEN inFlight - 1 ELSE 0

\* Mistaken form: a success below the maximum raises the limit at once.
ReleaseSuccessEager ==
    /\ FreeSlot
    /\ IF limit < MaxLimit
       THEN limit' = limit + 1 /\ streak' = 0
       ELSE limit' = limit /\ streak' = More(streak)
    /\ earned' = IF limit' > limit THEN 0 ELSE More(earned)

\* release(success=True)
ReleaseSuccess ==
    /\ FreeSlot
    /\ IF More(streak) >= RecoverEvery /\ limit < MaxLimit
       THEN limit' = limit + 1 /\ streak' = 0
       ELSE limit' = limit /\ streak' = More(streak)
    /\ earned' = IF limit' > limit THEN 0 ELSE More(earned)

\* Mistaken form: the limit is halved without regard to the minimum.
ReleaseBusyToZero ==
    /\ FreeSlot
    /\ limit' = limit \div 2
    /\ streak' = 0
    /\ earned' = 0

\* Mistaken form: the streak survives a busy answer.
ReleaseBusyKeepsStreak ==
    /\ FreeSlot
    /\ limit' = IF limit \div 2 > MinLimit THEN limit \div 2 ELSE MinLimit
    /\ streak' = streak
    /\ earned' = 0

\* Mistaken form: a transport error is slept on with the slot still taken.
ReleaseBusyKeepsSlot ==
    /\ inFlight' = inFlight
    /\ limit' = IF limit \div 2 > MinLimit THEN limit \div 2 ELSE MinLimit
    /\ streak' = 0
    /\ earned' = 0

\* release(busy=True)
ReleaseBusy ==
    /\ FreeSlot
    /\ limit' = IF limit \div 2 > MinLimit THEN limit \div 2 ELSE MinLimit
    /\ streak' = 0
    /\ earned' = 0

\* release(success=False, busy=False): limit and streak stay as they are.
ReleaseError ==
    /\ FreeSlot
    /\ UNCHANGED <<limit, streak, earned>>

\* Mistaken form: the last attempt is slept on like the others.
RetryOrRaiseForever(b) ==
    /\ Go(b, "sleeping")
    /\ attempt' = [attempt EXCEPT ![b] = Least(attempt[b] + 1, MaxRetries)]

\* The back-off after an error worth a retry, unless it was the last attempt.
RetryOrRaise(b) ==
    IF attempt[b] >= MaxRetries
    THEN Go(b, "raised") /\ UNCHANGED attempt
    ELSE Go(b, "sleeping") /\ attempt' = [attempt EXCEPT ![b] = @ + 1]

Succeed(b) ==
    /\ phase[b] = "calling"
    /\ ReleaseSuccess
    /\ Go(b, "returned")
    /\ UNCHANGED attempt

\* A busy provider, a client error or a timeout.
AnswerBusy(b) ==
    /\ phase[b] = "calling"
    /\ ReleaseBusy
    /\ RetryOrRaise(b)

\* A retryable error that does not say busy (Ollama answering 5xx).
AnswerHiccup(b) ==
    /\ phase[b] = "calling"
    /\ ReleaseError
    /\ RetryOrRaise(b)

\* An error not worth a retry.
AnswerRefused(b) ==
    /\ phase[b] = "calling"
    /\ ReleaseError
    /\ Go(b, "raised")
    /\ UNCHANGED attempt

\* An exception of another type, such as a JSON body that is not JSON: it leaves
\* the loop past both except clauses, and the slot stays taken.
AnswerUncaught(b) ==
    /\ Cardinality(In("crashed")) < MaxUncaught
    /\ phase[b] = "calling"
    /\ Go(b, "crashed")
    /\ UNCHANGED <<gate, attempt, earned>>

\* The back-off is over.
Wake(b) ==
    /\ phase[b] = "sleeping"
    /\ Go(b, "waiting")
    /\ UNCHANGED <<gate, attempt, earned>>

Answer(b) ==
    \/ Succeed(b)
    \/ AnswerBusy(b)
    \/ AnswerHiccup(b)
    \/ AnswerRefused(b)
    \/ AnswerUncaught(b)

Next == \E b \in Batch : Acquire(b) \/ Answer(b) \/ Wake(b)

Spec == Init /\ [][Next]_vars

\* Every call is answered or times out, every sleep ends, and a coroutine whose
\* condition holds is resumed by release, which notifies all.
FairSpec ==
    /\ Spec
    /\ \A b \in Batch : WF_vars(Acquire(b)) /\ WF_vars(Answer(b)) /\ WF_vars(Wake(b))

(***************************************************************************)
(* Properties                                                              *)
(***************************************************************************)

\* Every variable holds a value of its kind; the limit stays between the two
\* bounds the constructor sets, a batch tries at most max_retries + 1 times.
TypeOK ==
    /\ limit \in MinLimit .. MaxLimit
    /\ inFlight \in 0 .. MaxLimit
    /\ streak \in 0 .. RecoverEvery
    /\ phase \in [Batch -> Phase]
    /\ attempt \in [Batch -> 0 .. MaxRetries]
    /\ earned \in 0 .. RecoverEvery

\* The counter of the gate is the number of calls under way and of slots lost to
\* uncaught exceptions: no path through the retry loop frees a slot twice or,
\* those exceptions apart, never; so the provider never sees more than max_limit.
SlotsAreCalls ==
    /\ inFlight = Cardinality(In("calling")) + Cardinality(In("crashed"))
    /\ Cardinality(In("calling")) <= MaxLimit

\* A limit that was lowered rises only after recover_every successes since the
\* last busy answer or raise, whichever calls those successes came from.
RaisesAreEarned ==
    [][limit' > limit => limit' = limit + 1 /\ More(earned) = RecoverEvery]_vars

\* Why RaisesAreEarned holds.
StreakInv == streak <= earned

\* A batch does not stay at the gate: it returns or raises, however far the limit
\* was lowered and however many others compete for the slots, as long as uncaught
\* exceptions have lost fewer slots than min_limit.
EveryBatchEnds ==
    \A b \in Batch : <>(\/ phase[b] \in {"returned", "raised", "crashed"}
                        \/ Cardinality(In("crashed")) >= MinLimit)

(***************************************************************************)
(* A claim of the repository that the code does not keep                    *)
(***************************************************************************)

\* "Always free the slot": a batch that is not calling holds no slot.
SlotAlwaysFreed == inFlight = Cardinality(In("calling"))
===============================================================================
