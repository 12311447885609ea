------------------------------- MODULE MlIngest -------------------------------
(***************************************************************************)
(* The write path of the ML service: PUT /api/v1/logs hands a batch to an   *)
(* in-memory queue, one dispatcher task takes the batches one at a time and *)
(* runs their items side by side under a semaphore, and each item is        *)
(* embedded (the only suspension), then written to the SQLite meta store,   *)
(* to Qdrant and to the ingest counters, three writes without a common      *)
(* transaction.                                                             *)
(*                                                                          *)
(* Everything between two awaits of the event loop is one action.  A PUT is *)
(* atomic because IngestQueue is unbounded: put never suspends.  What an    *)
(* item writes after its embedding is atomic for the loop but not for a     *)
(* failure, so the prefixes of it that survive one are actions too.         *)
(***************************************************************************)
EXTENDS Naturals, Sequences, FiniteSets

CONSTANTS Request,      \* the request ids clients send
          Content,      \* what a log says: all that differs between two logs of one id
          None,         \* no id, no usable content, or no stored row
          Batches,      \* the batches clients send
          Concurrency,  \* ingest.worker_concurrency
          BatchMax,     \* ingest.batch_max_size, 0 for no limit
          MaxPuts,      \* bound on the number of PUT calls
          MaxRestarts   \* bound on the number of restarts

\* An item as sent.  Content None stands for a blank query or a timestamp
\* that does not parse, id None for an empty request_id.
Item == [rid : Request \cup {None}, content : Content \cup {None}]

\* An item that passed put_logs.
Log == [rid : Request, content : Content]

ASSUME IngestAssumption ==
    /\ None \notin Request
    /\ None \notin Content
    /\ Batches \subseteq Seq(Item)
    /\ Concurrency \in Nat \ {0}
    /\ BatchMax \in Nat
    /\ MaxPuts \in Nat
    /\ MaxRestarts \in Nat

VARIABLES
    meta,       \* the assignments table: the content stored for an id, or None
    vectors,    \* the ids with a point in Qdrant
    counts,     \* the ingest_log counters
    queue,      \* IngestQueue: the accepted batches, each a set of logs
    batch,      \* the logs of the current batch that have not passed the semaphore
    embedding,  \* the logs that hold the semaphore and await their embedding
    first,      \* history: the content of the first log accepted for an id
    faulted,    \* history: the ids one of whose logs met a failure or a restart
    counted,    \* history: how often an id was counted as classified
    puts,       \* number of PUT calls
    restarts    \* number of restarts

stored   == <<meta, vectors, counts>>
volatile == <<queue, batch, embedding>>
history  == <<first, faulted, counted>>
vars     == <<stored, volatile, history, puts, restarts>>

Counters == {"accepted", "rejected", "duplicates", "classified", "assigned"}

HasAssignment(r) == meta[r] # None

\* The logs the service has accepted and not yet disposed of.
Pending == batch \cup embedding \cup UNION {queue[i] : i \in DOMAIN queue}

IsPending(r) == \E x \in Pending : x.rid = r

Rids(S) == {x.rid : x \in S}

Init ==
    /\ meta = [r \in Request |-> None]
    /\ vectors = {}
    /\ counts = [c \in Counters |-> 0]
    /\ queue = <<>>
    /\ batch = {}
    /\ embedding = {}
    /\ first = [r \in Request |-> None]
    /\ faulted = {}
    /\ counted = [r \in Request |-> 0]
    /\ puts = 0
    /\ restarts = 0

(***************************************************************************)
(* PUT /api/v1/logs                                                        *)
(***************************************************************************)

\* The part of a batch that is looked at: the rest is cut off without a trace.
Considered(b) ==
    IF BatchMax > 0 /\ Len(b) > BatchMax THEN SubSeq(b, 1, BatchMax) ELSE b

\* Mistaken form: query and timestamp are not looked at.
IsValidLoose(x) == x \in Item

IsValid(x) == x.content # None

\* The positions that survive validation and the seen_in_batch check.
Distinct(b) ==
    {i \in DOMAIN b : /\ IsValid(b[i])
                      /\ b[i].rid # None
                      /\ \A j \in 1 .. i - 1 : IsValid(b[j]) => b[j].rid # b[i].rid}

\* The positions that also pass the check against the meta store.
Accepted(b) == {i \in Distinct(b) : ~HasAssignment(b[i].rid)}

Rejected(b) == {i \in DOMAIN b : ~IsValid(b[i])}

\* Mistaken form: a bounded queue that drops what does not fit.
EnqueueBounded(q, logs) == IF logs = {} \/ Len(q) >= 1 THEN q ELSE Append(q, logs)

\* IngestQueue.enqueue: unbounded, an empty batch is not queued.
Enqueue(q, logs) == IF logs = {} THEN q ELSE Append(q, logs)

\* One call of put_logs.  The counters belong to a source: they are left alone
\* when neither the request nor any of its items names one.
PutLogs(raw) ==
    LET b        == Considered(raw)
        accepted == Accepted(b)
        logs     == {b[i] : i \in accepted}
        rejected == Rejected(b)
    IN  /\ puts < MaxPuts
        /\ \E sourced \in BOOLEAN :
              counts' = IF sourced
                        THEN [counts EXCEPT
                                !["accepted"]   = @ + Cardinality(accepted),
                                !["rejected"]   = @ + Cardinality(rejected),
                                !["duplicates"] = @ + Len(b) - Cardinality(accepted)
                                                             - Cardinality(rejected)]
                        ELSE counts
        /\ queue' = Enqueue(queue, logs)
        /\ first' = [r \in Request |->
                        IF first[r] = None /\ r \in Rids(logs)
                        THEN (CHOOSE x \in logs : x.rid = r).content
                        ELSE first[r]]
        /\ puts' = puts + 1
        /\ UNCHANGED <<meta, vectors, batch, embedding, faulted, counted, restarts>>

(***************************************************************************)
(* The worker                                                              *)
(***************************************************************************)

\* Mistaken form: the next batch starts while items of this one are embedded.
TakeBatchEarly ==
    /\ batch = {}
    /\ queue # <<>>
    /\ batch' = Head(queue)
    /\ queue' = Tail(queue)
    /\ UNCHANGED <<stored, embedding, history, puts, restarts>>

\* Mistaken form: the newest batch is served first.
TakeBatchLast ==
    /\ batch = {} /\ embedding = {}
    /\ queue # <<>>
    /\ batch' = queue[Len(queue)]
    /\ queue' = SubSeq(queue, 1, Len(queue) - 1)
    /\ UNCHANGED <<stored, embedding, history, puts, restarts>>

\* Mistaken form: the loop wakes up only when more than one batch waits.
TakeBatchPair ==
    /\ batch = {} /\ embedding = {}
    /\ Len(queue) > 1
    /\ batch' = Head(queue)
    /\ queue' = Tail(queue)
    /\ UNCHANGED <<stored, embedding, history, puts, restarts>>

\* The dispatcher takes the next batch only when gather has returned, that is
\* when every item of the previous one is done.
TakeBatch ==
    /\ batch = {} /\ embedding = {}
    /\ queue # <<>>
    /\ batch' = Head(queue)
    /\ queue' = Tail(queue)
    /\ UNCHANGED <<stored, embedding, history, puts, restarts>>

\* An item passes the semaphore and finds its id stored by an earlier batch.
SkipDuplicate(x) ==
    /\ x \in batch
    /\ Cardinality(embedding) < Concurrency
    /\ HasAssignment(x.rid)
    /\ batch' = batch \ {x}
    /\ UNCHANGED <<stored, queue, embedding, history, puts, restarts>>

\* Mistaken form: _process_one relies on the check put_logs made.
StartUnchecked(x) ==
    /\ x \in batch
    /\ Cardinality(embedding) < Concurrency
    /\ batch' = batch \ {x}
    /\ embedding' = embedding \cup {x}
    /\ UNCHANGED <<stored, queue, history, puts, restarts>>

\* An item passes the semaphore and suspends in embed_query.
StartEmbedding(x) ==
    /\ x \in batch
    /\ Cardinality(embedding) < Concurrency
    /\ ~HasAssignment(x.rid)
    /\ batch' = batch \ {x}
    /\ embedding' = embedding \cup {x}
    /\ UNCHANGED <<stored, queue, history, puts, restarts>>

\* The embedding, or a step up to the first write, raises: the worker logs the
\* exception and drops the item.
FailEmbedding(x) ==
    /\ x \in embedding
    /\ embedding' = embedding \ {x}
    /\ faulted' = faulted \cup {x.rid}
    /\ UNCHANGED <<stored, queue, batch, first, counted, puts, restarts>>

\* upsert_assignment: one commit that inserts or overwrites the row.
UpsertAssignment(x) == meta' = [meta EXCEPT ![x.rid] = x.content]

\* All three writes succeed.
FinishItem(x) ==
    /\ x \in embedding
    /\ embedding' = embedding \ {x}
    /\ UpsertAssignment(x)
    /\ vectors' = vectors \cup {x.rid}
    /\ counts' = [counts EXCEPT !["classified"] = @ + 1, !["assigned"] = @ + 1]
    /\ counted' = [counted EXCEPT ![x.rid] = @ + 1]
    /\ UNCHANGED <<queue, batch, first, faulted, puts, restarts>>

\* Mistaken form: the point is written before the row, and the row fails.
FailRow(x) ==
    /\ x \in embedding
    /\ embedding' = embedding \ {x}
    /\ vectors' = vectors \cup {x.rid}
    /\ faulted' = faulted \cup {x.rid}
    /\ UNCHANGED <<meta, counts, queue, batch, first, counted, puts, restarts>>

\* Qdrant refuses the point, or the process dies before the call: the row stays.
FailVector(x) ==
    /\ x \in embedding
    /\ embedding' = embedding \ {x}
    /\ UpsertAssignment(x)
    /\ faulted' = faulted \cup {x.rid}
    /\ UNCHANGED <<vectors, counts, queue, batch, first, counted, puts, restarts>>

\* The counter update fails, or the process dies before it: row and point stay.
FailCount(x) ==
    /\ x \in embedding
    /\ embedding' = embedding \ {x}
    /\ UpsertAssignment(x)
    /\ vectors' = vectors \cup {x.rid}
    /\ faulted' = faulted \cup {x.rid}
    /\ UNCHANGED <<counts, queue, batch, first, counted, puts, restarts>>

(***************************************************************************)
(* A crash, or a shutdown that cancels the worker: SQLite and Qdrant stay,  *)
(* whatever was queued or in flight is gone.                                *)
(***************************************************************************)
Restart ==
    /\ restarts < MaxRestarts
    /\ restarts' = restarts + 1
    /\ faulted' = faulted \cup Rids(Pending)
    /\ queue' = <<>>
    /\ batch' = {}
    /\ embedding' = {}
    /\ UNCHANGED <<stored, first, counted, puts>>

EndItem(x) == FinishItem(x) \/ FailEmbedding(x) \/ FailVector(x) \/ FailCount(x)

PassSemaphore(x) == SkipDuplicate(x) \/ StartEmbedding(x)

Next ==
    \/ \E b \in Batches : PutLogs(b)
    \/ TakeBatch
    \/ \E x \in batch : SkipDuplicate(x)
    \/ \E x \in batch : StartEmbedding(x)
    \/ \E x \in embedding : FinishItem(x)
    \/ \E x \in embedding : FailEmbedding(x)
    \/ \E x \in embedding : FailVector(x)
    \/ \E x \in embedding : FailCount(x)
    \/ Restart

Spec == Init /\ [][Next]_vars

\* The dispatcher loop never ends while the service runs, and every embedding
\* call returns: the adapter bounds attempts, back-off and request time.
Fairness ==
    /\ WF_vars(TakeBatch)
    /\ WF_vars(\E x \in batch : PassSemaphore(x))
    /\ WF_vars(\E x \in embedding : EndItem(x))

FairSpec == Spec /\ Fairness

(***************************************************************************)
(* Properties                                                              *)
(***************************************************************************)

\* Every variable holds a value of its kind (put_logs, IngestQueue, MetaStore).
TypeOK ==
    /\ meta \in [Request -> Content \cup {None}]
    /\ vectors \subseteq Request
    /\ counts \in [Counters -> Nat]
    /\ queue \in Seq(SUBSET Log)
    /\ batch \subseteq Log
    /\ embedding \subseteq Log
    /\ first \in [Request -> Content \cup {None}]
    /\ faulted \subseteq Request
    /\ counted \in [Request -> Nat]
    /\ puts \in Nat
    /\ restarts \in Nat

\* A request is counted as classified at most once, however often it is sent,
\* queued, half written or cut off by a restart: the check of has_assignment in
\* _process_one happens before an await and is used after it, and only the
\* one-batch-at-a-time dispatcher and seen_in_batch keep it valid.
CountedOnce == \A r \in Request : counted[r] <= 1

\* A stored assignment is never rewritten by a later log of the same id, even
\* one accepted while the first was still queued (upsert_assignment overwrites).
FirstWriteWins ==
    [][\A r \in Request : meta[r] # None => meta'[r] = meta[r]]_meta

\* Batches are served in the order they were accepted: unless a failure or a
\* restart hit the id, the row holds the first accepted log of that id.
FirstAcceptedWins ==
    \A r \in Request \ faulted : meta[r] # None => meta[r] = first[r]

\* A log answered 202 is queued, in flight or stored, or a failure or a restart
\* hit it: the worker, the queue and the duplicate checks lose nothing else.
NoSilentLoss ==
    \A r \in Request : first[r] # None => HasAssignment(r) \/ IsPending(r) \/ r \in faulted

\* Qdrant never holds a point without a row, and a row without a point is the
\* trace of a failure between the two writes of _process_one.
VectorsFollowRows ==
    \A r \in Request : /\ r \in vectors => HasAssignment(r)
                       /\ HasAssignment(r) /\ r \notin vectors => r \in faulted

\* Every accepted log leaves the queue and the worker: stored, dropped as a
\* duplicate or lost to a failure, never stuck.
EveryLogSettles == \A r \in Request : IsPending(r) ~> ~IsPending(r)

\* No two logs of a set carry the same id.
DistinctIds(S) == \A x, y \in S : x.rid = y.rid => x = y

\* Why CountedOnce and FirstWriteWins hold: the worker never has two logs of one
\* id under way and never embeds for an id that is stored.
OnceInv ==
    /\ DistinctIds(batch \cup embedding)
    /\ \A i \in DOMAIN queue : DistinctIds(queue[i])
    /\ \A x \in embedding : ~HasAssignment(x.rid)
    /\ \A r \in Request : counted[r] <= 1 /\ (counted[r] > 0 => HasAssignment(r))

(***************************************************************************)
(* What the write path promises to a client that knows nothing of queues,   *)
(* batches and stores.                                                      *)
(***************************************************************************)
phase ==
    [r \in Request |-> CASE HasAssignment(r)                     -> "stored"
                         [] ~HasAssignment(r) /\ IsPending(r)    -> "accepted"
                         [] ~HasAssignment(r) /\ ~IsPending(r) /\ first[r] # None -> "lost"
                         [] OTHER                                -> "unseen"]

Ledger == INSTANCE IngestLedger WITH phase <- phase, content <- meta

\* The write path implements the ledger: a request moves from unseen to accepted
\* to stored or lost, stored is final with its content, lost may be sent again.
ImplementsLedger == Ledger!Spec
===============================================================================
