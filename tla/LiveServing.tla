----------------------------- MODULE LiveServing -----------------------------
(* The backend while prompts keep arriving: requests to the live endpoint     *)
(* (ingestion/service.py ingest_live), the progress shown of their sources,   *)
(* dashboard requests through the statistics cache (dashboard/cache.py) and a *)
(* sync that reads ML's assignments page by page (ml/client.py). All of them  *)
(* run on one event loop and give way at every await; a step here is what     *)
(* happens between two awaits. The other end is the ML service, or the mock   *)
(* of it (tools/mock_ml/main.py) that a development setup runs instead. What  *)
(* a sync then writes to the mirror is SourceMirror's subject.                *)
EXTENDS Integers, FiniteSets

CONSTANTS Requests,         \* live requests
          Batch,            \* Batch[r]: the ids of the request's records, naturals
          Old, OldRecords,  \* a live source from before, and the ids of its records
          Stamp,            \* Stamp[i]: the timestamp of record i
          Views,            \* dashboard requests that may be under way at once
          Page,             \* assignments in a page
          Ttl,              \* STATISTICS_CACHE_TTL_SEC in ticks
          Timeout,          \* ticks ML has to answer a statistics request
          Nothing

Sources == Requests \cup {Old}      \* a source is named after the request that creates it
Records == OldRecords \cup UNION {Batch[r] : r \in Requests}

ASSUME ServingAssumption ==
    /\ Page \in Nat \ {0} /\ Ttl \in Nat /\ Timeout \in Nat
    /\ Old \notin Requests
    /\ Stamp \in [Records -> Int]
    /\ OldRecords \in SUBSET Nat /\ IsFiniteSet(OldRecords)
    /\ Batch \in [Requests -> SUBSET Nat]
    /\ \A r \in Requests : IsFiniteSet(Batch[r]) /\ Batch[r] \cap OldRecords = {}
    /\ \A r, q \in Requests : r # q => Batch[r] \cap Batch[q] = {}

VARIABLES service,          \* "ml" or "mock"
          valid,            \* records_valid of the sources in the database
          stored,           \* dataset_records: id -> source
          req,              \* req[r]: [phase, source, read]
          overlap,          \* history: two requests had the counters read at once
          accepted,         \* ids ML has queued
          classified,       \* ids ML has classified
          pager,            \* the sync under way: [phase, offset, items, start]
          cache,            \* Nothing or [left, age, seen, caught]
          view,             \* view[v]: [phase, waited, age, seen, caught]
          dropped           \* history: what ML had when the cache was last dropped

database == <<valid, stored, req, overlap>>
ml == <<accepted, classified>>
statistics == <<cache, view, dropped>>
vars == <<service, database, ml, pager, statistics>>

Idle == [phase |-> "idle", source |-> Nothing, read |-> 0]
NotPaging == [phase |-> "idle", offset |-> 0, items |-> {}, start |-> {}]
NotAsking == [phase |-> "idle", waited |-> 0, age |-> 0, seen |-> {}, caught |-> FALSE]

\* A live source may be there from before, its records sent and classified or not.
Init ==
    /\ service \in {"ml", "mock"}
    /\ \/ valid = [s \in {} |-> 0] /\ stored = [i \in {} |-> Old] /\ accepted = {} /\ classified = {}
       \/ /\ valid = [s \in {Old} |-> Cardinality(OldRecords)]
          /\ stored = [i \in OldRecords |-> Old]
          /\ accepted = IF service = "ml" THEN OldRecords ELSE {}
          /\ classified = OldRecords \/ (service = "ml" /\ classified = {})
    /\ req = [r \in Requests |-> Idle]
    /\ overlap = FALSE
    /\ pager = NotPaging
    /\ cache = Nothing
    /\ view = [v \in Views |-> NotAsking]
    /\ dropped = {}

With(f, keys, value) == [k \in DOMAIN f \cup keys |-> IF k \in keys THEN value ELSE f[k]]

(* Live requests.                                                              *)
\* _get_or_create_live_source(): one of the sources that are committed, with its counter
\* as it stands, or a new one that only this transaction sees.
LookUp(r) ==
    /\ req[r].phase = "idle"
    /\ \/ /\ DOMAIN valid = {}
          /\ req' = [req EXCEPT ![r] = [phase |-> "looked", source |-> r, read |-> 0]]
       \/ \E s \in DOMAIN valid :
             req' = [req EXCEPT ![r] = [phase |-> "looked", source |-> s, read |-> valid[s]]]
    /\ overlap' = (overlap \/ \E q \in Requests : req[q].phase = "looked")
    /\ UNCHANGED <<service, valid, stored, ml, pager, statistics>>

\* Mistaken form: the counter starts again with every request.
CommitAfresh(r) ==
    /\ req[r].phase = "looked"
    /\ stored' = With(stored, Batch[r], req[r].source)
    /\ valid' = With(valid, {req[r].source}, Cardinality(Batch[r]))
    /\ req' = [req EXCEPT ![r].phase = "stored"]
    /\ UNCHANGED <<service, overlap, ml, pager, statistics>>

\* The commit writes the sum of what was read and the request's records.
Commit(r) ==
    /\ req[r].phase = "looked"
    /\ stored' = With(stored, Batch[r], req[r].source)
    /\ valid' = With(valid, {req[r].source}, req[r].read + Cardinality(Batch[r]))
    /\ req' = [req EXCEPT ![r].phase = "stored"]
    /\ UNCHANGED <<service, overlap, ml, pager, statistics>>

\* PUT /logs: ML queues the records, the mock classifies them at once; the request
\* waits for the answer, and ends without one when ML cannot be reached or is too slow.
SendFrom(r, phases) ==
    /\ req[r].phase \in phases
    /\ req' = [req EXCEPT ![r].phase = "sent"]
    /\ IF service = "mock"
       THEN classified' = classified \cup Batch[r] /\ UNCHANGED accepted
       ELSE accepted' = accepted \cup Batch[r] /\ UNCHANGED classified
    /\ UNCHANGED <<service, valid, stored, overlap, pager, statistics>>
\* Mistaken form: the records go to ML without waiting for the commit.
SendUncommitted(r) == SendFrom(r, {"looked", "stored"})
Send(r) == SendFrom(r, {"stored"})
SendFails(r) ==
    /\ req[r].phase \in {"stored", "sent"}
    /\ req' = [req EXCEPT ![r].phase = "done"]
    /\ UNCHANGED <<service, valid, stored, overlap, ml, pager, statistics>>

\* invalidate(): the whole cache goes; requests to ML that are under way go on.
Caught == [v \in Views |-> [view[v] EXCEPT !.caught = view[v].phase # "idle"]]
\* Mistaken form: entries are left to their time to live.
InvalidateLazily ==
    /\ UNCHANGED cache
    /\ view' = Caught
    /\ dropped' = classified

Invalidate ==
    /\ cache' = Nothing
    /\ view' = Caught
    /\ dropped' = classified

Answered(r) ==
    /\ req[r].phase = "sent"
    /\ req' = [req EXCEPT ![r].phase = "done"]
    /\ Invalidate
    /\ UNCHANGED <<service, valid, stored, overlap, ml, pager>>

\* _process_one() in ML, see MlIngest.
Classify(i) ==
    /\ i \in accepted \ classified
    /\ classified' = classified \cup {i}
    /\ UNCHANGED <<service, database, accepted, pager, statistics>>

(* A sync.                                                                     *)
\* ML orders by timestamp, newest first, and request id; the mock by request id.
Before(i, j) ==
    IF service = "ml" THEN Stamp[i] > Stamp[j] \/ (Stamp[i] = Stamp[j] /\ i < j) ELSE i < j
Position(i) == Cardinality({j \in classified : Before(j, i)})
PageAt(offset) == {i \in classified : Position(i) \in offset..(offset + Page - 1)}

StartSync ==
    /\ pager.phase = "idle"
    /\ pager' = [phase |-> "paging", offset |-> 0, items |-> {}, start |-> classified]
    /\ UNCHANGED <<service, database, ml, statistics>>

\* get_assignments(): the total of the page just read decides whether it was the last.
ReadUpTo(total) ==
    /\ pager.phase = "paging"
    /\ LET items == PageAt(pager.offset)
           offset == pager.offset + Cardinality(items)
           last == items = {} \/ offset >= total
       IN  pager' = [pager EXCEPT !.offset = offset, !.items = @ \cup items,
                                  !.phase = IF last THEN "fetched" ELSE "paging"]
    /\ UNCHANGED <<service, database, ml, statistics>>
\* Mistaken form: the total is the one there was at the start.
ReadPageOldTotal == ReadUpTo(Cardinality(pager.start))
ReadPage == ReadUpTo(Cardinality(classified))

PageFails ==
    /\ pager.phase = "paging"
    /\ pager' = NotPaging
    /\ UNCHANGED <<service, database, ml, statistics>>

\* sync_assignments() ends; finalize_recompute() and stream_source_logs() drop the
\* cache after theirs, the poll of the banner does not.
EndSync ==
    /\ pager.phase = "fetched"
    /\ pager' = NotPaging
    /\ Invalidate \/ UNCHANGED statistics
    /\ UNCHANGED <<service, database, ml>>

(* Dashboard requests.                                                         *)
\* get_dashboard(): a hit answers the request and changes nothing.
Ask(v) ==
    /\ view[v].phase = "idle"
    /\ cache = Nothing
    /\ view' = [view EXCEPT ![v] = [NotAsking EXCEPT !.phase = "asking"]]
    /\ UNCHANGED <<service, database, ml, pager, cache, dropped>>

\* ML computes the statistics of what it has.
Compute(v) ==
    /\ view[v].phase = "asking"
    /\ view' = [view EXCEPT ![v].phase = "answered", ![v].seen = classified]
    /\ UNCHANGED <<service, database, ml, pager, cache, dropped>>

\* set(): the answer arrives and is kept for a full time to live.
Keep(v) ==
    /\ view[v].phase = "answered"
    /\ view' = [view EXCEPT ![v] = NotAsking]
    /\ cache' = IF Ttl = 0 THEN cache
                ELSE [left |-> Ttl, age |-> view[v].age, seen |-> view[v].seen,
                      caught |-> view[v].caught]
    /\ UNCHANGED <<service, database, ml, pager, dropped>>

AskFails(v) ==
    /\ view[v].phase # "idle"
    /\ view' = [view EXCEPT ![v] = NotAsking]
    /\ UNCHANGED <<service, database, ml, pager, cache, dropped>>

\* Time passes: an entry at its time is gone, and a request ML leaves unanswered for
\* its timeout fails before more time does.
Older(entry) == IF entry.left = 1 THEN Nothing
                ELSE [entry EXCEPT !.left = @ - 1, !.age = @ + 1]
Tick ==
    /\ \A v \in Views : view[v].phase # "idle" => view[v].waited < Timeout
    /\ cache # Nothing \/ \E v \in Views : view[v].phase # "idle"
    /\ cache' = IF cache = Nothing THEN cache ELSE Older(cache)
    /\ view' = [v \in Views |->
                  IF view[v].phase = "idle" THEN view[v]
                  ELSE [view[v] EXCEPT !.waited = @ + 1,
                                       !.age = IF view[v].phase = "answered" THEN @ + 1 ELSE @]]
    /\ UNCHANGED <<service, database, ml, pager, dropped>>

Next ==
    \/ \E r \in Requests : LookUp(r) \/ Commit(r) \/ Send(r) \/ SendFails(r) \/ Answered(r)
    \/ \E i \in Records : Classify(i)
    \/ StartSync \/ ReadPage \/ PageFails \/ EndSync
    \/ \E v \in Views : Ask(v) \/ Compute(v) \/ Keep(v) \/ AskFails(v)
    \/ Tick

Spec == Init /\ [][Next]_vars

------------------------------------------------------------------------------
\* What the variables hold. ML has only records whose source and counter the backend has
\* committed (ingest_live commits before it streams).
TypeOK ==
    /\ service \in {"ml", "mock"}
    /\ valid \in [DOMAIN valid -> Nat] /\ DOMAIN valid \subseteq Sources
    /\ stored \in [DOMAIN stored -> DOMAIN valid] /\ DOMAIN stored \subseteq Records
    /\ req \in [Requests -> [phase : {"idle", "looked", "stored", "sent", "done"},
                             source : Sources \cup {Nothing}, read : Nat]]
    /\ overlap \in BOOLEAN
    /\ accepted \cup classified \subseteq DOMAIN stored
    /\ pager \in [phase : {"idle", "paging", "fetched"}, offset : Nat,
                  items : SUBSET classified, start : SUBSET classified]
    /\ dropped \subseteq classified
    /\ view \in [Views -> [phase : {"idle", "asking", "answered"}, waited : 0..Timeout, age : 0..Timeout,
                          seen : SUBSET classified, caught : BOOLEAN]]
    /\ cache # Nothing => cache \in [left : 1..Ttl, age : Nat, seen : SUBSET classified, caught : BOOLEAN]

\* Pages are read while ML goes on inserting rows anywhere in the order: a row can come
\* twice, but none that was there at the start is left out (get_assignments over the
\* ORDER BY of list_assignments).
NoRowSkipped == pager.phase = "fetched" => pager.start \subseteq pager.items

\* Of two requests that read a source's counter at once one count is lost; then the
\* banner may show the source as done too early, but never as waiting for records it
\* does not have. As long as no two did, the counter is the number of records, and a
\* source shown as done is classified to the last record (processing_status).
Own(s) == {i \in DOMAIN stored : stored[i] = s}
Done(s) == valid[s] > 0 /\ Cardinality(Own(s) \cap classified) >= valid[s]
ProgressHonest ==
    \A s \in DOMAIN valid :
        /\ valid[s] <= Cardinality(Own(s))
        /\ ~overlap => /\ valid[s] = Cardinality(Own(s))
                       /\ Done(s) => Own(s) \subseteq classified

\* What the cache serves was computed less than a time to live and a timeout ago; and
\* unless its request was under way when the cache was last dropped, it holds all that
\* ML had at that moment (cache.py: "Invalidated explicitly on recompute / new
\* ingestion, and expires by TTL").
CacheFollows ==
    cache # Nothing => /\ cache.age < Ttl + Timeout
                       /\ ~cache.caught => dropped \subseteq cache.seen
==============================================================================
