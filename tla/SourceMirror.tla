----------------------------- MODULE SourceMirror -----------------------------
(***************************************************************************)
(* The backend between a data source and the ML service: the status of each *)
(* source, the records in Postgres, the background tasks that stream them,  *)
(* and log_assignments, the mirror of what ML decided about each record.    *)
(*                                                                          *)
(* Five kinds of process write the mirror or a status, each with awaits in  *)
(* between: the stream of an upload or a resume, the seed of the preloaded  *)
(* datasets, a live request, the polls of GET /ingest/status, and           *)
(* finalize_recompute.  A sync fetches the assignments from ML and upserts  *)
(* them later, so another sync may come in between.  The ML service is      *)
(* reduced to what these processes see of it.                               *)
(***************************************************************************)
EXTENDS Naturals, FiniteSets

CONSTANTS Upload,       \* the sources that come as a file
          Preloaded,    \* those of them that are seeded when the backend starts
          Live,         \* the sources fed by POST /logs
          Record,       \* the records
          Owner,        \* the source of each record
          Stream,       \* the background tasks of POST /ingest and resume
          Poller,       \* the polls of open pages, one for a page and a source
          Polled,       \* the source a poll looks at
          Job,          \* the recompute jobs
          Absent,       \* no assignment
          Online,       \* an assignment by the streaming path of ML
          MaxSources,   \* bound on the sources that come into being
          MaxFaults     \* bound on failing calls and restarts of the backend

Source == Upload \cup Live

RecordsOf(s) == {r \in Record : Owner[r] = s}

LiveRecord == {r \in Record : Owner[r] \in Live}

\* What an assignment says: who decided it.
Version == {Online} \cup Job

\* What runs stream_source_logs: a background task, or the seed, which is named by
\* the preloaded source it has come to.
Task == Stream \cup Preloaded

\* A live request carries one record and is named by it, the finalizer of a job
\* by the job.
Process == Task \cup LiveRecord \cup Poller \cup Job

ASSUME MirrorAssumption ==
    /\ Owner \in [Record -> Source]
    /\ Polled \in [Poller -> Source]
    /\ IsFiniteSet(Record)
    /\ Upload \cap Live = {}
    /\ Preloaded \subseteq Upload
    /\ \A s \in Preloaded : RecordsOf(s) # {}
    /\ Absent \notin Version /\ Online \notin Job
    /\ Stream \cap (Record \cup Source \cup Job \cup Poller) = {}
    /\ Record \cap (Source \cup Job \cup Poller) = {}
    /\ Source \cap (Job \cup Poller) = {}
    /\ Job \cap Poller = {}
    /\ {MaxSources, MaxFaults} \subseteq Nat

VARIABLES
    records,   \* dataset_records
    status,    \* ingestion_sources.status
    mirror,    \* log_assignments
    sent,      \* ML: the records PUT /logs has accepted
    ml,        \* ML: its assignments
    job,       \* ML: the state of each recompute job
    jobRows,   \* ML: the rows a job works on
    pc,        \* where each process is
    target,    \* the source a task works for
    left,      \* the records a task has not sent yet
    copy,      \* the assignments a sync has fetched and not yet written
    faults,
    restarted  \* history: the backend was restarted

backend == <<records, status, mirror>>
service == <<sent, ml, job, jobRows>>
local   == <<pc, target, left, copy>>
bounds  == <<faults, restarted>>
vars    == <<backend, service, local, bounds>>

Nothing == [r \in Record |-> Absent]

Assigned(m, s) == {r \in RecordsOf(s) : m[r] # Absent}

Go(p, l) == pc' = [pc EXCEPT ![p] = l]

MayCreate == Cardinality({s \in Source : status[s] # "none"}) < MaxSources

Count == faults < MaxFaults /\ faults' = faults + 1

Fault == Count /\ UNCHANGED restarted

Init ==
    /\ records = {}
    /\ status = [s \in Source |-> "none"]
    /\ mirror = Nothing
    /\ sent = {}
    /\ ml = Nothing
    /\ job = [j \in Job |-> "none"]
    /\ jobRows = [j \in Job |-> {}]
    /\ pc = [p \in Process |-> "idle"]
    /\ target = [t \in Task |-> Absent]
    /\ left = [t \in Task |-> {}]
    /\ copy = [p \in Process |-> Nothing]
    /\ faults = 0
    /\ restarted = FALSE

(***************************************************************************)
(* The ML service, as its callers see it                                   *)
(***************************************************************************)
Classify(r) ==
    /\ r \in sent
    /\ ml[r] = Absent
    /\ ml' = [ml EXCEPT ![r] = Online]
    /\ UNCHANGED <<backend, sent, job, jobRows, local, bounds>>

CompleteJob(j) ==
    /\ job[j] = "running"
    /\ job' = [job EXCEPT ![j] = "completed"]
    /\ ml' = [r \in Record |-> IF r \in jobRows[j] THEN j ELSE ml[r]]
    /\ jobRows' = [jobRows EXCEPT ![j] = {}]
    /\ UNCHANGED <<backend, sent, local, bounds>>

JobFails(j) ==
    /\ job[j] = "running"
    /\ Fault
    /\ job' = [job EXCEPT ![j] = "failed"]
    /\ jobRows' = [jobRows EXCEPT ![j] = {}]
    /\ UNCHANGED <<backend, sent, ml, local>>

(***************************************************************************)
(* stream_source_logs                                                      *)
(***************************************************************************)
StartStream(t, s, S) ==
    /\ pc[t] = "idle"
    /\ Go(t, IF S = {} THEN "waiting" ELSE "sending")
    /\ target' = [target EXCEPT ![t] = s]
    /\ left' = [left EXCEPT ![t] = S]
    /\ UNCHANGED copy

\* Nothing of a finished stream is used again.
EndStream(t) ==
    /\ Go(t, "done")
    /\ target' = [target EXCEPT ![t] = Absent]
    /\ left' = [left EXCEPT ![t] = {}]

\* _persist_dataset: the source, as ingesting, and its records in one commit.
Persist(s) ==
    /\ MayCreate
    /\ status[s] = "none"
    /\ records' = records \cup RecordsOf(s)
    /\ status' = [status EXCEPT ![s] = "ingesting"]

\* POST /ingest: the commit, then the background task with nothing in between.
Ingest(t, s) ==
    /\ s \notin Preloaded
    /\ Persist(s)
    /\ StartStream(t, s, RecordsOf(s))
    /\ UNCHANGED <<mirror, service, bounds>>

\* POST /sources/{id}/resume: everything stored is streamed again.
Resume(t, s) ==
    /\ status[s] # "none"
    /\ status' = IF status[s] = "failed" THEN [status EXCEPT ![s] = "ingesting"] ELSE status
    /\ StartStream(t, s, RecordsOf(s) \cap records)
    /\ UNCHANGED <<records, mirror, service, bounds>>

\* ensure_preloaded, one source after the other: what is there already stays as it is.
SeedCommit(s) ==
    /\ pc[s] = "idle"
    /\ \A q \in Preloaded : pc[q] \in {"idle", "done"}
    /\ IF status[s] = "none" THEN Persist(s) ELSE UNCHANGED <<records, status>>
    /\ target' = [target EXCEPT ![s] = s]
    /\ Go(s, "checking")
    /\ UNCHANGED <<mirror, service, left, copy, bounds>>

\* ML counts fewer assignments than records: all of them are streamed.
SeedStream(s) ==
    /\ pc[s] = "checking"
    /\ Cardinality(Assigned(ml, s)) < Cardinality(RecordsOf(s))
    /\ left' = [left EXCEPT ![s] = RecordsOf(s)]
    /\ Go(s, "sending")
    /\ UNCHANGED <<backend, service, target, copy, bounds>>

\* ML has them all: the mirror is brought up to date, the status is not.
SeedSync(s) ==
    /\ pc[s] = "checking"
    /\ Cardinality(Assigned(ml, s)) >= Cardinality(RecordsOf(s))
    /\ Go(s, "syncing")
    /\ UNCHANGED <<backend, service, target, left, copy, bounds>>

\* get_assignment_count raises and the seed is given up until the next start.  Sources
\* it has not come to are left alone then; here the seed may also go on to them.
SeedFails(s) ==
    /\ pc[s] = "checking"
    /\ Fault
    /\ EndStream(s)
    /\ UNCHANGED <<backend, service, copy>>

\* One PUT of stream_logs is answered; after the last one the wait begins.
SendBatch(t) ==
    /\ pc[t] = "sending"
    /\ \E B \in SUBSET left[t] \ {{}} :
          /\ sent' = sent \cup B
          /\ left' = [left EXCEPT ![t] = @ \ B]
          /\ Go(t, IF B = left[t] THEN "waiting" ELSE "sending")
    /\ UNCHANGED <<backend, ml, job, jobRows, target, copy, bounds>>

\* Mistaken form: a failed PUT is treated like a long wait.
SendFailsSoftly(t) ==
    /\ pc[t] = "sending"
    /\ Fault
    /\ \E B \in SUBSET left[t] : sent' = sent \cup B
    /\ status' = [status EXCEPT ![target[t]] = "classified"]
    /\ EndStream(t)
    /\ UNCHANGED <<records, mirror, ml, job, jobRows, copy>>

\* A PUT fails, with or without ML having taken the batch.
SendFails(t) ==
    /\ pc[t] = "sending"
    /\ Fault
    /\ \E B \in SUBSET left[t] : sent' = sent \cup B
    /\ status' = [status EXCEPT ![target[t]] = "failed"]
    /\ EndStream(t)
    /\ UNCHANGED <<records, mirror, ml, job, jobRows, copy>>

\* Mistaken form: the wait has no deadline.
EndWaitClassified(t) ==
    /\ pc[t] = "waiting"
    /\ RecordsOf(target[t]) \cap records \subseteq Assigned(ml, target[t])
    /\ status' = [status EXCEPT ![target[t]] = "classified"]
    /\ Go(t, "syncing")
    /\ UNCHANGED <<records, mirror, service, target, left, copy, bounds>>

\* wait_for_assignment_count returns, fails or times out, and the source counts
\* as classified either way.
EndWait(t) ==
    /\ pc[t] = "waiting"
    /\ status' = [status EXCEPT ![target[t]] = "classified"]
    /\ Go(t, "syncing")
    /\ UNCHANGED <<records, mirror, service, target, left, copy, bounds>>

(***************************************************************************)
(* ingest_live: the record is committed, then sent while the client waits   *)
(***************************************************************************)

\* Mistaken form: the record is sent before it is committed.
AddLiveSent(r) ==
    /\ pc[r] = "idle"
    /\ sent' = sent \cup {r}
    /\ Go(r, "sending")
    /\ UNCHANGED <<backend, ml, job, jobRows, target, left, copy, bounds>>

AddLive(r) ==
    /\ status[Owner[r]] = "none" => MayCreate
    /\ pc[r] = "idle"
    /\ records' = records \cup {r}
    /\ status' = IF status[Owner[r]] = "none"
                 THEN [status EXCEPT ![Owner[r]] = "classified"] ELSE status
    /\ Go(r, "sending")
    /\ UNCHANGED <<mirror, service, target, left, copy, bounds>>

SendLive(r) ==
    /\ pc[r] = "sending"
    /\ sent' = sent \cup {r}
    /\ Go(r, "done")
    /\ UNCHANGED <<backend, ml, job, jobRows, target, left, copy, bounds>>

\* The PUT fails, with or without ML having taken the record.
SendLiveFails(r) ==
    /\ pc[r] = "sending"
    /\ Fault
    /\ sent' \in {sent, sent \cup {r}}
    /\ Go(r, "done")
    /\ UNCHANGED <<backend, ml, job, jobRows, target, left, copy>>

(***************************************************************************)
(* processing_status: one source of the poll of one page's banner           *)
(***************************************************************************)

\* Mistaken form: a source is polled until it is classified.
PollIngesting(q) ==
    /\ pc[q] = "idle"
    /\ status[Polled[q]] = "ingesting"
    /\ Cardinality(Assigned(ml, Polled[q])) > Cardinality(Assigned(mirror, Polled[q]))
    /\ Go(q, "syncing")
    /\ UNCHANGED <<backend, service, target, left, copy, bounds>>

\* A source that is not recomputed and that ML has classified further than the
\* mirror is synced; any other source is left alone.
Poll(q) ==
    /\ pc[q] = "idle"
    /\ status[Polled[q]] \notin {"none", "recomputed"}
    /\ Cardinality(Assigned(ml, Polled[q])) > Cardinality(Assigned(mirror, Polled[q]))
    /\ Go(q, "syncing")
    /\ UNCHANGED <<backend, service, target, left, copy, bounds>>

(***************************************************************************)
(* RecomputeService.trigger and finalize_recompute                         *)
(***************************************************************************)
Trigger(j) ==
    /\ job[j] = "none"
    /\ job' = [job EXCEPT ![j] = "running"]
    /\ jobRows' = [jobRows EXCEPT ![j] = {r \in Record : ml[r] # Absent}]
    /\ Go(j, "polling")
    /\ UNCHANGED <<backend, sent, ml, target, left, copy, bounds>>

\* The job is over: completed is synced, failed is given up.
SeeJobEnd(j) ==
    /\ pc[j] = "polling"
    /\ job[j] \in {"completed", "failed"}
    /\ Go(j, IF job[j] = "completed" THEN "syncing" ELSE "done")
    /\ UNCHANGED <<backend, service, target, left, copy, bounds>>

\* One failing poll, or the deadline, ends the finalizer.
GiveUp(j) ==
    /\ pc[j] = "polling"
    /\ Fault
    /\ Go(j, "done")
    /\ UNCHANGED <<backend, service, target, left, copy>>

\* Mistaken form: failed sources are marked like the others.
MarkRecomputedAll(j) ==
    /\ pc[j] = "marking"
    /\ status' = [s \in Source |-> IF status[s] = "none" THEN status[s] ELSE "recomputed"]
    /\ Go(j, "done")
    /\ UNCHANGED <<records, mirror, service, target, left, copy, bounds>>

\* Every source that has not failed counts as recomputed, whatever it was.
MarkRecomputed(j) ==
    /\ pc[j] = "marking"
    /\ status' = [s \in Source |-> IF status[s] \in {"none", "failed"} THEN status[s]
                                   ELSE "recomputed"]
    /\ Go(j, "done")
    /\ UNCHANGED <<records, mirror, service, target, left, copy, bounds>>

(***************************************************************************)
(* sync_assignments: fetch from ML, upsert later                            *)
(***************************************************************************)

\* The records a process syncs: those of its source, or all.
Scope(p) ==
    CASE p \in Task   -> RecordsOf(target[p])
      [] p \in Poller -> RecordsOf(Polled[p])
      [] OTHER        -> Record

AfterSync(p) ==
    IF p \in Poller THEN "idle" ELSE IF p \in Job THEN "marking" ELSE "done"

Fetch(p) ==
    /\ pc[p] = "syncing"
    /\ copy' = [copy EXCEPT ![p] = [r \in Record |-> IF r \in Scope(p) THEN ml[r] ELSE Absent]]
    /\ Go(p, "writing")
    /\ UNCHANGED <<backend, service, target, left, bounds>>

\* The fetch raises: logged by a stream and a poll, the end of a finalizer and a seed.
FetchFails(p) ==
    /\ pc[p] = "syncing"
    /\ Fault
    /\ target' = [t \in Task |-> IF t = p THEN Absent ELSE target[t]]
    /\ Go(p, IF p \in Poller THEN "idle" ELSE "done")
    /\ UNCHANGED <<backend, service, left, copy>>

\* INSERT ... ON CONFLICT DO UPDATE of every fetched assignment, and commit.
Write(p) ==
    /\ pc[p] = "writing"
    /\ mirror' = [r \in Record |-> IF copy[p][r] # Absent THEN copy[p][r] ELSE mirror[r]]
    /\ copy' = [copy EXCEPT ![p] = Nothing]
    /\ target' = [t \in Task |-> IF t = p THEN Absent ELSE target[t]]
    /\ Go(p, AfterSync(p))
    /\ UNCHANGED <<records, status, service, left, bounds>>

(***************************************************************************)
(* A restart ends every task and request; Postgres and ML go on, pages poll *)
(* again and the seed runs anew.                                            *)
(***************************************************************************)
Restart ==
    /\ Count
    /\ restarted' = TRUE
    /\ pc' = [p \in Process |-> IF p \in Poller \cup Preloaded \/ pc[p] = "idle" THEN "idle" ELSE "done"]
    /\ left' = [t \in Task |-> {}]
    /\ copy' = [p \in Process |-> Nothing]
    /\ target' = [t \in Task |-> Absent]
    /\ UNCHANGED <<backend, service>>

SeedStep(s) == SeedStream(s) \/ SeedSync(s) \/ SeedFails(s)

StreamStep(t) == SendBatch(t) \/ SendFails(t) \/ EndWait(t)

SyncStep(p) == Fetch(p) \/ FetchFails(p) \/ Write(p)

FinalStep(j) == SeeJobEnd(j) \/ GiveUp(j) \/ MarkRecomputed(j)

Next ==
    \/ \E r \in Record : Classify(r)
    \/ \E j \in Job : CompleteJob(j) \/ JobFails(j) \/ Trigger(j) \/ FinalStep(j)
    \/ \E t \in Stream : \/ \E s \in Upload : Ingest(t, s)
                         \/ \E s \in Source : Resume(t, s)
    \/ \E s \in Preloaded : SeedCommit(s) \/ SeedStep(s)
    \/ \E t \in Task : StreamStep(t)
    \/ \E r \in LiveRecord : AddLive(r) \/ SendLive(r) \/ SendLiveFails(r)
    \/ \E q \in Poller : Poll(q)
    \/ \E p \in Process : SyncStep(p)
    \/ Restart

Spec == Init /\ [][Next]_vars

\* Background tasks run on and their calls return (httpx and the waits have time
\* limits), and the banner of an open page polls for ever.
FairSpec ==
    /\ Spec
    /\ \A t \in Task : WF_vars(StreamStep(t) \/ SyncStep(t))
    /\ \A q \in Poller : WF_vars(Poll(q) \/ SyncStep(q))
    /\ \A j \in Job : WF_vars(SyncStep(j))

(***************************************************************************)
(* Properties                                                              *)
(***************************************************************************)
SourceStatus == {"none", "ingesting", "classified", "failed", "recomputed"}

Step == {"idle", "checking", "sending", "waiting", "polling", "syncing", "writing", "marking", "done"}

Assignments == [Record -> Version \cup {Absent}]

\* Every variable holds a value of its kind, and ML is only sent what Postgres has.
TypeOK ==
    /\ records \subseteq Record
    /\ status \in [Source -> SourceStatus]
    /\ mirror \in Assignments
    /\ sent \subseteq records
    /\ ml \in Assignments
    /\ job \in [Job -> {"none", "running", "completed", "failed"}]
    /\ jobRows \in [Job -> SUBSET Record]
    /\ pc \in [Process -> Step]
    /\ target \in [Task -> Source \cup {Absent}]
    /\ left \in [Task -> SUBSET records]
    /\ copy \in [Process -> Assignments]
    /\ faults \in Nat
    /\ restarted \in BOOLEAN

\* The join behind /logs and ROI finds both sides: a mirrored assignment belongs
\* to a record in Postgres and to an assignment ML has, whichever sync wrote it.
MirrorJoins ==
    \A r \in Record : mirror[r] # Absent => r \in records /\ ml[r] # Absent

\* A source shown as classified has handed every record to ML, through failures,
\* resumes that overlap, and restarts.
ClassifiedWasSent ==
    \A s \in Upload : status[s] = "classified" => RecordsOf(s) \subseteq sent

\* A failed source stays failed until it is streamed again: a recompute does not
\* hide that its records never arrived.
FailedUntilResumed ==
    [][\A s \in Source :
           status[s] = "failed" /\ status'[s] # "failed"
               => \E t \in Task : target'[t] = s /\ pc[t] # "done"]_vars

\* What ML classified shows up in the mirror, however late and after whatever
\* wait timed out, unless the source counts as recomputed: again and again the
\* mirror lags in nothing.
ClassifiedGetsMirrored ==
    []<>(\A r \in Record :
             ml[r] # Absent => mirror[r] # Absent \/ status[Owner[r]] = "recomputed")

\* A stream that is not cut off by a restart takes its source out of ingesting.
StreamsSettle ==
    \A s \in Upload :
        (\E t \in Task : pc[t] = "sending" /\ target[t] = s) ~> restarted \/ status[s] # "ingesting"

(***************************************************************************)
(* A claim of the repository that the code does not keep                    *)
(***************************************************************************)

\* Each poll "до-зеркалирует" the assignments of the sources ML has classified
\* beyond the mirror, "without a manual recompute": every assignment shows up.
MirrorCatchesUp == \A r \in Record : ml[r] # Absent ~> mirror[r] # Absent
===============================================================================
