------------------------- MODULE SourceMirror_proofs -------------------------
(***************************************************************************)
(* Proofs about SourceMirror for every number of sources, records, streams, *)
(* polls and jobs, however syncs overlap and calls fail.                    *)
(***************************************************************************)
EXTENDS SourceMirror, FiniteSetTheorems, TLAPS

\* What flows towards the mirror: a record is committed before it is sent, sent
\* before ML has a row for it, and in ML before a sync can carry it over.
JoinInv ==
    /\ \A r \in LiveRecord : pc[r] = "sending" => r \in records
    /\ \A r \in Record : ml[r] # Absent => r \in sent
    /\ \A r \in Record : mirror[r] # Absent => ml[r] # Absent
    /\ \A p \in Process, r \in Record : copy[p][r] # Absent => ml[r] # Absent
    /\ \A j \in Job : jobRows[j] \subseteq sent

\* What a task still has to send and what it has sent make up its source, and it sends
\* nothing else; the seed has a source that is stored.
SentInv ==
    /\ \A s \in Upload : status[s] # "none" => RecordsOf(s) \subseteq records
    /\ \A s \in Preloaded : pc[s] = "checking" => target[s] = s /\ RecordsOf(s) \subseteq records
    /\ \A t \in Task : pc[t] = "sending" => left[t] \subseteq RecordsOf(target[t])
    /\ \A t \in Task : pc[t] = "sending" /\ target[t] \in Upload =>
           RecordsOf(target[t]) \subseteq sent \cup left[t]
    /\ \A t \in Task : pc[t] = "waiting" /\ target[t] \in Upload =>
           RecordsOf(target[t]) \subseteq sent
    /\ ClassifiedWasSent

\* The kinds of process are apart, and a seed is named by an upload.
LEMMA Kinds ==
    /\ \A t \in Stream : t \in Task /\ t \notin Preloaded
    /\ \A s \in Preloaded : s \in Task /\ s \in Upload /\ s \in Source
    /\ \A t \in Task : t \in Process /\ t \notin Job /\ t \notin Poller /\ t \notin LiveRecord
    /\ \A q \in Poller : q \in Process /\ Polled[q] \in Source
    /\ \A r \in LiveRecord : /\ r \in Record /\ r \in Process
                             /\ r \notin Task /\ r \notin Poller /\ r \notin Job
    /\ \A j \in Job : j \in Process /\ j # Absent
BY MirrorAssumption DEF Task, Process, Source, LiveRecord, Version

LEMMA InitTypes == Init => TypeOK /\ JoinInv
<1> SUFFICES ASSUME Init PROVE TypeOK /\ JoinInv
  OBVIOUS
<1>1. TypeOK
  BY MirrorAssumption DEF Init, TypeOK, Nothing, Assignments, Step, SourceStatus
<1>2. \A r \in LiveRecord : pc[r] # "sending"
  BY DEF Init, Process
<1>3. \A p \in Process, r \in Record : copy[p][r] = Absent
  BY DEF Init, Nothing
<1>4. \A r \in Record : ml[r] = Absent /\ mirror[r] = Absent
  BY DEF Init, Nothing
<1>5. \A j \in Job : jobRows[j] = {}
  BY DEF Init
<1>6. QED
  BY <1>1, <1>2, <1>3, <1>4, <1>5 DEF JoinInv

\* The types hold after each step.
LEMMA StepTypes ==
    ASSUME TypeOK, JoinInv, SentInv, [Next]_vars
    PROVE  TypeOK'
<1> USE DEF Step, SourceStatus, backend, service, local, bounds, Go, Count, Fault, Process
<1>1. ASSUME NEW r \in Record, Classify(r)
      PROVE  TypeOK'
  BY <1>1 DEF Classify, TypeOK, Assignments, Version
<1>2. ASSUME NEW j \in Job, CompleteJob(j) \/ JobFails(j) \/ Trigger(j) \/ FinalStep(j)
      PROVE  TypeOK'
  <2>1. CASE CompleteJob(j)
    <3>1. ml' \in Assignments
      BY <2>1 DEF CompleteJob, TypeOK, Assignments, Version
    <3>2. QED
      BY <2>1, <3>1 DEF CompleteJob, TypeOK
  <2>2. CASE JobFails(j)
    BY <2>2 DEF JobFails, TypeOK
  <2>3. CASE Trigger(j)
    BY <2>3 DEF Trigger, TypeOK
  <2>4. CASE SeeJobEnd(j)
    BY <2>4 DEF SeeJobEnd, TypeOK
  <2>5. CASE GiveUp(j)
    BY <2>5 DEF GiveUp, TypeOK
  <2>6. CASE MarkRecomputed(j)
    BY <2>6 DEF MarkRecomputed, TypeOK
  <2>7. QED
    BY <1>2, <2>1, <2>2, <2>3, <2>4, <2>5, <2>6 DEF FinalStep
<1>3. ASSUME NEW t \in Stream, NEW s \in Source, Ingest(t, s) \/ Resume(t, s)
      PROVE  TypeOK'
  <2>1. RecordsOf(s) \subseteq Record
    BY DEF RecordsOf
  <2>2. CASE Ingest(t, s)
    BY <2>1, <2>2, Kinds DEF Ingest, Persist, StartStream, TypeOK
  <2>3. CASE Resume(t, s)
    BY <2>1, <2>3, Kinds DEF Resume, StartStream, TypeOK
  <2>4. QED
    BY <1>3, <2>2, <2>3
<1>4. ASSUME NEW t \in Task, StreamStep(t)
      PROVE  TypeOK'
  <2>1. CASE SendBatch(t)
    BY <2>1 DEF SendBatch, TypeOK
  <2>2. CASE SendFails(t)
    <3>1. left[t] \subseteq records /\ sent \subseteq records
      BY DEF TypeOK
    <3>2. sent' \subseteq records /\ records' = records
      BY <2>2, <3>1 DEF SendFails
    <3>3. left' \in [Task -> SUBSET records]
      BY <2>2 DEF SendFails, EndStream, TypeOK
    <3>4. /\ pc' \in [Process -> Step]
          /\ target' \in [Task -> Source \cup {Absent}]
          /\ status' \in [Source -> SourceStatus]
      BY <2>2 DEF SendFails, EndStream, TypeOK
    <3>5. faults' \in Nat /\ restarted' = restarted
      BY <2>2 DEF SendFails, TypeOK
    <3>6. UNCHANGED <<mirror, ml, job, jobRows, copy>>
      BY <2>2 DEF SendFails
    <3>7. QED
      BY <3>2, <3>3, <3>4, <3>5, <3>6 DEF TypeOK
  <2>3. CASE EndWait(t)
    BY <2>3 DEF EndWait, TypeOK
  <2>4. QED
    BY <1>4, <2>1, <2>2, <2>3 DEF StreamStep
<1>5. ASSUME NEW r \in LiveRecord, AddLive(r) \/ SendLive(r) \/ SendLiveFails(r)
      PROVE  TypeOK'
  <2>1. r \in Record
    BY DEF LiveRecord
  <2>2. CASE AddLive(r)
    BY <2>1, <2>2 DEF AddLive, TypeOK
  <2>3. CASE SendLive(r)
    BY <2>1, <2>3 DEF SendLive, TypeOK, JoinInv
  <2>4. CASE SendLiveFails(r)
    BY <2>1, <2>4 DEF SendLiveFails, TypeOK, JoinInv
  <2>5. QED
    BY <1>5, <2>2, <2>3, <2>4
<1>6. ASSUME NEW q \in Poller, Poll(q)
      PROVE  TypeOK'
  BY <1>6 DEF Poll, TypeOK
<1>7. ASSUME NEW p \in Process, SyncStep(p)
      PROVE  TypeOK'
  <2>1. CASE Fetch(p)
    <3>1. [r \in Record |-> IF r \in Scope(p) THEN ml[r] ELSE Absent] \in Assignments
      BY DEF TypeOK, Assignments
    <3>2. QED
      BY <2>1, <3>1 DEF Fetch, TypeOK
  <2>2. CASE FetchFails(p)
    BY <2>2 DEF FetchFails, TypeOK
  <2>3. CASE Write(p)
    <3>1. mirror' \in Assignments /\ Nothing \in Assignments
      BY <2>3 DEF Write, TypeOK, Assignments, Nothing
    <3>2. AfterSync(p) \in Step
      BY DEF AfterSync
    <3>3. QED
      BY <2>3, <3>1, <3>2 DEF Write, TypeOK
  <2>4. QED
    BY <1>7, <2>1, <2>2, <2>3 DEF SyncStep
<1>8. CASE Restart
  BY <1>8 DEF Restart, TypeOK, Nothing, Assignments
<1>9. ASSUME NEW s \in Preloaded, SeedCommit(s) \/ SeedStep(s)
      PROVE  TypeOK'
  <2>1. s \in Task /\ s \in Source /\ RecordsOf(s) \subseteq Record
    BY Kinds DEF RecordsOf
  <2>2. CASE SeedCommit(s)
    <3>1. /\ records \subseteq records' /\ records' \subseteq Record
          /\ status' \in [Source -> SourceStatus]
      BY <2>1, <2>2 DEF SeedCommit, Persist, TypeOK
    <3>2. target' \in [Task -> Source \cup {Absent}] /\ left' \in [Task -> SUBSET records']
      BY <2>1, <2>2, <3>1 DEF SeedCommit, TypeOK
    <3>3. QED
      BY <2>2, <3>1, <3>2 DEF SeedCommit, TypeOK
  <2>3. CASE SeedStream(s)
    <3>1. RecordsOf(s) \subseteq records
      BY <2>3 DEF SeedStream, SentInv
    <3>2. QED
      BY <2>1, <2>3, <3>1 DEF SeedStream, TypeOK
  <2>4. CASE SeedSync(s)
    BY <2>4 DEF SeedSync, TypeOK
  <2>5. CASE SeedFails(s)
    BY <2>1, <2>5 DEF SeedFails, EndStream, TypeOK
  <2>6. QED
    BY <1>9, <2>2, <2>3, <2>4, <2>5 DEF SeedStep
<1>10. CASE UNCHANGED vars
  BY <1>10 DEF vars, TypeOK
<1>11. QED
  BY <1>1, <1>2, <1>3, <1>4, <1>5, <1>6, <1>7, <1>8, <1>9, <1>10 DEF Next, Source

\* Commit, send, classify and mirror keep their order in each step.
LEMMA StepJoin ==
    ASSUME TypeOK, JoinInv, [Next]_vars
    PROVE  JoinInv'
<1> USE DEF backend, service, local, bounds, Go, Process
<1>0. /\ \A r \in LiveRecord : r \in Record /\ r \notin Task /\ r \notin Job /\ r \notin Poller
      /\ \A j \in Job : j # Absent
      /\ \A t \in Stream : t \in Task
      /\ \A s \in Preloaded : s \in Task
  BY Kinds
<1>1. ASSUME NEW r \in Record, Classify(r)
      PROVE  JoinInv'
  <2>1. \A q \in Record : ml'[q] # Absent <=> ml[q] # Absent \/ q = r
    BY <1>1, MirrorAssumption DEF Classify, TypeOK, Assignments, Version
  <2>2. QED
    BY <1>1, <2>1 DEF Classify, JoinInv
<1>2. ASSUME NEW j \in Job, CompleteJob(j)
      PROVE  JoinInv'
  <2>1. \A q \in Record : /\ ml[q] # Absent => ml'[q] # Absent
                          /\ ml'[q] # Absent => ml[q] # Absent \/ q \in jobRows[j]
    BY <1>0, <1>2 DEF CompleteJob
  <2>2. \A k \in Job : jobRows'[k] \subseteq sent
    BY <1>2 DEF CompleteJob, TypeOK, JoinInv
  <2>3. QED
    BY <1>2, <2>1, <2>2 DEF CompleteJob, JoinInv
<1>3. ASSUME NEW j \in Job, JobFails(j)
      PROVE  JoinInv'
  <2>1. \A k \in Job : jobRows'[k] \subseteq sent
    BY <1>3 DEF JobFails, TypeOK, JoinInv
  <2>2. QED
    BY <1>3, <2>1 DEF JobFails, JoinInv
<1>4. ASSUME NEW j \in Job, Trigger(j)
      PROVE  JoinInv'
  <2>1. \A k \in Job : jobRows'[k] \subseteq sent
    BY <1>4 DEF Trigger, TypeOK, JoinInv
  <2>2. \A r \in LiveRecord : pc'[r] = pc[r]
    BY <1>0, <1>4 DEF Trigger, TypeOK
  <2>3. QED
    BY <1>4, <2>1, <2>2 DEF Trigger, JoinInv
<1>5. ASSUME NEW j \in Job, FinalStep(j)
      PROVE  JoinInv'
  <2>1. \A r \in LiveRecord : pc'[r] = pc[r]
    BY <1>0, <1>5 DEF FinalStep, SeeJobEnd, GiveUp, MarkRecomputed, TypeOK
  <2>2. UNCHANGED <<records, ml, mirror, copy, jobRows, sent>>
    BY <1>5 DEF FinalStep, SeeJobEnd, GiveUp, MarkRecomputed
  <2>3. QED
    BY <2>1, <2>2 DEF JoinInv
<1>6. ASSUME NEW t \in Stream, NEW s \in Source, Ingest(t, s) \/ Resume(t, s)
      PROVE  JoinInv'
  <2>1. \A r \in LiveRecord : pc'[r] = pc[r]
    BY <1>0, <1>6 DEF Ingest, Resume, StartStream, TypeOK
  <2>2. records \subseteq records' /\ UNCHANGED <<ml, mirror, copy, jobRows, sent>>
    BY <1>6 DEF Ingest, Persist, Resume, StartStream
  <2>3. QED
    BY <2>1, <2>2 DEF JoinInv
<1>7. ASSUME NEW t \in Task, StreamStep(t)
      PROVE  JoinInv'
  <2>1. \A r \in LiveRecord : pc'[r] = pc[r]
    BY <1>0, <1>7 DEF StreamStep, SendBatch, SendFails, EndStream, EndWait, TypeOK
  <2>2. sent \subseteq sent' /\ UNCHANGED <<records, ml, mirror, copy, jobRows>>
    BY <1>7 DEF StreamStep, SendBatch, SendFails, EndStream, EndWait
  <2>3. QED
    BY <2>1, <2>2 DEF JoinInv
<1>8. ASSUME NEW q \in LiveRecord, AddLive(q) \/ SendLive(q) \/ SendLiveFails(q)
      PROVE  JoinInv'
  <2>1. \A r \in LiveRecord : pc'[r] = "sending" => r \in records'
    BY <1>8 DEF AddLive, SendLive, SendLiveFails, TypeOK, JoinInv
  <2>2. sent \subseteq sent' /\ UNCHANGED <<ml, mirror, copy, jobRows>>
    BY <1>8 DEF AddLive, SendLive, SendLiveFails
  <2>3. QED
    BY <2>1, <2>2 DEF JoinInv
<1>9. ASSUME NEW q \in Poller, Poll(q)
      PROVE  JoinInv'
  <2>1. \A r \in LiveRecord : pc'[r] = pc[r]
    BY <1>0, <1>9 DEF Poll, TypeOK
  <2>2. QED
    BY <1>9, <2>1 DEF Poll, JoinInv
<1>10. ASSUME NEW p \in Process, SyncStep(p)
       PROVE  JoinInv'
  <2>1. /\ \A r \in LiveRecord : pc'[r] = "sending" => pc[r] = "sending"
        /\ UNCHANGED <<records, ml, jobRows, sent>>
    BY <1>10 DEF SyncStep, Fetch, FetchFails, Write, AfterSync, TypeOK
  <2>2. CASE Fetch(p)
    <3>1. \A q \in Process, r \in Record : copy'[q][r] # Absent => ml[r] # Absent
      BY <2>2 DEF Fetch, TypeOK, JoinInv
    <3>2. QED
      BY <2>1, <2>2, <3>1 DEF Fetch, JoinInv
  <2>3. CASE FetchFails(p)
    BY <2>1, <2>3 DEF FetchFails, JoinInv
  <2>4. CASE Write(p)
    <3>1. \A r \in Record : mirror'[r] # Absent => ml[r] # Absent
      BY <2>4 DEF Write, JoinInv
    <3>2. \A q \in Process, r \in Record : copy'[q][r] # Absent => ml[r] # Absent
      BY <2>4 DEF Write, TypeOK, Nothing, JoinInv
    <3>3. QED
      BY <2>1, <3>1, <3>2 DEF JoinInv
  <2>5. QED
    BY <1>10, <2>2, <2>3, <2>4 DEF SyncStep
<1>11. CASE Restart
  <2>1. /\ \A r \in LiveRecord : pc'[r] # "sending"
        /\ \A q \in Process, r \in Record : copy'[q][r] = Absent
        /\ UNCHANGED <<records, ml, mirror, jobRows, sent>>
    BY <1>11 DEF Restart, Nothing
  <2>2. QED
    BY <2>1 DEF JoinInv
<1>12. ASSUME NEW s \in Preloaded, SeedCommit(s) \/ SeedStep(s)
       PROVE  JoinInv'
  <2>1. \A r \in LiveRecord : pc'[r] = pc[r]
    BY <1>0, <1>12 DEF SeedCommit, SeedStep, SeedStream, SeedSync, SeedFails, EndStream, TypeOK
  <2>2. records \subseteq records' /\ UNCHANGED <<ml, mirror, copy, jobRows, sent>>
    BY <1>12 DEF SeedCommit, Persist, SeedStep, SeedStream, SeedSync, SeedFails, EndStream
  <2>3. QED
    BY <2>1, <2>2 DEF JoinInv
<1>13. CASE UNCHANGED vars
  BY <1>13 DEF vars, JoinInv
<1>14. QED
  BY <1>1, <1>2, <1>3, <1>4, <1>5, <1>6, <1>7, <1>8, <1>9, <1>10, <1>11, <1>12, <1>13
     DEF Next, Source

\* At the start no source exists and no stream runs.
LEMMA InitSent == Init => SentInv
BY Kinds DEF Init, SentInv, ClassifiedWasSent, Source

\* A step that leaves the sources and the running streams alone and only adds to
\* what is stored and sent.
Undisturbed ==
    /\ \A s \in Upload : \/ status'[s] = status[s]
                         \/ (status'[s] = "recomputed" /\ status[s] # "none")
    /\ \A t \in Task : pc'[t] \in {"sending", "waiting"} =>
           pc'[t] = pc[t] /\ target'[t] = target[t] /\ left'[t] = left[t]
    /\ \A s \in Preloaded : pc'[s] = "checking" => pc[s] = "checking" /\ target'[s] = target[s]
    /\ records \subseteq records'
    /\ sent \subseteq sent'

\* Such a step keeps what a stream owes.
LEMMA SentFrame ==
    ASSUME SentInv, Undisturbed
    PROVE  SentInv'
<1> USE DEF Undisturbed
<1>1. \A s : RecordsOf(s)' = RecordsOf(s)
  BY DEF RecordsOf
<1>2. \A s \in Upload : status'[s] # "none" => RecordsOf(s) \subseteq records'
  BY DEF SentInv
<1>3. \A t \in Task : pc'[t] = "sending" /\ target'[t] \in Upload =>
          RecordsOf(target'[t]) \subseteq sent' \cup left'[t]
  BY DEF SentInv
<1>4. \A t \in Task : pc'[t] = "waiting" /\ target'[t] \in Upload =>
          RecordsOf(target'[t]) \subseteq sent'
  BY DEF SentInv
<1>5. \A s \in Upload : status'[s] = "classified" => RecordsOf(s) \subseteq sent'
  BY DEF SentInv, ClassifiedWasSent
<1>6. \A s \in Preloaded : pc'[s] = "checking" => target'[s] = s /\ RecordsOf(s) \subseteq records'
  BY DEF SentInv
<1>7. \A t \in Task : pc'[t] = "sending" => left'[t] \subseteq RecordsOf(target'[t])
  BY DEF SentInv
<1>8. QED
  BY <1>1, <1>2, <1>3, <1>4, <1>5, <1>6, <1>7 DEF SentInv, ClassifiedWasSent, RecordsOf

\* A stream that starts owes all of its source.
LEMMA StartSent ==
    ASSUME TypeOK, SentInv, NEW t \in Stream, NEW s \in Source, Ingest(t, s) \/ Resume(t, s)
    PROVE  SentInv'
<1> USE DEF Go, service
<1>0. t \in Task /\ t \in Process /\ t \notin Preloaded
  BY Kinds
<1>1. /\ target' = [target EXCEPT ![t] = s]
      /\ left' = [left EXCEPT ![t] = RecordsOf(s) \cap records']
      /\ pc' = [pc EXCEPT ![t] = IF left'[t] = {} THEN "waiting" ELSE "sending"]
      /\ sent' = sent
  <2>1. CASE Ingest(t, s)
    <3>1. RecordsOf(s) \cap records' = RecordsOf(s)
      BY <2>1 DEF Ingest, Persist
    <3>2. QED
      BY <1>0, <2>1, <3>1 DEF Ingest, Persist, StartStream, TypeOK
  <2>2. CASE Resume(t, s)
    BY <1>0, <2>2 DEF Resume, StartStream, TypeOK
  <2>3. QED
    BY <2>1, <2>2
<1>2. records \subseteq records'
  BY DEF Ingest, Persist, Resume
<1>3. \A q \in Upload : status'[q] # "none" => RecordsOf(q) \subseteq records'
  <2>1. CASE Ingest(t, s)
    BY <2>1 DEF Ingest, Persist, TypeOK, SentInv
  <2>2. CASE Resume(t, s)
    BY <2>2 DEF Resume, TypeOK, SentInv
  <2>3. QED
    BY <2>1, <2>2
<1>4. \A q \in Upload : status'[q] = "classified" => status[q] = "classified"
  <2>1. CASE Ingest(t, s)
    BY <2>1 DEF Ingest, Persist, TypeOK
  <2>2. CASE Resume(t, s)
    BY <2>2 DEF Resume, TypeOK
  <2>3. QED
    BY <2>1, <2>2
<1>5. status'[s] # "none"
  <2>1. CASE Ingest(t, s)
    BY <2>1 DEF Ingest, Persist, TypeOK
  <2>2. CASE Resume(t, s)
    BY <2>2 DEF Resume, TypeOK
  <2>3. QED
    BY <2>1, <2>2
<1>6. \A q \in Task : q # t => pc'[q] = pc[q] /\ target'[q] = target[q] /\ left'[q] = left[q]
  <2>1. /\ pc \in [Process -> Step]
        /\ target \in [Task -> Source \cup {Absent}] /\ left \in [Task -> SUBSET records]
    BY DEF TypeOK
  <2>2. \A q \in Task : q \in Process
    BY Kinds
  <2>3. \A q \in Task : q # t => pc'[q] = pc[q]
    BY <1>1, <2>1, <2>2
  <2>4. QED
    BY <1>1, <2>1, <2>3
<1>7. s \in Upload => RecordsOf(s) \subseteq left'[t]
  BY <1>0, <1>1, <1>3, <1>5 DEF TypeOK
<1>8. target'[t] = s /\ pc'[t] = (IF left'[t] = {} THEN "waiting" ELSE "sending")
  BY <1>0, <1>1 DEF TypeOK
<1>9. \A q \in Task : pc'[q] = "sending" /\ target'[q] \in Upload =>
          RecordsOf(target'[q]) \subseteq sent' \cup left'[q]
  BY <1>1, <1>6, <1>7, <1>8 DEF SentInv
<1>10. \A q \in Task : pc'[q] = "waiting" /\ target'[q] \in Upload =>
          RecordsOf(target'[q]) \subseteq sent'
  BY <1>1, <1>6, <1>7, <1>8 DEF SentInv
<1>11. \A q \in Upload : status'[q] = "classified" => RecordsOf(q) \subseteq sent'
  BY <1>1, <1>4 DEF SentInv, ClassifiedWasSent
<1>12. left'[t] \subseteq RecordsOf(s)
  BY <1>0, <1>1 DEF TypeOK
<1>13. \A q \in Task : pc'[q] = "sending" => left'[q] \subseteq RecordsOf(target'[q])
  BY <1>1, <1>6, <1>8, <1>12 DEF SentInv
<1>14. \A q \in Preloaded : pc'[q] = "checking" => target'[q] = q /\ RecordsOf(q) \subseteq records'
  BY <1>0, <1>2, <1>6, Kinds DEF SentInv
<1>15. QED
  BY <1>3, <1>9, <1>10, <1>11, <1>13, <1>14 DEF SentInv, ClassifiedWasSent, RecordsOf

\* Sending moves records from what is left to what is sent; a source is called
\* classified only after the last of them.
LEMMA StreamSent ==
    ASSUME TypeOK, SentInv, NEW t \in Task, StreamStep(t)
    PROVE  SentInv'
<1> USE DEF Go, service, backend
<1>1. \A s \in Upload : s # Absent => s \in Source
  BY DEF Source
<1>2. /\ t \in Process
      /\ \A q \in Task : q \in Process
      /\ \A q \in Preloaded : q \in Task
  BY Kinds
<1>3. CASE SendBatch(t)
  <2>1. PICK B \in SUBSET left[t] :
            /\ sent' = sent \cup B
            /\ left' = [left EXCEPT ![t] = @ \ B]
            /\ pc' = [pc EXCEPT ![t] = IF B = left[t] THEN "waiting" ELSE "sending"]
    BY <1>3 DEF SendBatch
  <2>2. /\ pc[t] = "sending"
        /\ UNCHANGED <<records, status, target>>
    BY <1>3 DEF SendBatch
  <2>3. \A q \in Task : q # t => pc'[q] = pc[q] /\ left'[q] = left[q]
    BY <2>1 DEF TypeOK
  <2>4. left'[t] = left[t] \ B /\ pc'[t] = (IF B = left[t] THEN "waiting" ELSE "sending")
    BY <1>2, <2>1 DEF TypeOK
  <2>5. \A q \in Task : pc'[q] = "sending" /\ target'[q] \in Upload =>
            RecordsOf(target'[q]) \subseteq sent' \cup left'[q]
    BY <2>1, <2>2, <2>3, <2>4 DEF SentInv
  <2>6. \A q \in Task : pc'[q] = "waiting" /\ target'[q] \in Upload =>
            RecordsOf(target'[q]) \subseteq sent'
    BY <2>1, <2>2, <2>3, <2>4 DEF SentInv
  <2>7. \A q \in Task : pc'[q] = "sending" => left'[q] \subseteq RecordsOf(target'[q])
    BY <2>1, <2>2, <2>3, <2>4 DEF SentInv
  <2>8. \A q \in Preloaded : pc'[q] = "checking" => target'[q] = q /\ RecordsOf(q) \subseteq records'
    BY <1>2, <2>1, <2>2, <2>3, <2>4 DEF SentInv
  <2>9. QED
    BY <2>1, <2>2, <2>5, <2>6, <2>7, <2>8 DEF SentInv, ClassifiedWasSent, RecordsOf
<1>4. CASE SendFails(t)
  <2>1. /\ sent \subseteq sent' /\ records' = records
        /\ status' = [status EXCEPT ![target[t]] = "failed"]
        /\ pc' = [pc EXCEPT ![t] = "done"]
        /\ \A q \in Task : q # t => target'[q] = target[q] /\ left'[q] = left[q]
    BY <1>4 DEF SendFails, EndStream, TypeOK
  <2>2. \A q \in Task : pc'[q] \in {"sending", "waiting"} => q # t /\ pc'[q] = pc[q]
    BY <1>2, <2>1 DEF TypeOK
  <2>3. \A q \in Task : pc'[q] = "sending" /\ target'[q] \in Upload =>
            RecordsOf(target'[q]) \subseteq sent' \cup left'[q]
    BY <2>1, <2>2 DEF SentInv
  <2>4. \A q \in Task : pc'[q] = "waiting" /\ target'[q] \in Upload =>
            RecordsOf(target'[q]) \subseteq sent'
    BY <2>1, <2>2 DEF SentInv
  <2>5. \A s \in Upload : status'[s] # "none" => RecordsOf(s) \subseteq records'
    <3>1. pc[t] = "sending"
      BY <1>4 DEF SendFails
    <3>2. target[t] \in Upload => RecordsOf(target[t]) \subseteq sent \cup left[t]
      BY <3>1 DEF SentInv
    <3>3. sent \cup left[t] \subseteq records
      BY DEF TypeOK
    <3>4. \A s \in Upload : s # target[t] => status'[s] = status[s]
      BY <2>1 DEF TypeOK
    <3>5. QED
      BY <2>1, <3>2, <3>3, <3>4 DEF SentInv
  <2>6. \A s \in Upload : status'[s] = "classified" => status[s] = "classified"
    BY <2>1, <1>1 DEF TypeOK, Source
  <2>7. \A q \in Task : pc'[q] = "sending" => left'[q] \subseteq RecordsOf(target'[q])
    BY <2>1, <2>2 DEF SentInv
  <2>8. \A q \in Preloaded : pc'[q] = "checking" => q # t /\ pc[q] = "checking"
    BY <1>2, <2>1 DEF TypeOK
  <2>9. \A q \in Preloaded : pc'[q] = "checking" => target'[q] = q /\ RecordsOf(q) \subseteq records'
    BY <1>2, <2>1, <2>8 DEF SentInv
  <2>10. QED
    BY <2>1, <2>3, <2>4, <2>5, <2>6, <2>7, <2>9 DEF SentInv, ClassifiedWasSent, RecordsOf
<1>5. CASE EndWait(t)
  <2>1. /\ pc[t] = "waiting"
        /\ status' = [status EXCEPT ![target[t]] = "classified"]
        /\ pc' = [pc EXCEPT ![t] = "syncing"]
        /\ UNCHANGED <<records, sent, target, left>>
    BY <1>5 DEF EndWait
  <2>2. \A q \in Task : pc'[q] \in {"sending", "waiting"} => pc'[q] = pc[q]
    BY <1>2, <2>1 DEF TypeOK
  <2>3. target[t] \in Upload => RecordsOf(target[t]) \subseteq sent
    BY <2>1 DEF SentInv
  <2>4. \A s \in Upload : s # target[t] => status'[s] = status[s]
    BY <2>1 DEF TypeOK
  <2>5. sent \subseteq records
    BY DEF TypeOK
  <2>6. /\ \A s \in Upload : status'[s] # "none" => RecordsOf(s) \subseteq records
        /\ \A s \in Upload : status'[s] = "classified" => RecordsOf(s) \subseteq sent
    BY <2>3, <2>4, <2>5 DEF SentInv, ClassifiedWasSent
  <2>7. \A q \in Preloaded : pc'[q] = "checking" => target'[q] = q /\ RecordsOf(q) \subseteq records'
    BY <1>2, <2>1 DEF SentInv, TypeOK
  <2>8. QED
    BY <2>1, <2>2, <2>6, <2>7 DEF SentInv, ClassifiedWasSent, RecordsOf
<1>6. QED
  BY <1>3, <1>4, <1>5 DEF StreamStep

\* What the seed stores and streams is the source it has come to.
LEMMA SeedSent ==
    ASSUME TypeOK, SentInv, NEW s \in Preloaded, SeedCommit(s) \/ SeedStep(s)
    PROVE  SentInv'
<1> USE DEF Go, service, backend
<1>1. /\ s \in Task /\ s \in Process /\ s \in Upload /\ s \in Source
      /\ \A q \in Task : q \in Process
      /\ \A q \in Preloaded : q \in Task
  BY Kinds
<1>2. CASE SeedCommit(s)
  <2>1. /\ pc' = [pc EXCEPT ![s] = "checking"] /\ target' = [target EXCEPT ![s] = s]
        /\ left' = left /\ sent' = sent /\ records \subseteq records'
    BY <1>2 DEF SeedCommit, Persist
  <2>2. \A q \in Task : q # s => pc'[q] = pc[q] /\ target'[q] = target[q]
    BY <1>1, <2>1 DEF TypeOK
  <2>3. pc'[s] = "checking" /\ target'[s] = s
    BY <1>1, <2>1 DEF TypeOK
  <2>4. \A q \in Upload : status'[q] # "none" => RecordsOf(q) \subseteq records'
    BY <1>1, <1>2 DEF SeedCommit, Persist, SentInv, TypeOK, Source
  <2>5. status'[s] # "none"
    BY <1>1, <1>2 DEF SeedCommit, Persist, TypeOK
  <2>6. \A q \in Upload : status'[q] = "classified" => RecordsOf(q) \subseteq sent'
    <3>1. \A q \in Upload : status'[q] = "classified" => status[q] = "classified"
      BY <1>1, <1>2 DEF SeedCommit, Persist, TypeOK, Source
    <3>2. QED
      BY <2>1, <3>1 DEF SentInv, ClassifiedWasSent
  <2>7. \A q \in Preloaded : pc'[q] = "checking" => target'[q] = q /\ RecordsOf(q) \subseteq records'
    BY <1>1, <2>1, <2>2, <2>3, <2>4, <2>5 DEF SentInv
  <2>8. \A q \in Task : pc'[q] \in {"sending", "waiting"} => q # s
    BY <2>3
  <2>9. QED
    BY <2>1, <2>2, <2>4, <2>6, <2>7, <2>8 DEF SentInv, ClassifiedWasSent, RecordsOf
<1>3. CASE SeedStream(s)
  <2>1. /\ pc[s] = "checking" /\ pc' = [pc EXCEPT ![s] = "sending"]
        /\ left' = [left EXCEPT ![s] = RecordsOf(s)]
        /\ UNCHANGED <<records, status, sent, target>>
    BY <1>3 DEF SeedStream
  <2>2. \A q \in Task : q # s => pc'[q] = pc[q] /\ left'[q] = left[q]
    BY <1>1, <2>1 DEF TypeOK
  <2>3. pc'[s] = "sending" /\ left'[s] = RecordsOf(s) /\ target'[s] = s
    BY <1>1, <2>1 DEF TypeOK, SentInv
  <2>4. \A q \in Task : pc'[q] = "sending" => left'[q] \subseteq RecordsOf(target'[q])
    BY <2>1, <2>2, <2>3 DEF SentInv
  <2>5. \A q \in Task : pc'[q] = "sending" /\ target'[q] \in Upload =>
            RecordsOf(target'[q]) \subseteq sent' \cup left'[q]
    BY <2>1, <2>2, <2>3 DEF SentInv
  <2>6. \A q \in Task : pc'[q] = "waiting" => q # s /\ pc[q] = "waiting"
    BY <2>2, <2>3
  <2>7. \A q \in Preloaded : pc'[q] = "checking" => target'[q] = q /\ RecordsOf(q) \subseteq records'
    BY <1>1, <2>1, <2>2, <2>3 DEF SentInv
  <2>8. QED
    BY <2>1, <2>4, <2>5, <2>6, <2>7 DEF SentInv, ClassifiedWasSent, RecordsOf
<1>4. CASE SeedSync(s) \/ SeedFails(s)
  <2>1. \E l \in {"syncing", "done"} : pc' = [pc EXCEPT ![s] = l]
    BY <1>4 DEF SeedSync, SeedFails, EndStream
  <2>2. \A q \in Task : q # s => /\ pc'[q] = pc[q]
                                 /\ target'[q] = target[q] /\ left'[q] = left[q]
    BY <1>1, <1>4 DEF SeedSync, SeedFails, EndStream, TypeOK
  <2>3. pc'[s] \notin {"sending", "waiting", "checking"}
    BY <1>1, <2>1 DEF TypeOK
  <2>4. UNCHANGED <<records, status, sent>>
    BY <1>4 DEF SeedSync, SeedFails
  <2>5. Undisturbed
    BY <1>1, <2>2, <2>3, <2>4 DEF Undisturbed
  <2>6. QED
    BY <2>5, SentFrame
<1>5. QED
  BY <1>2, <1>3, <1>4 DEF SeedStep

\* Each step keeps what a stream owes.
LEMMA StepSent ==
    ASSUME TypeOK, SentInv, [Next]_vars
    PROVE  SentInv'
<1> USE DEF backend, service, local, bounds, Go
<1>0. /\ \A t \in Task : t \in Process /\ t \notin Job /\ t \notin Poller /\ t \notin LiveRecord
      /\ \A s \in Preloaded : s \in Task
  BY Kinds
<1>1. ASSUME NEW r \in Record, Classify(r)
      PROVE  SentInv'
  <2>1. Undisturbed
    BY <1>1 DEF Classify, Undisturbed
  <2>2. QED
    BY <2>1, SentFrame
<1>2. ASSUME NEW j \in Job, CompleteJob(j) \/ JobFails(j)
      PROVE  SentInv'
  <2>1. Undisturbed
    BY <1>2 DEF CompleteJob, JobFails, Undisturbed
  <2>2. QED
    BY <2>1, SentFrame
<1>3. ASSUME NEW j \in Job, Trigger(j) \/ FinalStep(j)
      PROVE  SentInv'
  <2>1. \A t \in Task : pc'[t] = pc[t]
    BY <1>0, <1>3 DEF Trigger, FinalStep, SeeJobEnd, GiveUp, MarkRecomputed, TypeOK
  <2>2. \A s \in Upload : status'[s] = status[s] \/ (status'[s] = "recomputed" /\ status[s] # "none")
    <3>1. CASE MarkRecomputed(j)
      BY <3>1 DEF MarkRecomputed, TypeOK, Source
    <3>2. CASE Trigger(j) \/ SeeJobEnd(j) \/ GiveUp(j)
      BY <3>2 DEF Trigger, SeeJobEnd, GiveUp
    <3>3. QED
      BY <1>3, <3>1, <3>2 DEF FinalStep
  <2>3. UNCHANGED <<records, sent, target, left>>
    BY <1>3 DEF Trigger, FinalStep, SeeJobEnd, GiveUp, MarkRecomputed
  <2>4. Undisturbed
    BY <1>0, <2>1, <2>2, <2>3 DEF Undisturbed
  <2>5. QED
    BY <2>4, SentFrame
<1>4. ASSUME NEW t \in Stream, NEW s \in Source, Ingest(t, s) \/ Resume(t, s)
      PROVE  SentInv'
  BY <1>4, StartSent
<1>5. ASSUME NEW t \in Task, StreamStep(t)
      PROVE  SentInv'
  BY <1>5, StreamSent
<1>6. ASSUME NEW r \in LiveRecord, AddLive(r) \/ SendLive(r) \/ SendLiveFails(r)
      PROVE  SentInv'
  <2>1. \A t \in Task : pc'[t] = pc[t]
    BY <1>0, <1>6 DEF AddLive, SendLive, SendLiveFails, TypeOK
  <2>2. Owner[r] \in Live /\ Owner[r] \notin Upload
    BY MirrorAssumption DEF LiveRecord
  <2>3. \A s \in Upload : status'[s] = status[s]
    <3>1. CASE AddLive(r)
      BY <2>2, <3>1 DEF AddLive, TypeOK, Source
    <3>2. CASE SendLive(r) \/ SendLiveFails(r)
      BY <3>2 DEF SendLive, SendLiveFails
    <3>3. QED
      BY <1>6, <3>1, <3>2
  <2>4. /\ records \subseteq records' /\ sent \subseteq sent'
        /\ UNCHANGED <<target, left>>
    BY <1>6 DEF AddLive, SendLive, SendLiveFails
  <2>5. Undisturbed
    BY <1>0, <2>1, <2>3, <2>4 DEF Undisturbed
  <2>6. QED
    BY <2>5, SentFrame
<1>7. ASSUME NEW q \in Poller, Poll(q)
      PROVE  SentInv'
  <2>1. \A t \in Task : pc'[t] = pc[t]
    BY <1>0, <1>7 DEF Poll, TypeOK
  <2>2. Undisturbed
    BY <1>0, <1>7, <2>1 DEF Poll, Undisturbed
  <2>3. QED
    BY <2>2, SentFrame
<1>8. ASSUME NEW p \in Process, SyncStep(p)
      PROVE  SentInv'
  <2>1. \A t \in Task : pc'[t] \in {"sending", "waiting", "checking"} => t # p /\ pc'[t] = pc[t]
    BY <1>0, <1>8 DEF SyncStep, Fetch, FetchFails, Write, AfterSync, TypeOK
  <2>2. UNCHANGED <<records, sent, status, left>>
    BY <1>8 DEF SyncStep, Fetch, FetchFails, Write
  <2>3. \A t \in Task : t # p => target'[t] = target[t]
    BY <1>8 DEF SyncStep, Fetch, FetchFails, Write
  <2>4. Undisturbed
    BY <1>0, <2>1, <2>2, <2>3 DEF Undisturbed
  <2>5. QED
    BY <2>4, SentFrame
<1>9. CASE Restart
  <2>1. \A t \in Task : pc'[t] \notin {"sending", "waiting", "checking"}
    BY <1>0, <1>9 DEF Restart
  <2>2. UNCHANGED <<records, sent, status>>
    BY <1>9 DEF Restart
  <2>3. Undisturbed
    BY <1>0, <2>1, <2>2 DEF Undisturbed
  <2>4. QED
    BY <2>3, SentFrame
<1>10. ASSUME NEW s \in Preloaded, SeedCommit(s) \/ SeedStep(s)
       PROVE  SentInv'
  BY <1>10, SeedSent
<1>11. CASE UNCHANGED vars
  <2>1. Undisturbed
    BY <1>11 DEF vars, Undisturbed
  <2>2. QED
    BY <2>1, SentFrame
<1>12. QED
  BY <1>1, <1>2, <1>3, <1>4, <1>5, <1>6, <1>7, <1>8, <1>9, <1>10, <1>11 DEF Next, Source

\* Types, order and debts are kept together.
LEMMA MirrorInvariant == Spec => [](TypeOK /\ JoinInv /\ SentInv)
<1>1. TypeOK /\ JoinInv /\ SentInv /\ [Next]_vars => (TypeOK /\ JoinInv /\ SentInv)'
  BY StepTypes, StepJoin, StepSent
<1>2. QED
  BY <1>1, InitTypes, InitSent, PTL DEF Spec

\* Types hold in every reachable state, and ML is only ever sent what Postgres has.
THEOREM TypeCorrect == Spec => []TypeOK
BY MirrorInvariant, PTL

\* The order holds in every reachable state.
THEOREM JoinInvariant == Spec => []JoinInv
BY MirrorInvariant, PTL

\* A mirrored assignment has its record in Postgres and its row in ML, however
\* many syncs fetch and write side by side.
THEOREM MirrorAlwaysJoins == Spec => []MirrorJoins
<1>1. TypeOK /\ JoinInv => MirrorJoins
  BY DEF TypeOK, JoinInv, MirrorJoins
<1>2. QED
  BY <1>1, MirrorInvariant, PTL

\* A source that is shown as classified has handed all its records to ML.
THEOREM ClassifiedIsSent == Spec => []ClassifiedWasSent
<1>1. SentInv => ClassifiedWasSent
  BY DEF SentInv
<1>2. QED
  BY <1>1, MirrorInvariant, PTL

\* No recompute, live request or other stream takes a source out of failed: only a
\* stream that was started for it does.
THEOREM FailedStays == Spec => FailedUntilResumed
<1>1. TypeOK /\ [Next]_vars
        => [\A s \in Source : status[s] = "failed" /\ status'[s] # "failed"
               => \E t \in Task : target'[t] = s /\ pc[t] # "done"]_vars
  <2> SUFFICES ASSUME TypeOK, [Next]_vars, NEW s \in Source,
                      status[s] = "failed", status'[s] # "failed"
               PROVE  \E t \in Task : target'[t] = s /\ pc[t] # "done"
    OBVIOUS
  <2>1. ASSUME NEW t \in Stream, NEW q \in Source, Ingest(t, q) \/ Resume(t, q)
        PROVE  target'[t] = s /\ pc[t] # "done"
    <3>1. q = s
      <4>1. CASE Ingest(t, q)
        BY <4>1 DEF Ingest, Persist, TypeOK
      <4>2. CASE Resume(t, q)
        BY <4>2 DEF Resume, TypeOK
      <4>3. QED
        BY <2>1, <4>1, <4>2
    <3>2. pc[t] = "idle" /\ target' = [target EXCEPT ![t] = q]
      BY <2>1 DEF Ingest, Resume, StartStream
    <3>3. QED
      BY <3>1, <3>2, Kinds DEF TypeOK
  <2>2. ASSUME NEW t \in Task, StreamStep(t)
        PROVE  target'[t] = s /\ pc[t] # "done"
    <3>1. CASE SendBatch(t)
      BY <3>1 DEF SendBatch, backend
    <3>2. CASE SendFails(t)
      BY <3>2 DEF SendFails, TypeOK
    <3>3. CASE EndWait(t)
      BY <3>3 DEF EndWait, TypeOK
    <3>4. QED
      BY <2>2, <3>1, <3>2, <3>3 DEF StreamStep
  <2>3. ASSUME NEW r \in LiveRecord, AddLive(r)
        PROVE  FALSE
    BY <2>3 DEF AddLive, TypeOK
  <2>4. ASSUME NEW j \in Job, MarkRecomputed(j)
        PROVE  FALSE
    BY <2>4 DEF MarkRecomputed, TypeOK
  <2>5. ASSUME NEW q \in Preloaded, SeedCommit(q)
        PROVE  FALSE
    BY <2>5 DEF SeedCommit, Persist, TypeOK
  <2>6. status' = status
          \/ (\E t \in Stream, q \in Source : Ingest(t, q) \/ Resume(t, q))
          \/ (\E t \in Task : StreamStep(t)) \/ (\E q \in Preloaded : SeedCommit(q))
          \/ (\E r \in LiveRecord : AddLive(r)) \/ (\E j \in Job : MarkRecomputed(j))
    BY DEF Next, Classify, CompleteJob, JobFails, Trigger, FinalStep, SeeJobEnd, GiveUp,
           SendLive, SendLiveFails, Poll, SyncStep, Fetch, FetchFails, Write, Restart,
           SeedStep, SeedStream, SeedSync, SeedFails, Source, vars, backend
  <2>7. QED
    BY <2>1, <2>2, <2>3, <2>4, <2>5, <2>6, Kinds
<1>2. QED
  BY <1>1, TypeCorrect, PTL DEF Spec, FailedUntilResumed

\* A source of which nothing is stored has no records.
UnknownEmpty == \A s \in Source : status[s] = "none" => RecordsOf(s) \cap records = {}

\* What is added to the records belongs to a source that is there.
LEMMA StepUnknown ==
    ASSUME TypeOK, UnknownEmpty, [Next]_vars
    PROVE  UnknownEmpty'
<1>1. ASSUME NEW s \in Source, Persist(s)
      PROVE  UnknownEmpty'
  <2>1. records' = records \cup RecordsOf(s) /\ status'[s] # "none"
        /\ \A q \in Source : q # s => status'[q] = status[q]
    BY <1>1 DEF Persist, TypeOK
  <2>2. \A q \in Source : q # s => RecordsOf(q) \cap RecordsOf(s) = {}
    BY DEF RecordsOf
  <2>3. \A q \in Source : status'[q] = "none" => RecordsOf(q) \cap records' = {}
    BY <2>1, <2>2 DEF UnknownEmpty
  <2>4. QED
    BY <2>3 DEF UnknownEmpty, RecordsOf
<1>2. ASSUME NEW r \in LiveRecord, AddLive(r)
      PROVE  UnknownEmpty'
  <2>1. r \in Record /\ Owner[r] \in Source
    BY MirrorAssumption DEF LiveRecord, Source
  <2>2. records' = records \cup {r} /\ status'[Owner[r]] # "none"
        /\ \A q \in Source : q # Owner[r] => status'[q] = status[q]
    BY <1>2, <2>1 DEF AddLive, TypeOK
  <2>3. \A q \in Source : r \in RecordsOf(q) => q = Owner[r]
    BY DEF RecordsOf
  <2>4. \A q \in Source : status'[q] = "none" => RecordsOf(q) \cap records' = {}
    BY <2>2, <2>3 DEF UnknownEmpty
  <2>5. QED
    BY <2>4 DEF UnknownEmpty, RecordsOf
<1>3. ASSUME records' = records, \A s \in Source : status'[s] = "none" => status[s] = "none"
      PROVE  UnknownEmpty'
  BY <1>3 DEF UnknownEmpty, RecordsOf
<1>4. \/ \E s \in Source : Persist(s)
      \/ \E r \in LiveRecord : AddLive(r)
      \/ records' = records /\ \E t \in Task : StreamStep(t)
      \/ records' = records /\ \E t \in Stream, s \in Source : Resume(t, s)
      \/ records' = records /\ \E j \in Job : MarkRecomputed(j)
      \/ records' = records /\ status' = status
  BY Kinds DEF Next, Classify, CompleteJob, JobFails, Trigger, FinalStep, SeeJobEnd, GiveUp,
         MarkRecomputed, Ingest, Resume, SeedCommit, SeedStep, SeedStream, SeedSync, SeedFails,
         StreamStep, SendBatch, SendFails, EndWait, SendLive, SendLiveFails, Poll, SyncStep,
         Fetch, FetchFails, Write, Restart, Source, vars, backend
<1>5. ASSUME records' = records, NEW t \in Task, StreamStep(t)
      PROVE  UnknownEmpty'
  BY <1>3, <1>5 DEF StreamStep, SendBatch, SendFails, EndWait, TypeOK, backend
<1>6. ASSUME records' = records, NEW t \in Stream, NEW s \in Source, Resume(t, s)
      PROVE  UnknownEmpty'
  BY <1>3, <1>6 DEF Resume, TypeOK
<1>7. ASSUME records' = records, NEW j \in Job, MarkRecomputed(j)
      PROVE  UnknownEmpty'
  BY <1>3, <1>7 DEF MarkRecomputed, TypeOK
<1>8. QED
  BY <1>1, <1>2, <1>3, <1>4, <1>5, <1>6, <1>7

\* A stream sends or waits for the source.
Streamed(s) == \E t \in Task : target[t] = s /\ pc[t] \in {"sending", "waiting"}

\* The seed has stored the source and sent nothing of it: it asks ML how much of it is
\* there, or gave up asking, and it stays like that until a resume or the next start.
Unsent(s) == s \in Preloaded /\ pc[s] \in {"checking", "done"} /\ RecordsOf(s) \cap sent = {}

\* A source that is shown as ingesting is being streamed, unless the backend was
\* restarted or its seed was cut short before the first PUT: no answer, failure,
\* resume or recompute leaves one behind that no stream will take on.  Half of
\* StreamsSettle; the other half is that a stream which may take a step takes it.
IngestingStreamed ==
    ~restarted =>
        \A s \in Source : status[s] = "ingesting" => Streamed(s) \/ Unsent(s)

\* A step that makes no source ingesting, lets the running streams be and sends
\* nothing of a preloaded source.
StreamsKept ==
    /\ restarted' = restarted
    /\ \A s \in Source : status'[s] = "ingesting" => status[s] = "ingesting"
    /\ \A t \in Task : pc[t] \in {"sending", "waiting"} =>
           pc'[t] \in {"sending", "waiting"} /\ target'[t] = target[t]
    /\ \A s \in Preloaded : pc[s] \in {"checking", "done"} =>
           pc'[s] \in {"checking", "done"} /\ RecordsOf(s) \cap sent' = RecordsOf(s) \cap sent

\* Such a step keeps the streams of the sources that are ingesting.
LEMMA StreamsFrame ==
    ASSUME IngestingStreamed, StreamsKept
    PROVE  IngestingStreamed'
<1> SUFFICES ASSUME ~restarted', NEW s \in Source, status'[s] = "ingesting"
             PROVE  Streamed(s)' \/ Unsent(s)'
  BY DEF IngestingStreamed
<1>1. Streamed(s) \/ Unsent(s)
  BY DEF IngestingStreamed, StreamsKept
<1>2. Streamed(s) => Streamed(s)'
  BY DEF Streamed, StreamsKept
<1>3. Unsent(s) => Unsent(s)'
  BY DEF Unsent, StreamsKept, RecordsOf
<1>4. QED
  BY <1>1, <1>2, <1>3

\* A process of another name leaves a seed and what it has not sent alone.
LEMMA UnsentFrame ==
    ASSUME NEW s, pc'[s] = pc[s], RecordsOf(s) \cap sent' = RecordsOf(s) \cap sent
    PROVE  Unsent(s)' <=> Unsent(s)
BY DEF Unsent, RecordsOf

\* A stream that starts is the stream of its source; the others go on.
LEMMA StartKeeps ==
    ASSUME TypeOK, IngestingStreamed,
           NEW t \in Stream, NEW s \in Source, Ingest(t, s) \/ Resume(t, s)
    PROVE  IngestingStreamed'
<1> USE DEF Go, bounds
<1>0. /\ t \in Task /\ t \in Process /\ t \notin Preloaded
      /\ \A q \in Task : q \in Process
      /\ \A q \in Preloaded : q \in Task
  BY Kinds
<1>1. /\ restarted' = restarted /\ sent' = sent
      /\ pc[t] = "idle"
      /\ target' = [target EXCEPT ![t] = s]
      /\ \E l \in {"sending", "waiting"} : pc' = [pc EXCEPT ![t] = l]
  BY DEF Ingest, Resume, StartStream, service
<1>2. target'[t] = s /\ pc'[t] \in {"sending", "waiting"}
  BY <1>0, <1>1 DEF TypeOK
<1>3. \A q \in Task : q # t => target'[q] = target[q] /\ pc'[q] = pc[q]
  BY <1>0, <1>1 DEF TypeOK
<1>4. \A q \in Source : q # s => status'[q] = status[q]
  BY DEF Ingest, Persist, Resume, TypeOK
<1>5. ASSUME ~restarted', NEW q \in Source, status'[q] = "ingesting"
      PROVE  Streamed(q)' \/ Unsent(q)'
  <2>1. CASE q = s
    BY <1>0, <1>2, <2>1 DEF Streamed
  <2>2. CASE q # s
    <3>1. Streamed(q) \/ Unsent(q)
      BY <1>1, <1>4, <1>5, <2>2 DEF IngestingStreamed
    <3>2. CASE Streamed(q)
      <4>1. PICK u \in Task : target[u] = q /\ pc[u] \in {"sending", "waiting"}
        BY <3>2 DEF Streamed
      <4>2. u # t
        BY <1>1, <4>1
      <4>3. QED
        BY <1>3, <4>1, <4>2 DEF Streamed
    <3>3. CASE Unsent(q)
      <4>1. pc'[q] = pc[q]
        BY <1>0, <1>3, <3>3 DEF Unsent
      <4>2. QED
        BY <1>1, <3>3, <4>1, UnsentFrame
    <3>4. QED
      BY <3>1, <3>2, <3>3
  <2>3. QED
    BY <2>1, <2>2
<1>6. QED
  BY <1>5 DEF IngestingStreamed

\* A stream that stops sending and waiting takes its source out of ingesting.
LEMMA StreamKeeps ==
    ASSUME TypeOK, SentInv, IngestingStreamed, NEW t \in Task, StreamStep(t)
    PROVE  IngestingStreamed'
<1> USE DEF Go, Fault, bounds, backend
<1>1. /\ t \in Process
      /\ \A q \in Task : q \in Process
      /\ \A q \in Preloaded : q \in Task
  BY Kinds
<1>2. \A s : s # target[t] => RecordsOf(s) \cap sent' = RecordsOf(s) \cap sent
  <2>1. \A s : s # target[t] => RecordsOf(s) \cap RecordsOf(target[t]) = {}
    BY DEF RecordsOf
  <2>2. CASE SendBatch(t)
    <3>1. sent' \ sent \subseteq left[t] /\ sent \subseteq sent' /\ left[t] \subseteq RecordsOf(target[t])
      BY <2>2 DEF SendBatch, SentInv
    <3>2. QED
      BY <2>1, <3>1
  <2>3. CASE SendFails(t)
    <3>1. sent' \ sent \subseteq left[t] /\ sent \subseteq sent' /\ left[t] \subseteq RecordsOf(target[t])
      BY <2>3 DEF SendFails, SentInv
    <3>2. QED
      BY <2>1, <3>1
  <2>4. CASE EndWait(t)
    BY <2>4 DEF EndWait, service
  <2>5. QED
    BY <2>2, <2>3, <2>4 DEF StreamStep
<1>3. /\ restarted' = restarted
      /\ \A q \in Task : q # t => pc'[q] = pc[q] /\ target'[q] = target[q]
      /\ pc[t] \in {"sending", "waiting"}
  <2>1. CASE SendBatch(t)
    BY <1>1, <2>1 DEF SendBatch, TypeOK
  <2>2. CASE SendFails(t)
    BY <1>1, <2>2 DEF SendFails, EndStream, TypeOK
  <2>3. CASE EndWait(t)
    BY <1>1, <2>3 DEF EndWait, TypeOK
  <2>4. QED
    BY <2>1, <2>2, <2>3 DEF StreamStep
<1>4. \A s \in Source : status'[s] = "ingesting" => status[s] = "ingesting"
  BY DEF StreamStep, SendBatch, SendFails, EndWait, TypeOK
<1>5. \/ target'[t] = target[t] /\ pc'[t] \in {"sending", "waiting"}
      \/ status' = [status EXCEPT ![target[t]] = "failed"]
      \/ status' = [status EXCEPT ![target[t]] = "classified"]
  <2>1. CASE SendBatch(t)
    <3>1. \E l \in {"sending", "waiting"} : pc' = [pc EXCEPT ![t] = l]
      BY <2>1 DEF SendBatch
    <3>2. QED
      BY <1>1, <2>1, <3>1 DEF SendBatch, TypeOK
  <2>2. CASE SendFails(t) \/ EndWait(t)
    BY <2>2 DEF SendFails, EndWait
  <2>3. QED
    BY <2>1, <2>2 DEF StreamStep
<1>6. ASSUME ~restarted', NEW s \in Source, status'[s] = "ingesting"
      PROVE  Streamed(s)' \/ Unsent(s)'
  <2>1. Streamed(s) \/ Unsent(s)
    BY <1>3, <1>4, <1>6 DEF IngestingStreamed
  <2>2. CASE s = target[t]
    <3>1. target'[t] = s /\ pc'[t] \in {"sending", "waiting"}
      BY <1>5, <1>6, <2>2 DEF TypeOK
    <3>2. QED
      BY <3>1 DEF Streamed
  <2>3. CASE s # target[t]
    <3>1. CASE Streamed(s)
      <4>1. PICK u \in Task : target[u] = s /\ pc[u] \in {"sending", "waiting"}
        BY <3>1 DEF Streamed
      <4>2. QED
        BY <1>3, <2>3, <4>1 DEF Streamed
    <3>2. CASE Unsent(s)
      <4>1. s \in Task /\ s # t /\ pc'[s] = pc[s]
        BY <1>1, <1>3, <3>2 DEF Unsent
      <4>2. QED
        BY <1>2, <2>3, <3>2, <4>1, UnsentFrame
    <3>3. QED
      BY <2>1, <3>1, <3>2
  <2>4. QED
    BY <2>2, <2>3
<1>7. QED
  BY <1>6 DEF IngestingStreamed

\* The seed stores a source of which nothing is sent, and gives it up only like that:
\* of what ML has counted in full, something was sent.
LEMMA SeedKeeps ==
    ASSUME TypeOK, JoinInv, SentInv, UnknownEmpty, IngestingStreamed,
           NEW s \in Preloaded, SeedCommit(s) \/ SeedStep(s)
    PROVE  IngestingStreamed'
<1> USE DEF Go, Fault, bounds, backend, service
<1>1. /\ s \in Task /\ s \in Process /\ s \in Source
      /\ \A q \in Task : q \in Process
      /\ \A q \in Preloaded : q \in Task
  BY Kinds
<1>2. /\ restarted' = restarted /\ sent' = sent
      /\ pc[s] \in {"idle", "checking"}
      /\ \A q \in Task : q # s => pc'[q] = pc[q] /\ target'[q] = target[q]
  <2>1. CASE SeedCommit(s)
    BY <1>1, <2>1 DEF SeedCommit, TypeOK
  <2>2. CASE SeedStream(s)
    BY <1>1, <2>2 DEF SeedStream, TypeOK
  <2>3. CASE SeedSync(s)
    BY <1>1, <2>3 DEF SeedSync, TypeOK
  <2>4. CASE SeedFails(s)
    BY <1>1, <2>4 DEF SeedFails, EndStream, TypeOK
  <2>5. QED
    BY <2>1, <2>2, <2>3, <2>4 DEF SeedStep
<1>3. \A q \in Source : q # s => status'[q] = status[q]
  BY <1>1 DEF SeedCommit, Persist, SeedStep, SeedStream, SeedSync, SeedFails, TypeOK
<1>4. ASSUME NEW q \in Source, Streamed(q)
      PROVE  Streamed(q)'
  <2>1. PICK u \in Task : target[u] = q /\ pc[u] \in {"sending", "waiting"}
    BY <1>4 DEF Streamed
  <2>2. u # s
    BY <1>2, <2>1
  <2>3. QED
    BY <1>2, <2>1, <2>2 DEF Streamed
<1>5. ASSUME NEW q \in Source, q # s, Unsent(q)
      PROVE  Unsent(q)'
  <2>1. pc'[q] = pc[q]
    BY <1>1, <1>2, <1>5 DEF Unsent
  <2>2. QED
    BY <1>2, <1>5, <2>1, UnsentFrame
<1>6. ASSUME ~restarted', status'[s] = "ingesting"
      PROVE  Streamed(s)' \/ Unsent(s)'
  <2>1. status[s] = "ingesting" => Streamed(s) \/ Unsent(s)
    BY <1>1, <1>2, <1>6 DEF IngestingStreamed
  <2>2. CASE SeedCommit(s)
    <3>1. pc[s] = "idle" /\ pc'[s] = "checking"
      BY <1>1, <2>2 DEF SeedCommit, TypeOK
    <3>2. CASE status[s] = "none"
      <4>1. RecordsOf(s) \cap sent = {}
        BY <1>1, <3>2 DEF UnknownEmpty, TypeOK
      <4>2. QED
        BY <1>2, <3>1, <4>1 DEF Unsent, RecordsOf
    <3>3. CASE status[s] # "none"
      <4>1. status[s] = "ingesting"
        BY <1>6, <2>2, <3>3 DEF SeedCommit
      <4>2. QED
        BY <1>1, <1>4, <2>1, <3>1, <4>1 DEF Unsent
    <3>4. QED
      BY <3>2, <3>3
  <2>3. CASE SeedStream(s)
    <3>1. target'[s] = s /\ pc'[s] = "sending"
      BY <1>1, <2>3 DEF SeedStream, SentInv, TypeOK
    <3>2. QED
      BY <1>1, <3>1 DEF Streamed
  <2>4. CASE SeedSync(s)
    <3>1. ~Unsent(s)
      <4>1. SUFFICES ASSUME RecordsOf(s) \cap sent = {} PROVE FALSE
        BY DEF Unsent
      <4>2. Assigned(ml, s) = {}
        BY <4>1 DEF Assigned, RecordsOf, JoinInv
      <4>3. IsFiniteSet(RecordsOf(s)) /\ RecordsOf(s) # {}
        BY MirrorAssumption, FS_Subset DEF RecordsOf
      <4>4. Cardinality(Assigned(ml, s)) = 0
        BY <4>2, FS_EmptySet
      <4>5. Cardinality(RecordsOf(s)) \in Nat /\ Cardinality(RecordsOf(s)) # 0
        BY <4>3, FS_CardinalityType, FS_EmptySet
      <4>6. QED
        BY <2>4, <4>4, <4>5 DEF SeedSync
    <3>2. status[s] = "ingesting"
      BY <1>6, <2>4 DEF SeedSync
    <3>3. QED
      BY <1>1, <1>4, <2>1, <3>1, <3>2
  <2>5. CASE SeedFails(s)
    <3>1. status[s] = "ingesting" /\ pc[s] = "checking" /\ pc'[s] = "done"
      BY <1>1, <1>6, <2>5 DEF SeedFails, EndStream, TypeOK
    <3>2. Unsent(s) => Unsent(s)'
      BY <1>2, <3>1 DEF Unsent, RecordsOf
    <3>3. QED
      BY <1>1, <1>4, <2>1, <3>1, <3>2
  <2>6. QED
    BY <2>2, <2>3, <2>4, <2>5 DEF SeedStep
<1>7. ASSUME ~restarted', NEW q \in Source, q # s, status'[q] = "ingesting"
      PROVE  Streamed(q)' \/ Unsent(q)'
  <2>1. Streamed(q) \/ Unsent(q)
    BY <1>2, <1>3, <1>7 DEF IngestingStreamed
  <2>2. QED
    BY <1>4, <1>5, <1>7, <2>1
<1>8. QED
  BY <1>6, <1>7 DEF IngestingStreamed

\* Each step keeps a stream for every source that is ingesting.
LEMMA StepStreamed ==
    ASSUME TypeOK, JoinInv, SentInv, UnknownEmpty, IngestingStreamed, [Next]_vars
    PROVE  IngestingStreamed'
<1> USE DEF backend, service, local, bounds, Go, Fault
<1>0. /\ \A t \in Task : t \in Process /\ t \notin Job /\ t \notin Poller /\ t \notin LiveRecord
      /\ \A s \in Preloaded : s \in Task
  BY Kinds
<1>1. ASSUME NEW r \in Record, Classify(r)
      PROVE  StreamsKept
  BY <1>1 DEF Classify, StreamsKept
<1>2. ASSUME NEW j \in Job, CompleteJob(j) \/ JobFails(j)
      PROVE  StreamsKept
  BY <1>2 DEF CompleteJob, JobFails, StreamsKept
<1>3. ASSUME NEW j \in Job, Trigger(j) \/ FinalStep(j)
      PROVE  StreamsKept
  <2>1. \A t \in Task : pc'[t] = pc[t]
    BY <1>0, <1>3 DEF Trigger, FinalStep, SeeJobEnd, GiveUp, MarkRecomputed, TypeOK
  <2>2. \A s \in Source : status'[s] = "ingesting" => status[s] = "ingesting"
    BY <1>3 DEF Trigger, FinalStep, SeeJobEnd, GiveUp, MarkRecomputed, TypeOK
  <2>3. UNCHANGED <<target, restarted, sent>>
    BY <1>3 DEF Trigger, FinalStep, SeeJobEnd, GiveUp, MarkRecomputed
  <2>4. QED
    BY <1>0, <2>1, <2>2, <2>3 DEF StreamsKept
<1>4. ASSUME NEW r \in LiveRecord, AddLive(r) \/ SendLive(r) \/ SendLiveFails(r)
      PROVE  StreamsKept
  <2>1. \A t \in Task : pc'[t] = pc[t]
    BY <1>0, <1>4 DEF AddLive, SendLive, SendLiveFails, TypeOK
  <2>2. \A s \in Source : status'[s] = "ingesting" => status[s] = "ingesting"
    BY <1>4 DEF AddLive, SendLive, SendLiveFails, TypeOK
  <2>3. UNCHANGED <<target, restarted>> /\ sent \subseteq sent' /\ sent' \subseteq sent \cup {r}
    BY <1>4 DEF AddLive, SendLive, SendLiveFails
  <2>4. \A s \in Preloaded : r \notin RecordsOf(s)
    BY Kinds, MirrorAssumption DEF RecordsOf, LiveRecord
  <2>5. \A s \in Preloaded : RecordsOf(s) \cap sent' = RecordsOf(s) \cap sent
    BY <2>3, <2>4
  <2>6. QED
    BY <1>0, <2>1, <2>2, <2>3, <2>5 DEF StreamsKept
<1>5. ASSUME NEW q \in Poller, Poll(q)
      PROVE  StreamsKept
  <2>1. \A t \in Task : pc'[t] = pc[t]
    BY <1>0, <1>5 DEF Poll, TypeOK
  <2>2. QED
    BY <1>0, <1>5, <2>1 DEF Poll, StreamsKept
<1>6. ASSUME NEW p \in Process, SyncStep(p)
      PROVE  StreamsKept
  <2>1. pc[p] \in {"syncing", "writing"}
    BY <1>6 DEF SyncStep, Fetch, FetchFails, Write
  <2>2. \A t \in Task : t # p => pc'[t] = pc[t] /\ target'[t] = target[t]
    BY <1>0, <1>6 DEF SyncStep, Fetch, FetchFails, Write, TypeOK
  <2>3. UNCHANGED <<status, restarted, sent>>
    BY <1>6 DEF SyncStep, Fetch, FetchFails, Write
  <2>4. QED
    BY <1>0, <2>1, <2>2, <2>3 DEF StreamsKept
<1>7. ASSUME Restart
      PROVE  IngestingStreamed'
  BY <1>7 DEF Restart, IngestingStreamed
<1>8. ASSUME UNCHANGED vars
      PROVE  StreamsKept
  BY <1>8 DEF vars, StreamsKept
<1>9. QED
  BY <1>1, <1>2, <1>3, <1>4, <1>5, <1>6, <1>7, <1>8, StreamsFrame, StartKeeps, StreamKeeps,
     SeedKeeps DEF Next, Source

\* Whatever fails and overlaps, a source that is shown as ingesting has a stream, or it
\* is a preloaded one of which the seed has not sent anything yet and perhaps, after a
\* failed count, will not.
THEOREM IngestingHasStream == Spec => []IngestingStreamed
<1>1. Init => UnknownEmpty /\ IngestingStreamed
  BY DEF Init, UnknownEmpty, IngestingStreamed
<1>2. TypeOK /\ JoinInv /\ SentInv /\ UnknownEmpty /\ IngestingStreamed /\ [Next]_vars
      => UnknownEmpty' /\ IngestingStreamed'
  BY StepStreamed, StepUnknown
<1>3. QED
  BY <1>1, <1>2, MirrorInvariant, PTL DEF Spec
===============================================================================
