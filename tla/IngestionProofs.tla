---------------------------- MODULE IngestionProofs ----------------------------
(***************************************************************************)
(* Theorems about Ingestion, for every number of workers, consumers,       *)
(* sweepers, items, cut calls, lost replies and restarts, and for every    *)
(* value of the three retry limits that IngestionAssumption admits.        *)
(***************************************************************************)
EXTENDS Ingestion, WikiQueueProofs

\* The processes that are on a job have one; who extracts has claimed its row.
OnJob == {"extract", "publish", "log", "handle", "got", "open", "integrate", "embed",
          "retry", "repush", "recover push", "restart", "restart push"}
JobFull == \A p \in Clients :
               /\ task[p] \in OnJob => job[p] \in Items
               /\ task[p] = "extract" => loaded[p].status = "processing"

RowsTyped ==
    /\ item \in [Items -> Row]
    /\ task \in [Clients -> Tasks]
    /\ job \in [Clients -> Items \cup {None}]
    /\ loaded \in [Clients -> Session]
    /\ found \in [Clients -> SUBSET Items]
    /\ beat \in [Workers -> Items \cup {None}]
    /\ restarts \in 0..MaxRestarts

Typed == TypeInv /\ RowsTyped /\ JobFull

LEMMA Processes ==
  /\ CpuWorkers \subseteq Pushers /\ CpuWorkers \subseteq Clients
  /\ Consumers \subseteq Clients /\ Sweepers \subseteq Clients
  /\ Api \in Pushers /\ Api \in Clients
  /\ Workers \subseteq Clients
  /\ Operators = {}
  BY IngestionAssumption DEF Clients, Consumers, Sweepers, Workers

-----------------------------------------------------------------------------
(* Every step is a step of the queue or leaves it alone *)

LEMMA CpuOnQueue ==
  ASSUME Typed, NEW w \in CpuWorkers, CpuStep(w)
  PROVE  QueueNext \/ UNCHANGED queueVars
<1>1. CASE Publish(w)
  <2>1. job[w] \in Items
    BY <1>1, Processes DEF Publish, PushJob, Typed, JobFull, OnJob
  <2>2. Push(w)
    BY <1>1, <2>1 DEF Publish, PushJob, Push
  <2>3. QED
    BY <2>2, Processes DEF QueueNext
<1>2. CASE \E i \in Items : Claim(w, i)
  BY <1>2 DEF Claim
<1>3. CASE Scheduled(w) \/ LoopHandles(w) \/ \E s \in Unavailable : NoTranscript(w, s)
  BY <1>3 DEF Scheduled, LoopHandles, NoTranscript
<1>4. CASE Classify(w) \/ Logged(w) \/ RestartCpuWorker(w)
  BY <1>4 DEF Classify, Logged, RestartCpuWorker
<1>5. QED
  BY <1>1, <1>2, <1>3, <1>4 DEF CpuStep

LEMMA ConsumerOnQueue ==
  ASSUME Typed, NEW c \in Consumers, ConsumerStep(c)
  PROVE  QueueNext \/ UNCHANGED queueVars
<1>1. ASSUME job[c] \in Items, PushSAdd(c, job[c]) \/ ResendSAdd(c) \/ PushRPush(c)
      PROVE  QueueNext
  BY <1>1 DEF Push, QueueNext, Consumers
<1>2. CASE PopJob(c)
  BY <1>2 DEF PopJob, Pop, QueueNext, Consumers
<1>3. CASE Repush(c) \/ RecoverPush(c)
  <2>1. job[c] \in Items
    BY <1>3, Processes DEF Repush, RecoverPush, PushJob, Typed, JobFull, OnJob
  <2>2. QED
    BY <1>1, <1>3, <2>1 DEF Repush, RecoverPush, PushJob
<1>4. CASE ReadJob(c) \/ StartJob(c) \/ Integrate(c) \/ Complete(c) \/ Retry(c)
  BY <1>4 DEF ReadJob, StartJob, Integrate, Complete, Retry
<1>5. CASE RestartConsumer(c) \/ Recovered(c) \/ \E i \in Items : RecoverOrphan(c, i)
  BY <1>5 DEF RestartConsumer, Recovered, RecoverOrphan
<1>6. QED
  BY <1>2, <1>3, <1>4, <1>5 DEF ConsumerStep

LEMMA SweeperOnQueue ==
  ASSUME Typed, NEW s \in Sweepers, SweepStep(s)
  PROVE  QueueNext \/ UNCHANGED queueVars
<1>1. found[s] \in SUBSET Items
  BY Processes DEF Typed, RowsTyped
<1>2. CASE SweepRequeue(s)
  <2>1. Clean(s)
    BY <1>1, <1>2 DEF SweepRequeue, Requeue, Clean, CleanOn
  <2>2. QED
    BY <2>1 DEF QueueNext, Sweepers
<1>3. CASE SweepProcessing(s) \/ SweepWiki(s) \/ SweepTranscribing(s) \/ SweepPendingTranscribe(s)
  BY <1>3 DEF SweepProcessing, SweepWiki, SweepTranscribing, SweepPendingTranscribe
<1>4. CASE SelectClassified(s) \/ CountRequeued(s) \/ FailExhausted(s)
  BY <1>4 DEF SelectClassified, CountRequeued, FailExhausted
<1>5. QED
  BY <1>2, <1>3, <1>4 DEF SweepStep

\* A failure cuts a call, or is a lost reply.
LEMMA FailureCuts ==
  ASSUME Failure
  PROVE  \E p \in Clients : Cut(p) \/ LostReply(p)
  BY Processes DEF Failure, CpuFails, LoopReads, LoopFails, PopFails, IntegrateFails,
     EmbedFails, JobFails, JobRaises, RepushFails, RecoverFails, SweepFails, Crash

LEMMA FailureOnQueue ==
  ASSUME Typed, Failure
  PROVE  QueueNext
<1>1. ASSUME NEW p \in Clients, Cut(p) \/ LoseReply(p)
      PROVE  QueueNext
  BY <1>1 DEF QueueNext
<1>2. ASSUME NEW p \in Clients, LostReply(p)
      PROVE  QueueNext
  <2>1. CASE p \in Consumers /\ LoseBLPop(p)
    BY <2>1 DEF QueueNext, Consumers
  <2>2. CASE p \in Pushers \cup Consumers /\ task[p] \in OnJob /\ LoseSAdd(p, job[p])
    <3>1. job[p] \in Items
      BY <2>2 DEF Typed, JobFull
    <3>2. QED
      BY <2>2, <3>1 DEF QueueNext, Consumers
  <2>3. CASE p \in Sweepers /\ \E x \in Items : LoseRequeueSAdd(p, x)
    BY <2>3 DEF QueueNext, Sweepers
  <2>4. QED
    BY <1>1, <1>2, <2>1, <2>2, <2>3 DEF LostReply, OnJob
<1>3. QED
  BY <1>1, <1>2, FailureCuts

LEMMA TimeAndAdminOnQueue ==
  ASSUME Typed, Time \/ Admin
  PROVE  QueueNext \/ UNCHANGED queueVars
<1>1. CASE Time
  BY <1>1 DEF Time, GrowOld, Due, Expire
<1>2. CASE RestartPush
  <2>1. job[Api] \in Items
    BY <1>2, Processes DEF RestartPush, Typed, JobFull, OnJob
  <2>2. Push(Api)
    BY <1>2, <2>1 DEF RestartPush, Push
  <2>3. QED
    BY <2>2, Processes DEF QueueNext
<1>3. CASE RestartSource \/ RestartItem \/ \E i \in Items : ReadRestart(i)
  BY <1>3 DEF RestartSource, RestartItem, ReadRestart
<1>4. QED
  BY <1>1, <1>2, <1>3 DEF Admin

LEMMA StepOnQueue ==
  ASSUME Typed, [Next]_vars
  PROVE  [QueueNext]_queueVars
<1>1. CASE UNCHANGED vars
  BY <1>1 DEF vars
<1>2. CASE Next
  BY <1>2, CpuOnQueue, ConsumerOnQueue, SweeperOnQueue, FailureOnQueue,
     TimeAndAdminOnQueue, Zenon DEF Next
<1>3. QED
  BY <1>1, <1>2

-----------------------------------------------------------------------------
(* Types *)

\* A field of a row may be set to any value of its type.
LEMMA RowFields ==
  ASSUME NEW r \in Row
  PROVE  /\ \A s \in Status : [r EXCEPT !.status = s] \in Row
         /\ \A a \in Age : [r EXCEPT !.started = a] \in Row
         /\ \A n \in Nat : [r EXCEPT !.retries = n] \in Row
         /\ \A b \in BOOLEAN : /\ [r EXCEPT !.deferred = b] \in Row
                               /\ [r EXCEPT !.text = b] \in Row
                               /\ [r EXCEPT !.marker = b] \in Row
                               /\ [r EXCEPT !.page = b] \in Row
  BY DEF Row

LEMMA RowValues ==
  /\ Status = {"pending", "processing", "classified", "wiki_processing", "completed",
               "failed", "pending_transcribe", "transcribing",
               "no_captions", "no_captions_t3_fail"}
  /\ Unavailable \subseteq Status
  /\ {"null", "fresh", "over 15", "over 30", "over 60"} = Age
  BY DEF Status, Unavailable, Age

\* The rows that the CPU worker writes.
LEMMA CpuRows ==
  ASSUME NEW r \in Row
  PROVE  /\ [r EXCEPT !.status = "processing", !.started = "fresh"] \in Row
         /\ [r EXCEPT !.status = "pending", !.deferred = TRUE] \in Row
         /\ \A s \in Unavailable : [r EXCEPT !.status = s, !.started = "null"] \in Row
         /\ [r EXCEPT !.status = "classified", !.started = "null", !.text = TRUE,
                      !.marker = FALSE] \in Row
<1>1. ASSUME NEW s \in Status, NEW a \in Age
      PROVE  [r EXCEPT !.status = s, !.started = a] \in Row
  <2>1. [r EXCEPT !.status = s] \in Row
    BY RowFields
  <2>2. QED
    BY <2>1, RowFields
<1>2. QED
  BY <1>1, RowValues, RowFields

\* A session writes the columns it has changed, and no other.
LEMMA FlushRow ==
  ASSUME item \in [Items -> Row], NEW i \in Items, NEW s \in Session,
         NEW st \in Status, NEW n \in Nat, NEW at \in Age
  PROVE  /\ Flush(i, s, st, n, at) \in Row
         /\ Flush(i, s, st, n, at).status = IF st = s.status THEN item[i].status ELSE st
         /\ Flush(i, s, st, n, at).retries = IF n = s.retries THEN item[i].retries ELSE n
         /\ Flush(i, s, st, n, at).text = item[i].text
<1> DEFINE a == IF st = s.status THEN item[i].status ELSE st
           b == IF n = s.retries THEN item[i].retries ELSE n
           c == IF at = "null" /\ ~s.timed THEN item[i].started ELSE at
<1>1. item[i] \in Row /\ a \in Status /\ b \in Nat /\ c \in Age
  BY DEF Row
<1>2. Flush(i, s, st, n, at) = [item[i] EXCEPT !.status = a, !.retries = b, !.started = c]
  BY DEF Flush
<1> HIDE DEF a, b, c
<1>3. LET r == [item[i] EXCEPT !.status = a, !.retries = b, !.started = c]
      IN  /\ r \in Row /\ r.status = a /\ r.retries = b /\ r.text = item[i].text
  BY <1>1 DEF Row
<1>4. QED
  BY <1>2, <1>3 DEF a, b

\* What a failed job of a CPU worker makes of a row that was read as s.
LEMMA FailedRows ==
  ASSUME item \in [Items -> Row], NEW i \in Items, NEW s \in Session, NEW pause \in BOOLEAN
  PROVE  LET r == FailedRow(i, s, pause)
         IN  /\ r \in Row /\ r.text = item[i].text
             /\ \E st \in {"pending", "failed"}, n \in Nat :
                   /\ r.status = IF st = s.status THEN item[i].status ELSE st
                   /\ r.retries = IF n = s.retries THEN item[i].retries ELSE n
                   /\ st = "failed" => n # s.retries /\ n > CpuMaxRetries
<1> DEFINE n  == IF pause THEN s.retries ELSE s.retries + 1
           st == IF pause \/ n <= CpuMaxRetries THEN "pending" ELSE "failed"
           f  == Flush(i, s, st, n, "null")
           d  == f.deferred \/ st = "pending"
<1>1. n \in Nat /\ s.retries \in Nat /\ CpuMaxRetries \in Nat
  BY IngestionAssumption DEF Session
<1>2. st \in {"pending", "failed"} /\ (st = "failed" => n # s.retries /\ n > CpuMaxRetries)
  BY <1>1
<1> HIDE DEF n, st
<1>3. /\ f \in Row /\ f.text = item[i].text
      /\ f.status = IF st = s.status THEN item[i].status ELSE st
      /\ f.retries = IF n = s.retries THEN item[i].retries ELSE n
  <2>1. st \in Status /\ "null" \in Age
    BY <1>2, RowValues
  <2>2. QED
    BY <1>1, <2>1, FlushRow
<1>4. FailedRow(i, s, pause) = [f EXCEPT !.page = FALSE, !.deferred = d]
  BY <1>3 DEF FailedRow, Row, n, st
<1> HIDE DEF f
<1>5. d \in BOOLEAN
  BY <1>3 DEF Row
<1> HIDE DEF d
<1>6. LET r == [f EXCEPT !.page = FALSE, !.deferred = d]
      IN  /\ r \in Row /\ r.text = f.text /\ r.status = f.status /\ r.retries = f.retries
  BY <1>3, <1>5 DEF Row
<1>7. QED
  BY <1>1, <1>2, <1>3, <1>4, <1>6

\* What the actions keep, besides the queue.
Kept == RowsTyped /\ JobFull

LEMMA SessionTyped ==
  /\ NoSession \in Session
  /\ item \in [Items -> Row] =>
        \A i \in Items :
          /\ Load(i) \in Session /\ LoadFailed(i) \in Session
          /\ Load(i).text = item[i].text /\ Load(i).status = item[i].status
          /\ LET s == [Load(i) EXCEPT !.status = "processing", !.timed = TRUE]
             IN  s \in Session /\ s.status = "processing"
          /\ LET s == [Load(i) EXCEPT !.timed = FALSE, !.marker = FALSE]
             IN  /\ s \in Session /\ s.text = item[i].text /\ s.status = item[i].status
  /\ \A s \in Session : [NoSession EXCEPT !.text = s.text, !.marker = s.marker] \in Session
  BY RowValues DEF NoSession, Session, Load, LoadFailed, Row

LEMMA InitKept == Init => Kept
<1> SUFFICES ASSUME Init
             PROVE  Kept
  OBVIOUS
<1>1. item \in [Items -> Row]
  BY RowAssumption DEF Init
<1>2. restarts \in 0..MaxRestarts
  BY IngestionAssumption DEF Init
<1>3. QED
  BY <1>1, <1>2, SessionTyped DEF Init, Kept, RowsTyped, JobFull, OnJob, Tasks

\* A step of p with its task, its job and its session.
LEMMA OneJob ==
  ASSUME Kept, NEW p \in Clients, NEW t \in Tasks, NEW j \in Items \cup {None},
         NEW s \in Session,
         task' = [task EXCEPT ![p] = t], job' = [job EXCEPT ![p] = j],
         loaded' = [loaded EXCEPT ![p] = s],
         t \in OnJob => j \in Items, t = "extract" => s.status = "processing",
         item' \in [Items -> Row], found' = found, restarts' = restarts,
         beat' \in [Workers -> Items \cup {None}]
  PROVE  Kept'
<1>1. RowsTyped'
  BY DEF Kept, RowsTyped
<1>2. JobFull'
  BY DEF Kept, RowsTyped, JobFull
<1>3. QED
  BY <1>1, <1>2 DEF Kept

\* A step of p with its task alone, or one that drops its job.
LEMMA OneTask ==
  ASSUME Kept, NEW p \in Clients,
         \/ /\ UNCHANGED <<job, loaded>>
            /\ \E t \in Tasks : /\ task' = [task EXCEPT ![p] = t]
                                /\ t = task[p] \/ t \notin OnJob
         \/ UNCHANGED <<task, job, loaded>>
         \/ Drop(p),
         item' \in [Items -> Row], found' = found, restarts' = restarts, beat' = beat
  PROVE  Kept'
<1>1. RowsTyped'
  <2>1. /\ task' \in [Clients -> Tasks] /\ job' \in [Clients -> Items \cup {None}]
        /\ loaded' \in [Clients -> Session]
    <3>1. CASE ~Drop(p)
      BY <3>1 DEF Kept, RowsTyped
    <3>2. CASE Drop(p)
      BY <3>2, SessionTyped DEF Kept, RowsTyped, Drop, Turn, Tasks
    <3>3. QED
      BY <3>1, <3>2
  <2>2. QED
    BY <2>1 DEF Kept, RowsTyped
<1>2. JobFull'
  <2>1. CASE Drop(p)
    <3>1. \A c \in Clients \ {p} :
             task'[c] = task[c] /\ job'[c] = job[c] /\ loaded'[c] = loaded[c]
      BY <2>1 DEF Kept, RowsTyped, Drop, Turn
    <3>2. task'[p] = "idle"
      BY <2>1 DEF Kept, RowsTyped, Drop, Turn
    <3>3. QED
      BY <3>1, <3>2 DEF Kept, JobFull, OnJob
  <2>2. CASE ~Drop(p)
    BY <2>2 DEF Kept, RowsTyped, JobFull, Turn, OnJob
  <2>3. QED
    BY <2>1, <2>2
<1>3. QED
  BY <1>1, <1>2 DEF Kept

\* The end of a CPU job.
LEMMA CpuEndKeeps ==
  ASSUME Kept, NEW w \in CpuWorkers, NEW r \in Row, CpuEnd(w, r)
  PROVE  Kept'
<1>1. item' \in [Items -> Row]
  BY DEF Kept, RowsTyped, CpuEnd
<1>2. QED
  BY <1>1, SessionTyped, Processes
  DEF Kept, RowsTyped, JobFull, OnJob, CpuEnd, Drop, Turn, Beat, Tasks, Workers

LEMMA CpuKeepsTypes ==
  ASSUME Typed, NEW w \in CpuWorkers,
         CpuStep(w) \/ CpuFails(w) \/ LoopReads(w) \/ LoopFails(w)
  PROVE  Kept'
<1>0. /\ Kept
      /\ item \in [Items -> Row]
      /\ w \in Clients /\ w \in Workers
      /\ task[w] \in {"extract", "publish", "log", "handle"} => job[w] \in Items
      /\ loaded[w] \in Session
  BY Processes DEF Typed, Kept, RowsTyped, JobFull, OnJob, Workers
<1>1. ASSUME NEW i \in Items, Claim(w, i)
      PROVE  Kept'
  <2>1. item' = [item EXCEPT ![i] = [@ EXCEPT !.status = "processing", !.started = "fresh"]]
    BY <1>0, <1>1 DEF Claim
  <2>2. item' \in [Items -> Row]
    BY <1>0, <2>1, CpuRows
  <2> DEFINE s == [Load(i) EXCEPT !.status = "processing", !.timed = TRUE]
  <2>3. s \in Session /\ s.status = "processing" /\ loaded' = [loaded EXCEPT ![w] = s]
    BY <1>0, <1>1, SessionTyped DEF Claim
  <2> HIDE DEF s
  <2>4. QED
    BY <1>0, <1>1, <2>2, <2>3
    DEF Claim, Kept, RowsTyped, JobFull, OnJob, Turn, Beat, Tasks
<1>2. CASE Scheduled(w)
  <2>1. [item[job[w]] EXCEPT !.status = "pending", !.deferred = TRUE] \in Row
    BY <1>0, <1>2, CpuRows DEF Scheduled
  <2>2. QED
    BY <1>0, <1>2, <2>1, CpuEndKeeps DEF Scheduled
<1>3. ASSUME NEW s \in Unavailable, NoTranscript(w, s)
      PROVE  Kept'
  <2>1. [item[job[w]] EXCEPT !.status = s, !.started = "null"] \in Row
    BY <1>0, <1>3, CpuRows DEF NoTranscript
  <2>2. QED
    BY <1>0, <1>3, <2>1, CpuEndKeeps DEF NoTranscript
<1>4. CASE CpuFails(w) \/ LoopHandles(w)
  <2>1. job[w] \in Items
    BY <1>0, <1>4 DEF CpuFails, LoopHandles
  <2>2. QED
    BY <1>0, <1>4, <2>1, FailedRows, CpuEndKeeps DEF CpuFails, LoopHandles
<1>5. CASE LoopReads(w)
  BY <1>0, <1>5, SessionTyped
  DEF LoopReads, Kept, RowsTyped, JobFull, OnJob, Turn, Tasks
<1>6. CASE LoopFails(w)
  BY <1>0, <1>6, CpuEndKeeps DEF LoopFails
<1>7. CASE Classify(w)
  <2>1. item' = [item EXCEPT ![job[w]] = [@ EXCEPT !.status = "classified",
                                !.started = "null", !.text = TRUE, !.marker = FALSE]]
    BY <1>0, <1>7 DEF Classify
  <2>2. item' \in [Items -> Row]
    BY <1>0, <2>1, CpuRows
  <2>3. QED
    BY <1>0, <1>7, <2>2, SessionTyped
    DEF Classify, Kept, RowsTyped, JobFull, OnJob, TurnToPush, Turn, Tasks
<1>8. CASE Publish(w)
  BY <1>0, <1>8 DEF Publish, PushJob, Kept, RowsTyped, JobFull, OnJob, Turn, Tasks
<1>9. CASE Logged(w)
  BY <1>0, <1>9, SessionTyped
  DEF Logged, Kept, RowsTyped, JobFull, OnJob, Drop, Turn, Beat, Tasks
<1>10. CASE RestartCpuWorker(w)
  BY <1>0, <1>10 DEF RestartCpuWorker, Kept, RowsTyped, JobFull, OnJob, Turn, Beat, Tasks
<1>11. QED
  BY <1>1, <1>2, <1>3, <1>4, <1>5, <1>6, <1>7, <1>8, <1>9, <1>10, Zenon DEF CpuStep

\* The rows that the consumer writes.
LEMMA ConsumerRows ==
  ASSUME NEW r \in Row, NEW b \in BOOLEAN
  PROVE  /\ [r EXCEPT !.status = "classified", !.started = "null"] \in Row
         /\ [r EXCEPT !.status = "completed"] \in Row
         /\ [r EXCEPT !.page = TRUE, !.marker = b] \in Row
<1>1. [r EXCEPT !.status = "classified"] \in Row
  BY RowFields, RowValues
<1>2. [r EXCEPT !.status = "classified", !.started = "null"] \in Row
  BY <1>1, RowFields, RowValues
<1>3. [r EXCEPT !.page = TRUE] \in Row
  BY RowFields
<1>4. [r EXCEPT !.page = TRUE, !.marker = b] \in Row
  BY <1>3, RowFields
<1>5. QED
  BY <1>2, <1>4, RowValues, RowFields

\* What a failed job of a consumer makes of a row that was read as s.
LEMMA RetriedRows ==
  ASSUME item \in [Items -> Row], NEW i \in Items, NEW s \in Session
  PROVE  LET r == RetriedRow(i, s)
         IN  /\ r \in Row /\ r.text = item[i].text
             /\ \E st \in {"classified", "failed"}, n \in Nat :
                   /\ r.status = IF st = s.status THEN item[i].status ELSE st
                   /\ r.retries = n
                   /\ st = "failed" => n > WikiMaxRetries
             /\ r.retries = s.retries + 1
<1> DEFINE n  == s.retries + 1
           st == IF n > WikiMaxRetries THEN "failed" ELSE "classified"
           f  == Flush(i, s, st, n, "null")
           d  == f.deferred \/ st = "classified"
<1>1. n \in Nat /\ n # s.retries /\ n = s.retries + 1
  BY DEF Session
<1>2. st \in {"classified", "failed"} /\ (st = "failed" => n > WikiMaxRetries)
  OBVIOUS
<1> HIDE DEF n, st
<1>3. /\ f \in Row /\ f.text = item[i].text /\ f.retries = n
      /\ f.status = IF st = s.status THEN item[i].status ELSE st
  <2>1. st \in Status /\ "null" \in Age
    BY <1>2, RowValues
  <2>2. /\ f \in Row /\ f.text = item[i].text
        /\ f.status = IF st = s.status THEN item[i].status ELSE st
        /\ f.retries = IF n = s.retries THEN item[i].retries ELSE n
    BY <1>1, <2>1, FlushRow
  <2>3. QED
    BY <1>1, <2>2
<1>4. RetriedRow(i, s) = [f EXCEPT !.deferred = d]
  BY <1>3 DEF RetriedRow, Row, n, st
<1> HIDE DEF f
<1>5. d \in BOOLEAN
  BY <1>3 DEF Row
<1> HIDE DEF d
<1>6. LET r == [f EXCEPT !.deferred = d]
      IN  /\ r \in Row /\ r.text = f.text /\ r.status = f.status /\ r.retries = f.retries
  BY <1>3, <1>5 DEF Row
<1>7. QED
  BY <1>1, <1>2, <1>3, <1>4, <1>6

LEMMA ConsumerKeepsTypes ==
  ASSUME Typed, NEW c \in Consumers, ConsumerStep(c)
  PROVE  Kept'
<1>0. /\ Kept
      /\ item \in [Items -> Row]
      /\ c \in Clients /\ c \in Workers
      /\ task[c] \in OnJob => job[c] \in Items
      /\ loaded[c] \in Session
      /\ found[c] \in SUBSET Items
      /\ pc[c] = "srem" => hand[c] \in Items
  BY Processes DEF Typed, Kept, RowsTyped, JobFull, Workers, TypeInv, HandFull
<1> USE DEF OnJob
<1>1. CASE PopJob(c)
  BY <1>0, <1>1 DEF PopJob, PopSRem, Kept, RowsTyped, JobFull, Turn, Tasks
<1>2. CASE ReadJob(c)
  BY <1>0, <1>2, SessionTyped DEF ReadJob, Kept, RowsTyped, JobFull, Turn, Tasks
<1>3. CASE StartJob(c)
  <2> DEFINE r == Flush(job[c], loaded[c], "wiki_processing", loaded[c].retries, "fresh")
             s == [NoSession EXCEPT !.text = loaded[c].text, !.marker = loaded[c].marker]
  <2>1. job[c] \in Items /\ r \in Row /\ s \in Session
    <3>1. job[c] \in Items
      BY <1>0, <1>3 DEF StartJob
    <3>2. loaded[c].retries \in Nat /\ "wiki_processing" \in Status /\ "fresh" \in Age
      BY <1>0, RowValues DEF Session
    <3>3. r \in Row
      BY <1>0, <3>1, <3>2, FlushRow
    <3>4. QED
      BY <1>0, <3>1, <3>3, SessionTyped
  <2>2. item' = [item EXCEPT ![job[c]] = r] /\ loaded' = [loaded EXCEPT ![c] = s]
    BY <1>3 DEF StartJob
  <2> HIDE DEF r, s
  <2>3. PICK t \in {"embed", "integrate"} : task' = [task EXCEPT ![c] = t]
    BY <1>3 DEF StartJob, Turn
  <2>4. /\ job' = [job EXCEPT ![c] = job[c]] /\ item' \in [Items -> Row]
        /\ beat' \in [Workers -> Items \cup {None}] /\ UNCHANGED <<found, restarts>>
    BY <1>0, <1>3, <2>1, <2>2 DEF StartJob, Beat, Kept, RowsTyped
  <2>5. t \in Tasks /\ t # "extract"
    BY <2>3 DEF Tasks
  <2>6. QED
    BY <1>0, <2>1, <2>2, <2>3, <2>4, <2>5, OneJob
<1>4. CASE Integrate(c)
  <2>1. job[c] \in Items /\ item[job[c]].marker \in BOOLEAN /\ loaded[c].text \in BOOLEAN
    BY <1>0, <1>4 DEF Integrate, Row, Session
  <2> DEFINE b == item[job[c]].marker \/ ~loaded[c].text
  <2>2. item' = [item EXCEPT ![job[c]] = [@ EXCEPT !.page = TRUE, !.marker = b]]
    BY <1>0, <1>4 DEF Integrate, Row
  <2>3. b \in BOOLEAN
    OBVIOUS
  <2> HIDE DEF b
  <2>4. item' \in [Items -> Row]
    BY <1>0, <2>2, <2>3, ConsumerRows
  <2>5. QED
    BY <1>0, <1>4, <2>4 DEF Integrate, Kept, RowsTyped, JobFull, Turn, Tasks
<1>5. CASE Complete(c)
  <2>1. item' = [item EXCEPT ![job[c]] = [@ EXCEPT !.status = "completed"]]
    BY <1>0, <1>5 DEF Complete
  <2>2. item' \in [Items -> Row]
    BY <1>0, <2>1, RowFields, RowValues
  <2>3. QED
    BY <1>0, <1>5, <2>2, SessionTyped
    DEF Complete, Kept, RowsTyped, JobFull, Drop, Turn, Beat, Tasks
<1>6. CASE Retry(c)
  <2>1. job[c] \in Items /\ RetriedRow(job[c], loaded[c]) \in Row
    BY <1>0, <1>6, RetriedRows DEF Retry
  <2>2. item' \in [Items -> Row]
    BY <1>0, <1>6, <2>1 DEF Retry
  <2>3. /\ \/ /\ task' = [task EXCEPT ![c] = "repush"] /\ job' = job
              /\ loaded' = [loaded EXCEPT ![c] = NoSession]
           \/ Drop(c)
        /\ UNCHANGED <<found, beat, restarts>>
    BY <1>6, Zenon DEF Retry, TurnToPush, Turn
  <2>4. CASE Drop(c)
    BY <1>0, <2>2, <2>3, <2>4, OneTask
  <2>5. CASE ~Drop(c)
    <3>1. job' = [job EXCEPT ![c] = job[c]] /\ beat' \in [Workers -> Items \cup {None}]
      BY <1>0, <2>3, <2>5 DEF Kept, RowsTyped
    <3>2. "repush" \in Tasks
      BY DEF Tasks
    <3>3. QED
      BY <1>0, <2>1, <2>2, <2>3, <2>5, <3>1, <3>2, OneJob, SessionTyped
  <2>6. QED
    BY <2>4, <2>5
<1>7. CASE Repush(c) \/ RecoverPush(c)
  <2>1. CASE Repush(c)
    BY <1>0, <2>1, OneTask DEF Repush
  <2>2. CASE RecoverPush(c)
    <3>1. PICK t \in {"recover push", "recover"} : task' = [task EXCEPT ![c] = t]
      BY <2>2 DEF RecoverPush, PushJob, Turn
    <3>2. t \in Tasks /\ (t = task[c] \/ t \notin OnJob)
      BY <2>2, <3>1 DEF RecoverPush, PushJob, Tasks
    <3>3. QED
      BY <1>0, <2>2, <3>1, <3>2, OneTask DEF RecoverPush
  <2>3. QED
    BY <1>7, <2>1, <2>2
<1>8. CASE RestartConsumer(c)
  BY <1>0, <1>8 DEF RestartConsumer, Kept, RowsTyped, JobFull, Turn, Beat, Tasks
<1>9. ASSUME NEW i \in Items, RecoverOrphan(c, i)
      PROVE  Kept'
  <2>1. item' = [item EXCEPT ![i] = [@ EXCEPT !.status = "classified", !.started = "null"]]
    BY <1>0, <1>9 DEF RecoverOrphan
  <2>2. item' \in [Items -> Row]
    BY <1>0, <2>1, ConsumerRows
  <2>3. QED
    BY <1>0, <1>9, <2>2 DEF RecoverOrphan, Kept, RowsTyped, JobFull, Turn, Tasks
<1>10. CASE Recovered(c)
  BY <1>0, <1>10, SessionTyped
  DEF Recovered, Kept, RowsTyped, JobFull, Drop, Turn, Tasks
<1>11. QED
  BY <1>1, <1>2, <1>3, <1>4, <1>5, <1>6, <1>7, <1>8, <1>9, <1>10, Zenon DEF ConsumerStep

\* The rows that the sweeper writes.
LEMMA SweeperRows ==
  ASSUME NEW r \in Row
  PROVE  /\ \A st \in Status : [r EXCEPT !.status = st, !.started = "null"] \in Row
         /\ [r EXCEPT !.retries = @ + 1] \in Row
<1>1. ASSUME NEW s \in Status
      PROVE  [r EXCEPT !.status = s, !.started = "null"] \in Row
  <2>1. [r EXCEPT !.status = s] \in Row
    BY RowFields
  <2>2. QED
    BY <2>1, RowFields, RowValues
<1>2. [r EXCEPT !.retries = @ + 1] \in Row
  <2>1. r.retries + 1 \in Nat
    BY DEF Row
  <2>2. QED
    BY <2>1, RowFields, Zenon
<1>3. QED
  BY <1>1, <1>2

LEMMA SweeperKeepsTypes ==
  ASSUME Typed, NEW s \in Sweepers, SweepStep(s) \/ SweepFails(s)
  PROVE  Kept'
<1>0. /\ Kept
      /\ item \in [Items -> Row]
      /\ s \in Clients
      /\ {"pending", "classified", "failed", "pending_transcribe",
          "no_captions_t3_fail"} \subseteq Status
  BY Processes, RowValues DEF Typed, Kept, RowsTyped
<1> USE DEF OnJob
<1>1. CASE SweepProcessing(s)
  <2>1. item' \in [Items -> Row]
    BY <1>0, <1>1, SweeperRows DEF SweepProcessing, UpdateRows
  <2>2. QED
    BY <1>0, <1>1, <2>1 DEF SweepProcessing, Kept, RowsTyped, JobFull, Turn, Tasks
<1>2. CASE SweepWiki(s)
  <2>1. item' \in [Items -> Row]
    BY <1>0, <1>2, SweeperRows DEF SweepWiki, UpdateRows
  <2>2. StaleWiki \subseteq Items
    BY DEF StaleWiki
  <2>3. QED
    BY <1>0, <1>2, <2>1, <2>2 DEF SweepWiki, Kept, RowsTyped, JobFull, Turn, Tasks
<1>3. CASE SweepTranscribing(s)
  <2>1. item' \in [Items -> Row]
    BY <1>0, <1>3, SweeperRows DEF SweepTranscribing, UpdateRows
  <2>2. QED
    BY <1>0, <1>3, <2>1 DEF SweepTranscribing, Kept, RowsTyped, JobFull, Turn, Tasks
<1>4. CASE SweepPendingTranscribe(s)
  <2>1. item' \in [Items -> Row]
    BY <1>0, <1>4, SweeperRows DEF SweepPendingTranscribe, UpdateRows
  <2>2. QED
    BY <1>0, <1>4, <2>1 DEF SweepPendingTranscribe, Kept, RowsTyped, JobFull, Turn, Tasks
<1>5. CASE SweepRequeue(s)
  BY <1>0, <1>5 DEF SweepRequeue, Requeue, Kept, RowsTyped, JobFull, Turn, Tasks
<1>6. CASE SelectClassified(s)
  BY <1>0, <1>6 DEF SelectClassified, Kept, RowsTyped, JobFull, Turn, Tasks
<1>7. CASE CountRequeued(s)
  <2>1. item' \in [Items -> Row]
    BY <1>0, <1>7, SweeperRows DEF CountRequeued, UpdateRows
  <2>2. QED
    BY <1>0, <1>7, <2>1 DEF CountRequeued, Kept, RowsTyped, JobFull, Turn, Tasks
<1>8. CASE FailExhausted(s)
  <2>1. item' \in [Items -> Row]
    BY <1>0, <1>8, SweeperRows DEF FailExhausted, UpdateRows
  <2>2. QED
    BY <1>0, <1>8, <2>1 DEF FailExhausted, Kept, RowsTyped, JobFull, Turn, Tasks
<1>9. CASE SweepFails(s)
  <2>1. PICK t \in Tasks \ OnJob : Turn(s, t)
    BY <1>9 DEF SweepFails, Tasks
  <2>2. t # "extract"
    BY <2>1
  <2>3. QED
    BY <1>0, <1>9, <2>1, <2>2 DEF SweepFails, Kept, RowsTyped, JobFull, Turn
<1>10. QED
  BY <1>1, <1>2, <1>3, <1>4, <1>5, <1>6, <1>7, <1>8, <1>9, Zenon DEF SweepStep

LEMMA ConsumerFailureKeepsTypes ==
  ASSUME Typed, NEW c \in Consumers,
         \/ PopFails(c) \/ IntegrateFails(c) \/ EmbedFails(c)
         \/ JobRaises(c) \/ RepushFails(c) \/ RecoverFails(c)
  PROVE  Kept'
<1>0. /\ Kept
      /\ item \in [Items -> Row]
      /\ c \in Clients /\ c \in Workers
      /\ task[c] \in OnJob => job[c] \in Items
  BY Processes DEF Typed, Kept, RowsTyped, JobFull, Workers
<1> USE DEF OnJob
<1>1. ASSUME job[c] \in Items, item' \in [Items -> Row], JobFails(c)
      PROVE  Kept'
  BY <1>0, <1>1, SessionTyped DEF JobFails, Kept, RowsTyped, JobFull, Turn, Tasks
<1>2. CASE IntegrateFails(c)
  <2>1. job[c] \in Items /\ item[job[c]].page \in BOOLEAN
    BY <1>0, <1>2 DEF IntegrateFails, Row
  <2>2. PICK created \in BOOLEAN : item' = [item EXCEPT ![job[c]] = [@ EXCEPT !.page = created]]
    BY <1>0, <1>2, <2>1 DEF IntegrateFails
  <2>3. item' \in [Items -> Row]
    BY <1>0, <2>1, <2>2, RowFields
  <2>4. QED
    BY <1>1, <1>2, <2>1, <2>3 DEF IntegrateFails
<1>3. CASE EmbedFails(c)
  BY <1>0, <1>1, <1>3 DEF EmbedFails
<1>4. CASE PopFails(c)
  BY <1>0, <1>4 DEF PopFails, Kept, RowsTyped, JobFull, Beat
<1>5. CASE JobRaises(c)
  BY <1>0, <1>5, SessionTyped
  DEF JobRaises, Kept, RowsTyped, JobFull, Drop, Turn, Beat, Tasks
<1>6. CASE RepushFails(c)
  BY <1>0, <1>6, SessionTyped
  DEF RepushFails, Kept, RowsTyped, JobFull, Drop, Turn, Tasks
<1>7. CASE RecoverFails(c)
  BY <1>0, <1>7, SessionTyped
  DEF RecoverFails, Kept, RowsTyped, JobFull, Drop, Turn, Tasks
<1>8. QED
  BY <1>2, <1>3, <1>4, <1>5, <1>6, <1>7

LEMMA CrashKeepsTypes ==
  ASSUME Typed, NEW p \in Clients, Crash(p) \/ LostReply(p)
  PROVE  Kept'
<1>1. CASE Crash(p)
  BY <1>1, SessionTyped, Processes DEF Typed, Crash, Kept, RowsTyped, JobFull, OnJob, Tasks
<1>2. CASE LostReply(p)
  BY <1>2 DEF LostReply, rowVars, Typed, Kept, RowsTyped, JobFull
<1>3. QED
  BY <1>1, <1>2

LEMMA TimeKeepsTypes ==
  ASSUME Typed, Time
  PROVE  Kept'
<1>0. /\ Kept
      /\ item \in [Items -> Row]
  BY DEF Typed, Kept, RowsTyped
<1>1. ASSUME NEW i \in Items, GrowOld(i)
      PROVE  Kept'
  <2> DEFINE older == Older(item[i].started)
  <2>1. item' = [item EXCEPT ![i] = [item[i] EXCEPT !.started = older]]
    BY <1>0, <1>1 DEF GrowOld
  <2>2. older \in Age
    BY DEF Older, Age
  <2> HIDE DEF older
  <2>3. [item[i] EXCEPT !.started = older] \in Row
    BY <1>0, <2>2, RowFields
  <2>4. item' \in [Items -> Row]
    BY <1>0, <2>1, <2>3
  <2>5. QED
    BY <1>0, <1>1, <2>4 DEF GrowOld, Kept, RowsTyped, JobFull
<1>2. ASSUME NEW i \in Items, Due(i)
      PROVE  Kept'
  <2>1. item' = [item EXCEPT ![i] = [@ EXCEPT !.deferred = FALSE]]
    BY <1>0, <1>2 DEF Due
  <2>2. item' \in [Items -> Row]
    BY <1>0, <2>1, RowFields
  <2>3. QED
    BY <1>0, <1>2, <2>2 DEF Due, Kept, RowsTyped, JobFull
<1>3. ASSUME NEW w \in Workers, Expire(w)
      PROVE  Kept'
  BY <1>0, <1>3 DEF Expire, Beat, Kept, RowsTyped, JobFull
<1>4. QED
  BY <1>1, <1>2, <1>3, Zenon DEF Time

\* What restart_item writes.
LEMMA RestartedRow ==
  ASSUME item \in [Items -> Row], NEW i \in Items, NEW s \in Session
  PROVE  LET f == Flush(i, s, NextStage(s), 0, item[i].started)
             r == [f EXCEPT !.deferred = FALSE]
         IN  /\ r \in Row /\ r.text = item[i].text
             /\ r.status = IF NextStage(s) = s.status THEN item[i].status ELSE NextStage(s)
             /\ r.retries = IF 0 = s.retries THEN item[i].retries ELSE 0
<1>1. NextStage(s) \in Status /\ item[i].started \in Age /\ 0 \in Nat
  BY RowValues DEF NextStage, Row
<1> DEFINE st == NextStage(s)
           f  == Flush(i, s, st, 0, item[i].started)
<1> HIDE DEF st
<1>2. /\ f \in Row /\ f.text = item[i].text
      /\ f.status = IF st = s.status THEN item[i].status ELSE st
      /\ f.retries = IF 0 = s.retries THEN item[i].retries ELSE 0
  BY <1>1, FlushRow DEF st
<1> HIDE DEF f
<1>3. LET r == [f EXCEPT !.deferred = FALSE]
      IN  r \in Row /\ r.text = f.text /\ r.status = f.status /\ r.retries = f.retries
  BY <1>2 DEF Row
<1>4. QED
  BY <1>2, <1>3 DEF f, st

LEMMA AdminKeepsTypes ==
  ASSUME Typed, Admin
  PROVE  Kept'
<1>0. /\ Kept
      /\ item \in [Items -> Row]
      /\ Api \in Clients
      /\ task[Api] \in OnJob => job[Api] \in Items
      /\ loaded[Api] \in Session
      /\ MaxRestarts \in Nat /\ restarts \in 0..MaxRestarts
  BY Processes, IngestionAssumption DEF Typed, Kept, RowsTyped, JobFull
<1> USE DEF OnJob
<1>1. RestartAsked => restarts' \in 0..MaxRestarts
  <2>1. ASSUME NEW m \in Nat, NEW r \in 0..m, r < m
        PROVE  r + 1 \in 0..m
    BY <2>1
  <2>2. QED
    BY <1>0, <2>1 DEF RestartAsked
<1>2. ASSUME NEW i \in Items, ReadRestart(i)
      PROVE  Kept'
  <2> DEFINE s == [Load(i) EXCEPT !.timed = FALSE, !.marker = FALSE]
  <2>1. s \in Session /\ loaded' = [loaded EXCEPT ![Api] = s]
    BY <1>0, <1>2, SessionTyped DEF ReadRestart
  <2> HIDE DEF s
  <2>2. QED
    BY <1>0, <1>1, <1>2, <2>1 DEF ReadRestart, Kept, RowsTyped, JobFull, Turn, Tasks
<1>3. CASE RestartItem
  <2> DEFINE f == Flush(job[Api], loaded[Api], NextStage(loaded[Api]), 0,
                        item[job[Api]].started)
             r == [f EXCEPT !.deferred = FALSE]
  <2>1. job[Api] \in Items /\ r \in Row
    BY <1>0, <1>3, RestartedRow DEF RestartItem
  <2>2. item' = [item EXCEPT ![job[Api]] = r]
    BY <1>3 DEF RestartItem
  <2> HIDE DEF r
  <2>3. item' \in [Items -> Row]
    BY <1>0, <2>1, <2>2
  <2>4. /\ \/ /\ task' = [task EXCEPT ![Api] = "restart push"] /\ job' = job
              /\ loaded' = [loaded EXCEPT ![Api] = NoSession]
           \/ Drop(Api)
        /\ UNCHANGED <<found, beat, restarts>>
    BY <1>3, Zenon DEF RestartItem, TurnToPush, Turn
  <2>5. CASE Drop(Api)
    BY <1>0, <2>3, <2>4, <2>5, OneTask
  <2>6. CASE ~Drop(Api)
    <3>1. job' = [job EXCEPT ![Api] = job[Api]] /\ beat' \in [Workers -> Items \cup {None}]
      BY <1>0, <2>4, <2>6 DEF Kept, RowsTyped
    <3>2. "restart push" \in Tasks
      BY DEF Tasks
    <3>3. QED
      BY <1>0, <2>1, <2>3, <2>4, <2>6, <3>1, <3>2, OneJob, SessionTyped
  <2>7. QED
    BY <2>5, <2>6
<1>4. CASE RestartSource
  <2>1. \A r \in Row, s \in Status : [r EXCEPT !.deferred = FALSE, !.status = s] \in Row
    <3>1. \A r \in Row : [r EXCEPT !.deferred = FALSE] \in Row
      BY RowFields
    <3>2. QED
      BY <3>1, RowFields
  <2>2. \A r \in Row : (IF r.status = "wiki_processing" THEN "classified" ELSE "pending")
                          \in Status
    BY RowValues
  <2>3. item' \in [Items -> Row]
    BY <1>0, <1>4, <2>1, <2>2 DEF RestartSource, UpdateRows
  <2>4. QED
    BY <1>0, <1>1, <1>4, <2>3 DEF RestartSource, Kept, RowsTyped, JobFull
<1>5. CASE RestartPush
  BY <1>0, <1>5, OneTask DEF RestartPush
<1>6. QED
  BY <1>2, <1>3, <1>4, <1>5, Zenon DEF Admin

LEMMA InitTypes == Init => Typed
  BY InitTyped, InitKept DEF Init, Typed, Kept

LEMMA StepTypes ==
  ASSUME Typed, [Next]_vars
  PROVE  Typed'
<1>1. TypeInv'
  <2>1. TypeInv
    BY DEF Typed
  <2>2. QED
    BY <2>1, StepOnQueue, StepTyped, Processes
<1>2. CASE UNCHANGED vars
  BY <1>2 DEF vars, rowVars, queueVars, Typed, TypeInv, QueueTypeOK, HandFull, NoClear,
              RowsTyped, JobFull
<1>3. ASSUME Kept'
      PROVE  Typed'
  BY <1>1, <1>3 DEF Kept, Typed
<1>4. CASE Failure
  BY <1>3, <1>4, CpuKeepsTypes, ConsumerFailureKeepsTypes, SweeperKeepsTypes,
     CrashKeepsTypes, Zenon DEF Failure
<1>5. CASE Next /\ ~Failure
  BY <1>3, <1>5, CpuKeepsTypes, ConsumerKeepsTypes, SweeperKeepsTypes,
     TimeKeepsTypes, AdminKeepsTypes, Zenon DEF Next
<1>6. QED
  BY <1>2, <1>4, <1>5

\* Every variable keeps its type; what a row, a session, a job or a heartbeat
\* refers to is always an item.
THEOREM IngestionTypeCorrect == Spec => []TypeOK
<1>1. Typed /\ [Next]_vars => Typed'
  BY StepTypes
<1>2. Typed => TypeOK
  BY DEF Typed, TypeInv, RowsTyped, TypeOK
<1>3. QED
  BY InitTypes, <1>1, <1>2, PTL DEF Spec

-----------------------------------------------------------------------------
(* The processes and the queue *)

\* Workers, consumers, sweepers and the API use the two Redis keys only through
\* the commands of WikiQueue, in the order of the calls there; a crash or an
\* exception is a call that is cut, and a lost reply is a command sent again.
THEOREM ProcessesUseQueue == Spec => UsesQueue
<1>1. Init => QueueInit
  BY DEF Init
<1>2. Typed /\ [Next]_vars => Typed' /\ [QueueNext]_queueVars
  BY StepTypes, StepOnQueue
<1>3. QED
  BY InitTypes, <1>1, <1>2, PTL DEF Spec, UsesQueue, QueueSpec

\* So what is proved of the queue for all its clients holds of the whole system:
\* however workers, consumers and sweepers interleave, retry and crash, the list
\* holds at most one copy of an item for each of them, one more, and one for each
\* reply that was lost.
THEOREM IngestionListIsBounded ==
  ASSUME IsFiniteSet(Clients)
  PROVE  Spec => []BoundedBloat
<1>1. Spec => QueueSpec
  BY ProcessesUseQueue DEF UsesQueue
<1>2. QED
  BY <1>1, ListIsBounded, Processes, PTL

-----------------------------------------------------------------------------
(* FailedWasRetried: a step that writes "failed" writes a count above the   *)
(* limit, unless it has read the row before.                                *)

NoEarlyFailure ==
    \A i \in Items : FailedEarly(item'[i]) =>
        \/ FailedEarly(item[i])
        \/ item[i].status = "failed" /\ \E p \in Clients : WritesStale(p, i)

\* A step that fails no row, and takes no count from a failed one.
LEMMA NoneFails ==
  ASSUME \A i \in Items : item'[i].status = "failed" =>
            \/ item'[i].status = item[i].status /\ item'[i].retries = item[i].retries
            \/ item'[i].retries > CpuMaxRetries,
         Typed, Typed'
  PROVE  NoEarlyFailure
<1>1. \A i \in Items : item'[i].retries \in Nat /\ CpuMaxRetries \in Nat
  BY IngestionAssumption DEF Typed, RowsTyped, Row
<1>2. QED
  BY <1>1 DEF NoEarlyFailure, FailedEarly

\* A step of p that writes status st and count n to the item i, but not the
\* columns that p has read equal.
Writes(p, i, st, n) ==
    /\ \A j \in Items \ {i} : item'[j] = item[j]
    /\ st = loaded[p].status => item'[i].status = item[i].status
    /\ st # loaded[p].status => item'[i].status = st
    /\ n = loaded[p].retries => item'[i].retries = item[i].retries
    /\ n # loaded[p].retries => item'[i].retries = n
    /\ st = "failed" => n # loaded[p].retries /\ n > CpuMaxRetries
    /\ \/ st # loaded[p].status
       \/ st = "failed"
       \/ WritesStale(p, i)

LEMMA OneFails ==
  ASSUME Typed, Typed',
         \E p \in Clients, i \in Items, st \in Status, n \in Nat : Writes(p, i, st, n)
  PROVE  NoEarlyFailure
<1>1. PICK p \in Clients, i \in Items, st \in Status, n \in Nat : Writes(p, i, st, n)
  OBVIOUS
<1>2. CpuMaxRetries \in Nat /\ item[i].retries \in Nat
  BY IngestionAssumption DEF Typed, RowsTyped, Row
<1>3. ASSUME FailedEarly(item'[i])
      PROVE  FailedEarly(item[i]) \/ (item[i].status = "failed" /\ WritesStale(p, i))
  BY <1>1, <1>2, <1>3 DEF Writes, FailedEarly
<1>4. QED
  BY <1>1, <1>3 DEF NoEarlyFailure, Writes

LEMMA CpuFailsLate ==
  ASSUME Typed, Typed', NEW w \in CpuWorkers,
         CpuStep(w) \/ CpuFails(w) \/ LoopReads(w) \/ LoopFails(w)
  PROVE  NoEarlyFailure
<1>0. /\ item \in [Items -> Row]
      /\ w \in Clients
      /\ task[w] \in {"extract", "publish", "log", "handle"} => job[w] \in Items
      /\ loaded[w] \in Session
      /\ task[w] = "extract" => loaded[w].status = "processing"
  BY Processes DEF Typed, RowsTyped, JobFull, OnJob
<1> DEFINE Unfailed == \A i \in Items : item'[i].status = "failed" =>
                          \/ item'[i].status = item[i].status /\ item'[i].retries = item[i].retries
                          \/ item'[i].retries > CpuMaxRetries
<1>1. ASSUME NEW i \in Items, Claim(w, i)
      PROVE  Unfailed
  BY <1>0, <1>1 DEF Claim, Row
<1>2. ASSUME Scheduled(w)
      PROVE  Unfailed
  BY <1>0, <1>2 DEF Scheduled, CpuEnd, Row
<1>3. ASSUME NEW s \in Unavailable, NoTranscript(w, s)
      PROVE  Unfailed
  BY <1>0, <1>3 DEF NoTranscript, CpuEnd, Row, Unavailable
<1>4. ASSUME Classify(w)
      PROVE  Unfailed
  BY <1>0, <1>4 DEF Classify, Row
<1>5. ASSUME LoopFails(w)
      PROVE  Unfailed
  BY <1>0, <1>5 DEF LoopFails, CpuEnd, Row
<1>6. ASSUME LoopReads(w) \/ Publish(w) \/ Logged(w) \/ RestartCpuWorker(w)
      PROVE  Unfailed
  BY <1>6 DEF LoopReads, Publish, Logged, RestartCpuWorker
<1>7. CASE CpuFails(w) \/ LoopHandles(w)
  <2>1. PICK pause \in BOOLEAN : CpuEnd(w, FailedRow(job[w], loaded[w], pause))
    BY <1>7 DEF CpuFails, LoopHandles
  <2>2. PICK i \in Items : i = job[w]
    BY <1>0, <1>7 DEF CpuFails, LoopHandles
  <2> DEFINE r == FailedRow(i, loaded[w], pause)
  <2>3. PICK st \in {"pending", "failed"}, n \in Nat :
           /\ r.status = IF st = loaded[w].status THEN item[i].status ELSE st
           /\ r.retries = IF n = loaded[w].retries THEN item[i].retries ELSE n
           /\ st = "failed" => n # loaded[w].retries /\ n > CpuMaxRetries
    BY <1>0, <2>2, FailedRows
  <2>4. r \in Row
    BY <1>0, <2>2, FailedRows
  <2>5. item' = [item EXCEPT ![i] = r]
    BY <2>1, <2>2 DEF CpuEnd
  <2> HIDE DEF r
  <2>6. \/ st # loaded[w].status
        \/ WritesStale(w, i)
        \/ st = "failed"
    <3>1. CASE CpuFails(w)
      BY <1>0, <2>3, <3>1 DEF CpuFails
    <3>2. CASE LoopHandles(w)
      <4>1. task[w] = "handle" /\ task'[w] = "idle"
        BY <1>0, <2>1, <3>2 DEF LoopHandles, CpuEnd, Drop, Turn, Typed, RowsTyped
      <4>2. QED
        BY <2>2, <2>3, <4>1 DEF WritesStale
    <3>3. QED
      BY <1>7, <3>1, <3>2
  <2>7. Writes(w, i, st, n)
    BY <1>0, <2>3, <2>4, <2>5, <2>6 DEF Writes, Typed, RowsTyped
  <2>8. QED
    BY <1>0, <2>7, OneFails, RowValues
<1>8. CASE Unfailed
  BY <1>8, NoneFails
<1>9. QED
  BY <1>1, <1>2, <1>3, <1>4, <1>5, <1>6, <1>7, <1>8, Zenon DEF CpuStep

LEMMA ConsumerFailsLate ==
  ASSUME Typed, Typed', NEW c \in Consumers,
         \/ ConsumerStep(c)
         \/ PopFails(c) \/ IntegrateFails(c) \/ EmbedFails(c)
         \/ JobRaises(c) \/ RepushFails(c) \/ RecoverFails(c)
  PROVE  NoEarlyFailure
<1>0. /\ item \in [Items -> Row]
      /\ c \in Clients
      /\ task[c] \in OnJob => job[c] \in Items
      /\ loaded[c] \in Session
  BY Processes DEF Typed, RowsTyped, JobFull
<1> DEFINE Unfailed == \A i \in Items : item'[i].status = "failed" =>
                          \/ item'[i].status = item[i].status /\ item'[i].retries = item[i].retries
                          \/ item'[i].retries > CpuMaxRetries
<1>1. ASSUME StartJob(c)
      PROVE  Unfailed
  <2> DEFINE r == Flush(job[c], loaded[c], "wiki_processing", loaded[c].retries, "fresh")
  <2>1. job[c] \in Items
    BY <1>0, <1>1 DEF StartJob, OnJob
  <2>2. loaded[c].retries \in Nat /\ "wiki_processing" \in Status /\ "fresh" \in Age
    BY <1>0, RowValues DEF Session
  <2>3. r.retries = item[job[c]].retries /\ r.status \in {item[job[c]].status, "wiki_processing"}
    BY <1>0, <2>1, <2>2, FlushRow
  <2>4. item' = [item EXCEPT ![job[c]] = r]
    BY <1>1 DEF StartJob
  <2> HIDE DEF r
  <2>5. QED
    BY <1>0, <2>3, <2>4
<1>2. ASSUME Integrate(c)
      PROVE  Unfailed
  BY <1>0, <1>2 DEF Integrate, Row
<1>3. ASSUME Complete(c)
      PROVE  Unfailed
  BY <1>0, <1>3 DEF Complete, Row
<1>4. ASSUME NEW i \in Items, RecoverOrphan(c, i)
      PROVE  Unfailed
  BY <1>0, <1>4 DEF RecoverOrphan, Row
<1>5. ASSUME \/ PopJob(c) \/ ReadJob(c) \/ Repush(c) \/ RestartConsumer(c) \/ RecoverPush(c)
             \/ Recovered(c) \/ PopFails(c) \/ EmbedFails(c) \/ JobRaises(c) \/ RepushFails(c)
             \/ RecoverFails(c)
      PROVE  Unfailed
  BY <1>5 DEF PopJob, ReadJob, Repush, RestartConsumer, RecoverPush, Recovered, PopFails,
              EmbedFails, JobRaises, RepushFails, RecoverFails
<1>6. ASSUME IntegrateFails(c)
      PROVE  Unfailed
  BY <1>0, <1>6 DEF IntegrateFails, Row
<1>7. CASE Retry(c)
  <2>1. PICK i \in Items : i = job[c]
    BY <1>0, <1>7 DEF Retry, OnJob
  <2> DEFINE r == RetriedRow(i, loaded[c])
  <2>2. PICK st \in {"classified", "failed"}, n \in Nat :
           /\ r.status = IF st = loaded[c].status THEN item[i].status ELSE st
           /\ r.retries = n
           /\ st = "failed" => n > WikiMaxRetries
    BY <1>0, <2>1, RetriedRows
  <2>3. r \in Row /\ r.retries = loaded[c].retries + 1
    BY <1>0, <2>1, RetriedRows
  <2>4. item' = [item EXCEPT ![i] = r]
    BY <1>7, <2>1 DEF Retry
  <2> HIDE DEF r
  <2>5. n # loaded[c].retries /\ (st = "failed" => n > CpuMaxRetries)
    BY <1>0, <2>2, <2>3, IngestionAssumption DEF Session
  <2>6. \/ st # loaded[c].status
        \/ WritesStale(c, i)
        \/ st = "failed"
    <3>1. task[c] = "retry" /\ task'[c] \in {"idle", "repush"}
      BY <1>0, <1>7 DEF Retry, Drop, TurnToPush, Turn, Typed, RowsTyped
    <3>2. QED
      BY <2>1, <2>2, <3>1 DEF WritesStale
  <2>7. Writes(c, i, st, n)
    BY <1>0, <2>2, <2>3, <2>4, <2>5, <2>6 DEF Writes, Typed, RowsTyped
  <2>8. QED
    BY <1>0, <2>7, OneFails, RowValues
<1>8. CASE Unfailed
  BY <1>8, NoneFails
<1>9. QED
  BY <1>1, <1>2, <1>3, <1>4, <1>5, <1>6, <1>7, <1>8, Zenon DEF ConsumerStep

LEMMA SweeperFailsLate ==
  ASSUME Typed, Typed', NEW s \in Sweepers, SweepStep(s) \/ SweepFails(s)
  PROVE  NoEarlyFailure
<1>0. /\ item \in [Items -> Row]
      /\ \A i \in Items : item[i].retries \in Nat
      /\ CpuMaxRetries \in Nat /\ WikiMaxRetries \in Nat /\ CpuMaxRetries <= WikiMaxRetries
      /\ RecoveryMax \in Nat /\ WikiMaxRetries < RecoveryMax
  BY IngestionAssumption DEF Typed, RowsTyped, Row
<1>1. CASE \/ SweepProcessing(s) \/ SweepWiki(s)
           \/ SweepTranscribing(s) \/ SweepPendingTranscribe(s)
  <2> DEFINE Spared == \A i \in Items : item'[i] = item[i] \/ item'[i].status # "failed"
  <2>1. ASSUME SweepProcessing(s)
        PROVE  Spared
    BY <1>0, <2>1 DEF SweepProcessing, UpdateRows, Row
  <2>2. ASSUME SweepWiki(s)
        PROVE  Spared
    BY <1>0, <2>2 DEF SweepWiki, UpdateRows, Row
  <2>3. ASSUME SweepTranscribing(s)
        PROVE  Spared
    BY <1>0, <2>3 DEF SweepTranscribing, UpdateRows, Row
  <2>4. ASSUME SweepPendingTranscribe(s)
        PROVE  Spared
    BY <1>0, <2>4 DEF SweepPendingTranscribe, UpdateRows, Row
  <2>5. QED
    BY <1>1, <2>1, <2>2, <2>3, <2>4, NoneFails
<1>2. CASE CountRequeued(s)
  <2>1. \A i \in Items : \/ item'[i] = item[i]
                         \/ /\ item'[i].status = item[i].status
                            /\ item'[i].retries = item[i].retries + 1
    BY <1>0, <1>2 DEF CountRequeued, UpdateRows, Row
  <2>2. QED
    BY <1>0, <2>1 DEF NoEarlyFailure, FailedEarly
<1>3. CASE FailExhausted(s)
  <2>1. \A i \in Items : item[i].retries >= RecoveryMax => item[i].retries > CpuMaxRetries
    BY <1>0
  <2> DEFINE failed(r) == [r EXCEPT !.status = "failed", !.started = "null"]
  <2>2. \A r \in Row : failed(r).retries = r.retries
    BY DEF Row
  <2>3. \A i \in Items : \/ item'[i] = item[i]
                         \/ item[i].retries >= RecoveryMax /\ item'[i] = failed(item[i])
    BY <1>0, <1>3 DEF FailExhausted, UpdateRows
  <2> HIDE DEF failed
  <2>4. QED
    BY <1>0, <2>1, <2>2, <2>3, NoneFails
<1>4. CASE SweepRequeue(s) \/ SelectClassified(s) \/ SweepFails(s)
  BY <1>4, NoneFails DEF SweepRequeue, Requeue, SelectClassified, SweepFails
<1>5. QED
  BY <1>1, <1>2, <1>3, <1>4, Zenon DEF SweepStep

LEMMA OthersFailLate ==
  ASSUME Typed, Typed',
         Time \/ Admin \/ (\E p \in Clients : Crash(p) \/ LostReply(p)) \/ UNCHANGED vars
  PROVE  NoEarlyFailure
<1>0. item \in [Items -> Row]
  BY DEF Typed, RowsTyped
<1>1. ASSUME NEW i \in Items, GrowOld(i) \/ Due(i)
      PROVE  NoEarlyFailure
  <2> DEFINE Same == \A j \in Items : /\ item'[j].status = item[j].status
                                      /\ item'[j].retries = item[j].retries
  <2>1. ASSUME GrowOld(i)
        PROVE  Same
    BY <1>0, <2>1 DEF GrowOld, Row
  <2>2. ASSUME Due(i)
        PROVE  Same
    BY <1>0, <2>2 DEF Due, Row
  <2>3. QED
    BY <1>1, <2>1, <2>2, NoneFails
<1>2. CASE RestartItem
  <2>1. /\ Api \in Clients /\ job[Api] \in Items /\ loaded[Api] \in Session
        /\ task[Api] = "restart" /\ task'[Api] \in {"idle", "restart push"}
    BY <1>2, Processes
    DEF RestartItem, Typed, RowsTyped, JobFull, OnJob, Drop, TurnToPush, Turn
  <2>0. PICK i \in Items : i = job[Api]
    BY <2>1
  <2> DEFINE st == NextStage(loaded[Api])
             f == Flush(i, loaded[Api], st, 0, item[i].started)
             r == [f EXCEPT !.deferred = FALSE]
  <2>2. /\ r \in Row
        /\ r.status = IF st = loaded[Api].status THEN item[i].status ELSE st
        /\ r.retries = IF 0 = loaded[Api].retries THEN item[i].retries ELSE 0
    BY <1>0, <2>1, RestartedRow
  <2>3. item' = [item EXCEPT ![i] = r]
    BY <1>2, <2>0 DEF RestartItem
  <2>4. st # "failed"
    BY DEF NextStage
  <2> HIDE DEF r, st
  <2>5. st # loaded[Api].status \/ WritesStale(Api, i)
    BY <2>0, <2>1, <2>4 DEF WritesStale
  <2>6. Writes(Api, i, st, 0)
    BY <1>0, <2>2, <2>3, <2>4, <2>5 DEF Writes, Typed, RowsTyped
  <2>7. st \in Status
    BY RowValues DEF st, NextStage
  <2>8. QED
    BY <2>1, <2>6, <2>7, OneFails
<1>3. CASE RestartSource
  <2>1. \A i \in Items : item'[i] = item[i] \/ item'[i].status # "failed"
    BY <1>0, <1>3 DEF RestartSource, UpdateRows, Row
  <2>2. QED
    BY <2>1, NoneFails
<1>4. CASE \/ RestartPush \/ UNCHANGED vars \/ (\E i \in Items : ReadRestart(i))
           \/ (\E p \in Clients : Crash(p) \/ LostReply(p)) \/ \E w \in Workers : Expire(w)
  BY <1>4, NoneFails DEF RestartPush, ReadRestart, vars, rowVars, Crash, LostReply, Expire
<1>5. QED
  BY <1>1, <1>2, <1>3, <1>4, Zenon DEF Time, Admin

\* No item is failed for good before its CPU retries are used up, whoever fails
\* it (a worker with a count it read long ago, a consumer, or a sweeper), but by a
\* process that writes back, without the status, what it read before the item
\* failed.
THEOREM FailedOnlyAfterRetries == Spec => FailedWasRetried
<1>1. ASSUME Typed, [Next]_vars
      PROVE  Typed' /\ NoEarlyFailure
  <2>1. Typed'
    BY <1>1, StepTypes
  <2>2. CASE Failure
    BY <1>1, <2>1, <2>2, CpuFailsLate, ConsumerFailsLate, SweeperFailsLate, OthersFailLate,
       Zenon DEF Failure
  <2>3. CASE ~Failure
    BY <1>1, <2>1, <2>3, CpuFailsLate, ConsumerFailsLate, SweeperFailsLate, OthersFailLate,
       Zenon DEF Next
  <2>4. QED
    BY <2>1, <2>2, <2>3
<1>2. Typed /\ [Next]_vars => Typed' /\ NoEarlyFailure
  BY <1>1
<1>3. NoEarlyFailure => [NoEarlyFailure]_vars
  OBVIOUS
<1>4. QED
  BY InitTypes, <1>2, PTL DEF Spec, FailedWasRetried, NoEarlyFailure
-----------------------------------------------------------------------------
(* WikiStageHasTranscript: whatever reaches the wiki stage has a transcript. *)

Stage == {"classified", "wiki_processing", "completed"}

\* p has an item in its hand.
Carries(p) == pc[p] \in {"sadd", "rpush", "srem"}

\* The items of T are the only ones on the list, in a hand or about to be
\* re-queued.
QueueWithin(T) ==
    /\ Range(queue) \subseteq T
    /\ \A p \in Clients : (Carries(p) => hand[p] \in T) /\ todo[p] \subseteq T

\* The tasks whose job need not have a transcript: a worker extracts it or handles
\* a failure of that, and the API has yet to choose the stage.
NotYet == {"extract", "handle", "restart"}

StageText == \A i \in Items : item[i].status \in Stage => item[i].text
ItsText(p) ==
    /\ \A i \in found[p] : item[i].text
    /\ job[p] \in Items /\ task[p] \notin NotYet => item[job[p]].text
    /\ task[p] \in {"extract", "handle"} => p \in CpuWorkers
    /\ task[p] = "restart" =>
         p = Api /\ (NextStage(loaded[p]) = "classified" => item[job[p]].text)

RowsText == StageText /\ \A p \in Clients : ItsText(p)

Texts == {i \in Items : item[i].text}

TextInv == Typed /\ QueueWithin(Texts) /\ RowsText

-----------------------------------------------------------------------------
(* The queue *)

LEMMA CommandWithin ==
  ASSUME TypeInv, NEW T, QueueWithin(T),
         \/ \E p \in Clients, x \in T : x \in Items /\ (PushSAdd(p, x) \/ LoseSAdd(p, x))
         \/ \E p \in Clients : PushRPush(p) \/ ResendSAdd(p) \/ LoseReply(p)
         \/ \E p \in Clients : PopBLPop(p) \/ PopSRem(p) \/ LoseBLPop(p)
         \/ \E p \in Clients, ids \in SUBSET Items : ids \subseteq T /\ CleanSMembers(p, ids)
         \/ \E p \in Clients : CleanLRange(p) \/ CleanSRem(p) \/ RequeueDone(p)
         \/ \E p \in Clients, x \in Items : RequeueSAdd(p, x) \/ LoseRequeueSAdd(p, x)
         \/ \E p \in Clients : Cut(p)
         \/ UNCHANGED queueVars
  PROVE  QueueWithin(T)'
<1> USE DEF Carries
<1>t. /\ queue \in Seq(Items)
      /\ pc \in [Clients -> Commands]
      /\ hand \in [Clients -> Items \cup {None}]
      /\ todo \in [Clients -> SUBSET Items]
      /\ HandFull /\ NoClear
  BY DEF TypeInv, QueueTypeOK
<1>1. ASSUME NEW p \in Clients, NEW x \in T, x \in Items, PushSAdd(p, x) \/ LoseSAdd(p, x)
      PROVE  QueueWithin(T)'
  BY <1>1, <1>t DEF PushSAdd, LoseSAdd, QueueWithin
<1>a. ASSUME NEW x \in T, x \in Items, queue' = Append(queue, x),
             \A p \in Clients : /\ (Carries(p) => hand[p] \in T)'
                                /\ todo'[p] \subseteq T
      PROVE  QueueWithin(T)'
  <2>1. Range(Append(queue, x)) = Range(queue) \cup {x}
    BY <1>a, <1>t, ListAppend
  <2>2. Range(queue') \subseteq T
    BY <1>a, <2>1 DEF QueueWithin
  <2>3. QED
    BY <1>a, <2>2 DEF QueueWithin
<1>2. ASSUME NEW p \in Clients, PushRPush(p)
      PROVE  QueueWithin(T)'
  <2>1. hand[p] \in Items /\ hand[p] \in T
    BY <1>2, <1>t DEF PushRPush, HandFull, QueueWithin
  <2>2. QED
    BY <1>2, <1>a, <1>t, <2>1 DEF PushRPush, QueueWithin, Returns
<1>3. ASSUME NEW p \in Clients, ResendSAdd(p)
      PROVE  QueueWithin(T)'
  BY <1>3, <1>t DEF ResendSAdd, QueueWithin, Returns
<1>4. ASSUME NEW p \in Clients, LoseReply(p)
      PROVE  QueueWithin(T)'
  <2>1. UNCHANGED <<pc, hand, todo>>
    BY <1>4 DEF LoseReply
  <2>2. CASE pc[p] = "rpush" /\ queue' = Append(queue, hand[p])
    <3>1. hand[p] \in Items /\ hand[p] \in T
      BY <2>2, <1>t DEF HandFull, QueueWithin
    <3>2. QED
      BY <1>a, <2>1, <2>2, <3>1 DEF QueueWithin
  <2>3. CASE UNCHANGED queue
    BY <2>1, <2>3 DEF QueueWithin
  <2>4. QED
    BY <1>t, <1>4, <2>2, <2>3 DEF LoseReply, NoClear
<1>5. ASSUME NEW p \in Clients, PopBLPop(p) \/ LoseBLPop(p)
      PROVE  QueueWithin(T)'
  <2>1. Range(queue) = Range(queue') \cup {Head(queue)}
    BY <1>5, <1>t, ListTail DEF PopBLPop, LoseBLPop
  <2>2. QED
    BY <1>5, <1>t, <2>1 DEF PopBLPop, LoseBLPop, QueueWithin
<1>6. ASSUME NEW p \in Clients, PopSRem(p)
      PROVE  QueueWithin(T)'
  BY <1>6, <1>t DEF PopSRem, QueueWithin
<1>7. ASSUME NEW p \in Clients, NEW ids \in SUBSET Items, ids \subseteq T,
             CleanSMembers(p, ids)
      PROVE  QueueWithin(T)'
  BY <1>7, <1>t DEF CleanSMembers, QueueWithin
<1>8. ASSUME NEW p \in Clients, CleanLRange(p) \/ CleanSRem(p) \/ RequeueDone(p)
      PROVE  QueueWithin(T)'
  BY <1>8, <1>t DEF CleanLRange, CleanSRem, RequeueDone, QueueWithin
<1>9. ASSUME NEW p \in Clients, NEW x \in Items, RequeueSAdd(p, x) \/ LoseRequeueSAdd(p, x)
      PROVE  QueueWithin(T)'
  BY <1>9, <1>t DEF RequeueSAdd, LoseRequeueSAdd, QueueWithin
<1>10. ASSUME NEW p \in Clients, Cut(p)
       PROVE  QueueWithin(T)'
  BY <1>10, <1>t DEF Cut, Abandon, QueueWithin
<1>11. CASE UNCHANGED queueVars
  BY <1>11 DEF queueVars, QueueWithin
<1>12. QED
  BY <1>1, <1>2, <1>3, <1>4, <1>5, <1>6, <1>7, <1>8, <1>9, <1>10, <1>11, Zenon

\* What a process pushes or re-queues has a transcript.
LEMMA StepWithin ==
  ASSUME TextInv, [Next]_vars, NEW T, T = Texts
  PROVE  QueueWithin(T)'
<1>0. /\ TypeInv
      /\ QueueWithin(T)
      /\ \A p \in Clients : task[p] \in OnJob \ NotYet => job[p] \in T /\ job[p] \in Items
      /\ \A p \in Clients : found[p] \subseteq T /\ found[p] \in SUBSET Items
  BY DEF TextInv, Typed, RowsText, ItsText, JobFull, RowsTyped, Texts, OnJob
<1>1. ASSUME NEW p \in Clients, task[p] \in OnJob \ NotYet,
             PushSAdd(p, job[p]) \/ LoseSAdd(p, job[p]) \/ ResendSAdd(p) \/ PushRPush(p)
      PROVE  QueueWithin(T)'
  BY <1>0, <1>1, CommandWithin, Zenon
<1>2. CASE UNCHANGED queueVars
  BY <1>0, <1>2, CommandWithin, Zenon
<1>3. CASE \E w \in CpuWorkers : Publish(w)
  BY <1>1, <1>3, Processes DEF Publish, PushJob, OnJob, NotYet
<1>4. CASE \E c \in Consumers : Repush(c) \/ RecoverPush(c)
  BY <1>1, <1>4, Processes DEF Repush, RecoverPush, PushJob, OnJob, NotYet
<1>5. CASE RestartPush
  BY <1>1, <1>5, Processes DEF RestartPush, OnJob, NotYet
<1>6. CASE \E c \in Consumers : PopJob(c)
  <2>1. PICK c \in Clients : PopBLPop(c) \/ PopSRem(c)
    BY <1>6, Processes DEF PopJob
  <2>2. QED
    BY <1>0, <2>1, CommandWithin, Zenon
<1>7. CASE \E s \in Sweepers : SweepRequeue(s)
  <2>1. PICK s \in Clients :
            \/ CleanSMembers(s, found[s]) \/ CleanLRange(s) \/ CleanSRem(s)
            \/ ResendSAdd(s) \/ PushRPush(s)
            \/ (\E x \in Items : RequeueSAdd(s, x)) \/ RequeueDone(s)
    BY <1>7, Processes DEF SweepRequeue, Requeue
  <2>2. QED
    BY <1>0, <2>1, CommandWithin, Zenon
<1>8. ASSUME NEW p \in Clients, LostReply(p)
      PROVE  QueueWithin(T)'
  <2>1. CASE task[p] \in OnJob \ NotYet /\ LoseSAdd(p, job[p])
    BY <1>1, <2>1
  <2>2. CASE LoseReply(p) \/ LoseBLPop(p) \/ \E x \in Items : LoseRequeueSAdd(p, x)
    BY <1>0, <2>2, CommandWithin, Zenon
  <2>3. QED
    BY <1>8, <2>1, <2>2 DEF LostReply, OnJob, NotYet
<1>9. CASE Failure
  <2>1. ASSUME NEW p \in Clients, Cut(p)
        PROVE  QueueWithin(T)'
    BY <1>0, <2>1, CommandWithin, Zenon
  <2>2. QED
    BY <1>8, <1>9, <2>1, FailureCuts
<1>10. ASSUME NEW w \in CpuWorkers, CpuStep(w), ~Publish(w)
       PROVE  UNCHANGED queueVars
  BY <1>10 DEF CpuStep, Claim, Scheduled, NoTranscript, Classify, Logged, LoopHandles,
               RestartCpuWorker
<1>11. ASSUME NEW c \in Consumers, ConsumerStep(c), ~PopJob(c), ~Repush(c), ~RecoverPush(c)
       PROVE  UNCHANGED queueVars
  BY <1>11 DEF ConsumerStep, ReadJob, StartJob, Integrate, Complete, Retry, RestartConsumer,
               RecoverOrphan, Recovered
<1>12. ASSUME NEW s \in Sweepers, SweepStep(s), ~SweepRequeue(s)
       PROVE  UNCHANGED queueVars
  BY <1>12 DEF SweepStep, SweepProcessing, SweepWiki, SweepTranscribing,
               SweepPendingTranscribe, SelectClassified, CountRequeued, FailExhausted
<1>13. ASSUME Time \/ Admin, ~RestartPush
       PROVE  UNCHANGED queueVars
  BY <1>13 DEF Time, Admin, GrowOld, Due, Expire, ReadRestart, RestartItem, RestartSource
<1>14. ASSUME UNCHANGED vars
       PROVE  UNCHANGED queueVars
  BY <1>14 DEF vars
<1>15. QED
  BY <1>2, <1>3, <1>4, <1>5, <1>6, <1>7, <1>9, <1>10, <1>11, <1>12, <1>13, <1>14, Zenon
  DEF Next

-----------------------------------------------------------------------------
(* The rows *)

\* What every step does with the rows: a transcript stays, and what enters the
\* wiki stage has one.
TextsKept == \A i \in Items : item[i].text => item'[i].text
RowsKept == RowsText' /\ TextsKept

LEMMA Sessions ==
  ASSUME TextInv
  PROVE  /\ item \in [Items -> Row]
         /\ task \in [Clients -> Tasks]
         /\ job \in [Clients -> Items \cup {None}]
         /\ loaded \in [Clients -> Session]
         /\ found \in [Clients -> SUBSET Items]
         /\ None \notin Items
         /\ RowsText
         /\ \A p \in Clients : task[p] \in OnJob => job[p] \in Items
         /\ CpuWorkers \cap Consumers = {}
         /\ CpuWorkers \cap Sweepers = {}
         /\ Api \notin CpuWorkers
         /\ Api \notin Consumers /\ Api \notin Sweepers
  BY QueueAssumption, IngestionAssumption
  DEF TextInv, Typed, RowsTyped, JobFull, Consumers, Sweepers

\* A step that writes the row of one item.
LEMMA OneRowText ==
  ASSUME TextInv, NEW i \in Items, NEW r, item' = [item EXCEPT ![i] = r],
         item[i].text => r.text,
         r.status \in Stage => r.text \/ r.status = item[i].status
  PROVE  StageText' /\ TextsKept
<1>1. item \in [Items -> Row] /\ StageText
  BY Sessions DEF RowsText
<1>2. QED
  BY <1>1 DEF StageText, TextsKept

\* Nothing but p changes what it does.
Only(p) == \A q \in Clients \ {p} : /\ task'[q] = task[q] /\ job'[q] = job[q]
                                   /\ loaded'[q] = loaded[q] /\ found'[q] = found[q]

LEMMA OneProcess ==
  ASSUME TextInv, NEW p \in Clients, StageText', TextsKept, ItsText(p)', Only(p)
  PROVE  RowsKept
<1>1. ASSUME NEW q \in Clients \ {p}
      PROVE  ItsText(q)'
  <2>1. /\ ItsText(q) /\ found[q] \subseteq Items
        /\ task[q] = "restart" => job[q] \in Items
        /\ task'[q] = task[q] /\ job'[q] = job[q]
        /\ loaded'[q] = loaded[q] /\ found'[q] = found[q]
    BY Sessions DEF RowsText, Only, OnJob
  <2>2. QED
    BY <2>1 DEF ItsText, TextsKept, NextStage
<1>2. QED
  BY <1>1 DEF RowsKept, RowsText

\* p is left with a task that needs a transcript, or with no job.
LEMMA OneSettled ==
  ASSUME TextInv, NEW p \in Clients, StageText', TextsKept, Only(p),
         task'[p] \notin NotYet,
         \/ job'[p] \notin Items
         \/ job'[p] = job[p] /\ task[p] \notin NotYet
         \/ item'[job'[p]].text,
         \A i \in found'[p] : i \in found[p] \/ item'[i].text
  PROVE  RowsKept
<1>1. ItsText(p) /\ found[p] \subseteq Items
  BY Sessions DEF RowsText
<1>2. ItsText(p)'
  BY <1>1 DEF ItsText, TextsKept, NotYet
<1>3. QED
  BY <1>2, OneProcess

\* A step that leaves the rows alone keeps their texts.
LEMMA RowsAlone ==
  ASSUME TextInv, item' = item
  PROVE  StageText' /\ TextsKept
  BY Sessions DEF RowsText, StageText, TextsKept

\* A step that leaves the processes alone.
LEMMA NoProcess ==
  ASSUME TextInv, StageText', TextsKept, UNCHANGED <<task, job, loaded, found>>
  PROVE  RowsKept
<1>1. ASSUME NEW q \in Clients
      PROVE  ItsText(q)'
  <2>1. /\ ItsText(q) /\ found[q] \subseteq Items
        /\ task[q] = "restart" => job[q] \in Items
    BY Sessions DEF RowsText, OnJob
  <2>2. QED
    BY <2>1 DEF ItsText, TextsKept, NextStage
<1>2. QED
  BY <1>1 DEF RowsKept, RowsText

\* The end of a CPU job.
LEMMA CpuEndText ==
  ASSUME TextInv, NEW w \in CpuWorkers, NEW r, job[w] \in Items, CpuEnd(w, r),
         item[job[w]].text => r.text,
         r.status \in Stage => r.status = item[job[w]].status
  PROVE  RowsKept
<1>1. item' = [item EXCEPT ![job[w]] = r]
  BY DEF CpuEnd
<1>2. StageText' /\ TextsKept
  BY <1>1, OneRowText
<1>3. Only(w) /\ task'[w] = "idle" /\ job'[w] \notin Items /\ found' = found
  BY Sessions, Processes DEF CpuEnd, Drop, Turn, Only
<1>4. QED
  BY <1>2, <1>3, OneSettled, Processes DEF NotYet

LEMMA CpuText ==
  ASSUME TextInv, NEW w \in CpuWorkers,
         CpuStep(w) \/ CpuFails(w) \/ LoopReads(w) \/ LoopFails(w)
  PROVE  RowsKept
<1>0. /\ w \in Clients
      /\ task[w] \in OnJob => job[w] \in Items
      /\ loaded[w] \in Session
      /\ item \in [Items -> Row]
  BY Sessions, Processes
<1>1. ASSUME NEW i \in Items, Claim(w, i)
      PROVE  RowsKept
  <2> DEFINE r == [item[i] EXCEPT !.status = "processing", !.started = "fresh"]
  <2>1. item' = [item EXCEPT ![i] = r]
    BY <1>0, <1>1 DEF Claim
  <2>2. r.text = item[i].text /\ r.status \notin Stage
    BY <1>0 DEF Row, Stage
  <2> HIDE DEF r
  <2>3. StageText' /\ TextsKept
    BY <2>1, <2>2, OneRowText
  <2>4. Only(w) /\ task'[w] = "extract" /\ found' = found
    BY <1>0, <1>1, Sessions DEF Claim, Turn, Only
  <2>5. ItsText(w)'
    BY <1>0, <2>3, <2>4, Sessions DEF ItsText, NotYet, RowsText, TextsKept
  <2>6. QED
    BY <1>0, <2>3, <2>4, <2>5, OneProcess
<1>2. CASE Scheduled(w)
  <2> DEFINE r == [item[job[w]] EXCEPT !.status = "pending", !.deferred = TRUE]
  <2>1. job[w] \in Items /\ CpuEnd(w, r)
    BY <1>0, <1>2 DEF Scheduled, OnJob
  <2>2. r.text = item[job[w]].text /\ r.status \notin Stage
    BY <1>0, <2>1 DEF Row, Stage
  <2> HIDE DEF r
  <2>3. QED
    BY <2>1, <2>2, CpuEndText
<1>3. ASSUME NEW s \in Unavailable, NoTranscript(w, s)
      PROVE  RowsKept
  <2> DEFINE r == [item[job[w]] EXCEPT !.status = s, !.started = "null"]
  <2>1. job[w] \in Items /\ CpuEnd(w, r)
    BY <1>0, <1>3 DEF NoTranscript, OnJob
  <2>2. r.text = item[job[w]].text /\ r.status \notin Stage
    BY <1>0, <2>1 DEF Row, Stage, Unavailable
  <2> HIDE DEF r
  <2>3. QED
    BY <2>1, <2>2, CpuEndText
<1>4. CASE CpuFails(w) \/ LoopHandles(w)
  <2>1. PICK pause \in BOOLEAN : CpuEnd(w, FailedRow(job[w], loaded[w], pause))
    BY <1>4 DEF CpuFails, LoopHandles
  <2> DEFINE r == FailedRow(job[w], loaded[w], pause)
  <2>2. job[w] \in Items
    BY <1>0, <1>4 DEF CpuFails, LoopHandles, OnJob
  <2>3. PICK st \in {"pending", "failed"}, n \in Nat :
           /\ r.text = item[job[w]].text
           /\ r.status = IF st = loaded[w].status THEN item[job[w]].status ELSE st
    BY <1>0, <2>2, FailedRows
  <2>4. r.text = item[job[w]].text /\ (r.status \in Stage => r.status = item[job[w]].status)
    BY <2>3 DEF Stage
  <2>5. CpuEnd(w, r)
    BY <2>1
  <2> HIDE DEF r
  <2>6. QED
    BY <2>2, <2>4, <2>5, CpuEndText
<1>5. CASE LoopReads(w)
  <2>1. StageText' /\ TextsKept
    BY <1>5, RowsAlone DEF LoopReads
  <2>2. Only(w) /\ task'[w] = "handle" /\ found' = found
    BY <1>0, <1>5, Sessions DEF LoopReads, Turn, Only
  <2>3. ItsText(w)'
    BY <1>0, <2>1, <2>2, Sessions DEF ItsText, NotYet, RowsText, TextsKept
  <2>4. QED
    BY <1>0, <2>1, <2>2, <2>3, OneProcess
<1>6. CASE LoopFails(w)
  BY <1>0, <1>6, CpuEndText DEF LoopFails, OnJob
<1>7. CASE Classify(w)
  <2> DEFINE r == [item[job[w]] EXCEPT !.status = "classified", !.started = "null",
                                       !.text = TRUE, !.marker = FALSE]
  <2>1. job[w] \in Items /\ item' = [item EXCEPT ![job[w]] = r]
    BY <1>0, <1>7 DEF Classify, OnJob
  <2>2. r.text
    BY <1>0, <2>1 DEF Row
  <2> HIDE DEF r
  <2>3. StageText' /\ TextsKept /\ item'[job[w]].text
    BY <1>0, <2>1, <2>2, OneRowText
  <2>4. /\ Only(w) /\ task'[w] = "publish" /\ job'[w] = job[w] /\ found' = found
    BY <1>0, <1>7, Sessions DEF Classify, TurnToPush, Turn, Only
  <2>5. QED
    BY <1>0, <2>3, <2>4, OneSettled DEF NotYet
<1>8. CASE Publish(w) \/ Logged(w) \/ RestartCpuWorker(w)
  <2>1. StageText' /\ TextsKept
    BY <1>8, RowsAlone DEF Publish, Logged, RestartCpuWorker
  <2>2. /\ Only(w) /\ task'[w] \notin NotYet /\ task[w] \notin NotYet /\ found' = found
        /\ job'[w] = job[w] \/ job'[w] \notin Items
    BY <1>0, <1>8, Sessions
    DEF Publish, PushJob, Logged, RestartCpuWorker, Drop, Turn, Only, NotYet
  <2>3. QED
    BY <1>0, <2>1, <2>2, OneSettled
<1>9. QED
  BY <1>1, <1>2, <1>3, <1>4, <1>5, <1>6, <1>7, <1>8, Zenon DEF CpuStep

LEMMA ConsumerText ==
  ASSUME TextInv, NEW c \in Consumers,
         \/ ConsumerStep(c)
         \/ PopFails(c) \/ IntegrateFails(c) \/ EmbedFails(c)
         \/ JobRaises(c) \/ RepushFails(c) \/ RecoverFails(c)
  PROVE  RowsKept
<1>0. /\ c \in Clients
      /\ task[c] \in OnJob => job[c] \in Items
      /\ task[c] \notin NotYet
      /\ job[c] \in Items => item[job[c]].text
      /\ found[c] \subseteq Items
      /\ loaded[c] \in Session
      /\ item \in [Items -> Row]
      /\ pc[c] = "srem" => hand[c] \in Items /\ item[hand[c]].text
  BY Sessions, Processes
  DEF RowsText, ItsText, NotYet, TextInv, QueueWithin, Texts, Carries
\* A step that writes the row r, whose item has a transcript.
<1>1. ASSUME NEW i \in Items, NEW r, item' = [item EXCEPT ![i] = r], r.text, item[i].text,
             Only(c), task'[c] \notin NotYet,
             job'[c] \in {job[c], i, None}, \A j \in found'[c] : j \in found[c]
      PROVE  RowsKept
  <2>1. StageText' /\ TextsKept /\ item'[i].text
    BY <1>0, <1>1, OneRowText
  <2>2. \/ job'[c] \notin Items
        \/ job'[c] = job[c] /\ task[c] \notin NotYet
        \/ item'[job'[c]].text
    BY <1>0, <1>1, <2>1, Sessions
  <2>3. QED
    BY <1>0, <1>1, <2>1, <2>2, OneSettled
\* A step that writes no row.
<1>2. ASSUME item' = item, Only(c), task'[c] \notin NotYet,
             \/ job'[c] = job[c]
             \/ job'[c] = None
             \/ pc[c] = "srem" /\ job'[c] = hand[c],
             \/ found'[c] \subseteq found[c]
             \/ found'[c] \subseteq {i \in Items : item[i].status \in Stage}
      PROVE  RowsKept
  <2>1. StageText' /\ TextsKept /\ StageText
    BY <1>2, RowsAlone, Sessions DEF RowsText
  <2>2. \/ job'[c] \notin Items
        \/ job'[c] = job[c] /\ task[c] \notin NotYet
        \/ item'[job'[c]].text
    BY <1>0, <1>2, Sessions
  <2>3. \A i \in found'[c] : i \in found[c] \/ item'[i].text
    BY <1>2, <2>1 DEF StageText
  <2>4. QED
    BY <1>0, <1>2, <2>1, <2>2, <2>3, OneSettled
<1>3. CASE StartJob(c)
  <2> DEFINE r == Flush(job[c], loaded[c], "wiki_processing", loaded[c].retries, "fresh")
  <2>1. job[c] \in Items /\ item' = [item EXCEPT ![job[c]] = r]
    BY <1>0, <1>3 DEF StartJob, OnJob
  <2>2. loaded[c].retries \in Nat /\ "wiki_processing" \in Status /\ "fresh" \in Age
    BY <1>0, RowValues DEF Session
  <2>3. r.text = item[job[c]].text
    BY <1>0, <2>1, <2>2, FlushRow
  <2> HIDE DEF r
  <2>4. Only(c) /\ task'[c] \notin NotYet /\ job' = job /\ found' = found
    BY <1>0, <1>3, Sessions DEF StartJob, Turn, Only, NotYet
  <2>5. QED
    BY <1>0, <1>1, <2>1, <2>3, <2>4
<1>4. CASE Integrate(c)
  <2> DEFINE r == [item[job[c]] EXCEPT !.page = TRUE, !.marker = @ \/ ~loaded[c].text]
  <2>1. job[c] \in Items /\ item' = [item EXCEPT ![job[c]] = r]
    BY <1>0, <1>4 DEF Integrate, OnJob
  <2>2. r.text
    BY <1>0, <2>1 DEF Row
  <2> HIDE DEF r
  <2>3. Only(c) /\ task'[c] \notin NotYet /\ job' = job /\ found' = found
    BY <1>0, <1>4, Sessions DEF Integrate, Turn, Only, NotYet
  <2>4. QED
    BY <1>0, <1>1, <2>1, <2>2, <2>3
<1>5. CASE Complete(c)
  <2> DEFINE r == [item[job[c]] EXCEPT !.status = "completed"]
  <2>1. job[c] \in Items /\ item' = [item EXCEPT ![job[c]] = r]
    BY <1>0, <1>5 DEF Complete, OnJob
  <2>2. r.text
    BY <1>0, <2>1 DEF Row
  <2> HIDE DEF r
  <2>3. Only(c) /\ task'[c] \notin NotYet /\ job'[c] = None /\ found' = found
    BY <1>0, <1>5, Sessions DEF Complete, Drop, Turn, Only, NotYet
  <2>4. QED
    BY <1>0, <1>1, <2>1, <2>2, <2>3
<1>6. CASE IntegrateFails(c)
  <2>1. PICK created \in {item[job[c]].page, TRUE} :
            item' = [item EXCEPT ![job[c]] = [item[job[c]] EXCEPT !.page = created]]
    BY <1>0, <1>6 DEF IntegrateFails, OnJob
  <2> DEFINE r == [item[job[c]] EXCEPT !.page = created]
  <2>2. job[c] \in Items /\ item' = [item EXCEPT ![job[c]] = r]
    BY <1>0, <1>6, <2>1 DEF IntegrateFails, OnJob
  <2>3. r.text
    BY <1>0, <2>2 DEF Row
  <2> HIDE DEF r
  <2>4. Only(c) /\ task'[c] \notin NotYet /\ job' = job /\ found' = found
    BY <1>0, <1>6, Sessions DEF IntegrateFails, JobFails, Turn, Only, NotYet
  <2>5. QED
    BY <1>0, <1>1, <2>2, <2>3, <2>4
<1>7. CASE Retry(c)
  <2> DEFINE r == RetriedRow(job[c], loaded[c])
  <2>1. job[c] \in Items /\ item' = [item EXCEPT ![job[c]] = r]
    BY <1>0, <1>7 DEF Retry, OnJob
  <2>2. r.text = item[job[c]].text
    BY <1>0, <2>1, RetriedRows
  <2> HIDE DEF r
  <2>3. \/ task' = [task EXCEPT ![c] = "repush"] /\ job' = job
        \/ task' = [task EXCEPT ![c] = "idle"] /\ job' = [job EXCEPT ![c] = None]
    BY <1>7, Zenon DEF Retry, TurnToPush, Drop, Turn
  <2>4. loaded' = [loaded EXCEPT ![c] = NoSession] /\ found' = found
    BY <1>7, Zenon DEF Retry, TurnToPush, Drop
  <2>5. Only(c) /\ task'[c] \notin NotYet /\ job'[c] \in {job[c], None}
    BY <1>0, <2>3, <2>4, Sessions DEF Only, NotYet
  <2>6. QED
    BY <1>0, <1>1, <2>1, <2>2, <2>4, <2>5
<1>8. ASSUME NEW i \in Items, RecoverOrphan(c, i)
      PROVE  RowsKept
  <2> DEFINE r == [item[i] EXCEPT !.status = "classified", !.started = "null"]
  <2>1. item' = [item EXCEPT ![i] = r]
    BY <1>0, <1>8 DEF RecoverOrphan
  <2>2. item[i].text
    BY <1>0, <1>8, Sessions DEF RecoverOrphan, RowsText, ItsText
  <2>3. r.text
    BY <1>0, <2>2 DEF Row
  <2> HIDE DEF r
  <2>4. Only(c) /\ task'[c] \notin NotYet /\ job'[c] = i /\ found'[c] \subseteq found[c]
    BY <1>0, <1>8, Sessions DEF RecoverOrphan, Turn, Only, NotYet
  <2>5. QED
    BY <1>1, <2>1, <2>2, <2>3, <2>4
<1>9. CASE PopJob(c)
  <2>1. item' = item /\ found' = found
    BY <1>9 DEF PopJob
  <2>2. Only(c) /\ task'[c] \notin NotYet
    BY <1>0, <1>9, Sessions DEF PopJob, Turn, Only, NotYet
  <2>3. job'[c] = job[c] \/ (pc[c] = "srem" /\ job'[c] = hand[c])
    BY <1>0, <1>9, Sessions DEF PopJob, PopSRem
  <2>4. QED
    BY <1>2, <2>1, <2>2, <2>3
<1>10. CASE RestartConsumer(c)
  BY <1>0, <1>2, <1>10, Sessions DEF RestartConsumer, Turn, Only, NotYet, Stage
<1>11. CASE ReadJob(c) \/ EmbedFails(c) \/ PopFails(c)
  <2>1. item' = item /\ found' = found /\ job' = job
    BY <1>11 DEF ReadJob, EmbedFails, JobFails, PopFails
  <2>2. Only(c) /\ task'[c] \notin NotYet
    BY <1>0, <1>11, Sessions
    DEF ReadJob, EmbedFails, JobFails, PopFails, Turn, Only, NotYet
  <2>3. QED
    BY <1>2, <2>1, <2>2
<1>12. CASE Repush(c) \/ RecoverPush(c) \/ Recovered(c) \/ JobRaises(c) \/ RepushFails(c)
            \/ RecoverFails(c)
  <2>1. item' = item /\ found'[c] \subseteq found[c]
    BY <1>0, <1>12, Sessions
    DEF Repush, RecoverPush, Recovered, JobRaises, RepushFails, RecoverFails
  <2>2. Only(c) /\ task'[c] \notin NotYet /\ (job'[c] = job[c] \/ job'[c] = None)
    <3>1. CASE Drop(c) /\ \A q \in Clients \ {c} : found'[q] = found[q]
      BY <1>0, <3>1, Sessions DEF Drop, Turn, Only, NotYet
    <3>2. CASE Repush(c) /\ ~Drop(c)
      BY <1>0, <3>2 DEF Repush, Only
    <3>3. CASE RecoverPush(c)
      BY <1>0, <3>3, Sessions DEF RecoverPush, PushJob, Turn, Only, NotYet
    <3>4. QED
      BY <1>12, <3>1, <3>2, <3>3, Sessions
      DEF Repush, Recovered, JobRaises, RepushFails, RecoverFails
  <2>3. QED
    BY <1>2, <2>1, <2>2
<1>13. QED
  BY <1>3, <1>4, <1>5, <1>6, <1>7, <1>8, <1>9, <1>10, <1>11, <1>12, Zenon DEF ConsumerStep

\* The rows that the sweeper writes.
LEMMA SweptText ==
  ASSUME NEW r \in Row
  PROVE  \A st \in {"pending", "classified", "failed", "pending_transcribe",
                    "no_captions_t3_fail"} :
            LET swept == [r EXCEPT !.status = st, !.started = "null"]
            IN  swept.text = r.text /\ swept.status = st
  BY DEF Row

LEMMA SweeperText ==
  ASSUME TextInv, NEW s \in Sweepers, SweepStep(s) \/ SweepFails(s)
  PROVE  RowsKept
<1>0. s \in Clients /\ task[s] \notin NotYet
  BY Sessions, Processes DEF RowsText, ItsText, NotYet
<1> DEFINE TextsSame == \A i \in Items : /\ item'[i].text = item[i].text
                                         /\ item'[i].status \in Stage => item[i].status \in Stage
<1>1. ASSUME TextsSame, Only(s), job' = job, task'[s] \notin NotYet,
             \A i \in found'[s] : i \in found[s] \/ (i \in Items /\ item[i].status \in Stage)
      PROVE  RowsKept
  <2>1. StageText' /\ TextsKept /\ StageText
    BY <1>1, Sessions DEF RowsText, StageText, TextsKept
  <2>2. \A i \in found'[s] : i \in found[s] \/ item'[i].text
    BY <1>1, <2>1 DEF StageText, TextsKept
  <2>3. QED
    BY <1>0, <1>1, <2>1, <2>2, OneSettled
<1>2. CASE SweepProcessing(s)
  <2>1. TextsSame
    BY <1>2, Sessions, SweptText DEF SweepProcessing, UpdateRows, Stage
  <2>2. QED
    BY <1>0, <1>1, <1>2, <2>1, Sessions DEF SweepProcessing, Turn, Only, NotYet
<1>3. CASE SweepWiki(s)
  <2>1. StaleWiki \subseteq {i \in Items : item[i].status = "wiki_processing"}
    BY DEF StaleWiki
  <2>2. TextsSame
    BY <1>3, <2>1, Sessions, SweptText DEF SweepWiki, UpdateRows, Stage
  <2>3. QED
    BY <1>0, <1>1, <1>3, <2>1, <2>2, Sessions DEF SweepWiki, Turn, Stage, Only, NotYet
<1>4. CASE SweepTranscribing(s)
  <2>1. TextsSame
    BY <1>4, Sessions, SweptText DEF SweepTranscribing, UpdateRows, Stage
  <2>2. QED
    BY <1>0, <1>1, <1>4, <2>1, Sessions DEF SweepTranscribing, Turn, Only, NotYet
<1>5. CASE SweepPendingTranscribe(s)
  <2>1. TextsSame
    BY <1>5, Sessions, SweptText DEF SweepPendingTranscribe, UpdateRows, Stage
  <2>2. QED
    BY <1>0, <1>1, <1>5, <2>1, Sessions DEF SweepPendingTranscribe, Turn, Only, NotYet
<1>6. CASE SelectClassified(s)
  BY <1>0, <1>1, <1>6, Sessions DEF SelectClassified, Turn, Stage, Only, NotYet
<1>7. CASE CountRequeued(s)
  <2>1. \A i \in Items : item'[i].text = item[i].text /\ item'[i].status = item[i].status
    BY <1>7, Sessions DEF CountRequeued, UpdateRows, Row
  <2>2. QED
    BY <1>0, <1>1, <1>7, <2>1, Sessions DEF CountRequeued, Turn, Only, NotYet
<1>8. CASE FailExhausted(s)
  <2>1. TextsSame
    BY <1>8, Sessions, SweptText DEF FailExhausted, UpdateRows, Stage
  <2>2. QED
    BY <1>0, <1>1, <1>8, <2>1, Sessions DEF FailExhausted, Turn, Only, NotYet
<1>9. CASE SweepRequeue(s)
  <2>1. UNCHANGED <<item, job, loaded, found>>
    BY <1>9 DEF SweepRequeue, Requeue
  <2>2. Only(s) /\ task'[s] \notin NotYet
    BY <1>0, <1>9, <2>1, Sessions DEF SweepRequeue, Requeue, Turn, Only, NotYet
  <2>3. QED
    BY <1>0, <1>1, <2>1, <2>2, Sessions
<1>10. CASE SweepFails(s)
  BY <1>0, <1>1, <1>10, Sessions DEF SweepFails, Turn, Only, NotYet
<1>11. QED
  BY <1>2, <1>3, <1>4, <1>5, <1>6, <1>7, <1>8, <1>9, <1>10, Zenon DEF SweepStep

LEMMA OthersText ==
  ASSUME TextInv,
         Time \/ Admin \/ (\E p \in Clients : Crash(p) \/ LostReply(p)) \/ UNCHANGED vars
  PROVE  RowsKept
<1>0. item \in [Items -> Row] /\ StageText /\ Api \in Clients
  BY Sessions, Processes DEF RowsText
<1>1. ASSUME \A i \in Items : /\ item'[i].text = item[i].text
                              /\ item'[i].status \in Stage => item[i].status \in Stage
      PROVE  StageText' /\ TextsKept
  BY <1>0, <1>1 DEF StageText, TextsKept
<1>2. ASSUME NEW i \in Items, GrowOld(i)
      PROVE  RowsKept
  <2>1. \A j \in Items : item'[j].text = item[j].text /\ item'[j].status = item[j].status
    BY <1>0, <1>2 DEF GrowOld, Row
  <2>2. QED
    BY <1>1, <1>2, <2>1, NoProcess DEF GrowOld
<1>3. ASSUME NEW i \in Items, Due(i)
      PROVE  RowsKept
  <2>1. \A j \in Items : item'[j].text = item[j].text /\ item'[j].status = item[j].status
    BY <1>0, <1>3 DEF Due, Row
  <2>2. QED
    BY <1>1, <1>3, <2>1, NoProcess DEF Due
<1>4. CASE \/ UNCHANGED vars \/ (\E w \in Workers : Expire(w))
           \/ \E p \in Clients : LostReply(p)
  <2>1. UNCHANGED <<item, task, job, loaded, found>>
    BY <1>4 DEF vars, rowVars, Expire, LostReply
  <2>2. QED
    BY <2>1, RowsAlone, NoProcess
<1>5. ASSUME NEW p \in Clients, Crash(p)
      PROVE  RowsKept
  <2>1. StageText' /\ TextsKept
    BY <1>5, RowsAlone DEF Crash
  <2>2. Only(p) /\ task'[p] \notin NotYet /\ job'[p] \notin Items /\ found'[p] = {}
    BY <1>5, Sessions DEF Crash, Only, NotYet
  <2>3. QED
    BY <2>1, <2>2, OneSettled
<1>6. ASSUME NEW i \in Items, ReadRestart(i)
      PROVE  RowsKept
  <2>1. StageText' /\ TextsKept
    BY <1>6, RowsAlone DEF ReadRestart
  <2> DEFINE s == [Load(i) EXCEPT !.timed = FALSE, !.marker = FALSE]
  <2>2. loaded' = [loaded EXCEPT ![Api] = s]
    BY <1>6 DEF ReadRestart
  <2>3. s.text = item[i].text /\ s.status = item[i].status
    BY <1>0, SessionTyped
  <2> HIDE DEF s
  <2>4. /\ Only(Api) /\ task'[Api] = "restart" /\ job'[Api] = i /\ loaded'[Api] = s
        /\ found' = found /\ item' = item
    BY <1>0, <1>6, <2>2, Sessions DEF ReadRestart, Turn, Only
  <2>5. NextStage(s) = "classified" => item[i].text
    BY <1>0, <2>3 DEF NextStage, StageText, Stage
  <2>6. ItsText(Api)'
    BY <1>0, <2>4, <2>5, Sessions DEF ItsText, NotYet, RowsText, NextStage
  <2>7. QED
    BY <1>0, <2>1, <2>4, <2>6, OneProcess
<1>7. CASE RestartItem
  <2> DEFINE st == NextStage(loaded[Api])
             f == Flush(job[Api], loaded[Api], st, 0, item[job[Api]].started)
             r == [f EXCEPT !.deferred = FALSE]
  <2>1. /\ job[Api] \in Items /\ loaded[Api] \in Session
        /\ st = "classified" => item[job[Api]].text
        /\ item' = [item EXCEPT ![job[Api]] = r] /\ found' = found
    BY <1>0, <1>7, Sessions DEF RestartItem, OnJob, RowsText, ItsText
  <2>2. r.text = item[job[Api]].text /\ r.status \in {item[job[Api]].status, st}
    BY <1>0, <2>1, RestartedRow
  <2>3. \/ /\ st = "classified" /\ task' = [task EXCEPT ![Api] = "restart push"]
           /\ job' = job /\ loaded' = [loaded EXCEPT ![Api] = NoSession]
        \/ /\ task' = [task EXCEPT ![Api] = "idle"] /\ job' = [job EXCEPT ![Api] = None]
           /\ loaded' = [loaded EXCEPT ![Api] = NoSession]
    BY <1>7, Zenon DEF RestartItem, TurnToPush, Drop, Turn
  <2>4. st \in {"classified", "pending"}
    BY DEF NextStage
  <2> HIDE DEF st, r
  <2>5. StageText' /\ TextsKept /\ (st = "classified" => item'[job[Api]].text)
    BY <1>0, <2>1, <2>2, <2>4, OneRowText DEF Stage
  <2>6. /\ Only(Api) /\ task'[Api] \notin NotYet
        /\ job'[Api] \notin Items \/ item'[job'[Api]].text
    BY <1>0, <2>1, <2>3, <2>5, Sessions DEF Only, NotYet
  <2>7. QED
    BY <1>0, <2>1, <2>5, <2>6, OneSettled
<1>8. CASE RestartSource
  <2>1. \A j \in Items : item'[j].text = item[j].text
    BY <1>0, <1>8 DEF RestartSource, UpdateRows, Row
  <2>2. \A j \in Items : item'[j].status \in Stage => item[j].status \in Stage
    BY <1>0, <1>8 DEF RestartSource, UpdateRows, Row, Stage
  <2>3. UNCHANGED <<task, job, loaded, found>>
    BY <1>8 DEF RestartSource
  <2>4. QED
    BY <1>1, <2>1, <2>2, <2>3, NoProcess
<1>9. CASE RestartPush
  <2>1. StageText' /\ TextsKept
    BY <1>9, RowsAlone DEF RestartPush
  <2>2. CASE Drop(Api)
    <3>1. /\ Only(Api) /\ task'[Api] \notin NotYet /\ job'[Api] \notin Items
          /\ found' = found
      BY <1>0, <1>9, <2>2, Sessions DEF RestartPush, Drop, Turn, Only, NotYet
    <3>2. QED
      BY <1>0, <2>1, <3>1, OneSettled
  <2>3. CASE ~Drop(Api)
    BY <1>9, <2>1, <2>3, NoProcess DEF RestartPush
  <2>4. QED
    BY <2>2, <2>3
<1>10. QED
  BY <1>2, <1>3, <1>4, <1>5, <1>6, <1>7, <1>8, <1>9, Zenon DEF Time, Admin

-----------------------------------------------------------------------------
LEMMA InitText == Init => TextInv
<1> SUFFICES ASSUME Init
             PROVE  TextInv
  OBVIOUS
<1>1. QueueWithin(Texts)
  BY DEF Init, QueueInit, QueueWithin, Carries, Range
<1>2. StageText
  BY RowAssumption DEF Init, StageText, Stage
<1>3. \A p \in Clients : ItsText(p)
  BY QueueAssumption DEF Init, ItsText
<1>4. QED
  BY <1>1, <1>2, <1>3, InitTypes DEF TextInv, RowsText

LEMMA StepText ==
  ASSUME TextInv, [Next]_vars
  PROVE  TextInv'
<1>1. Typed'
  BY StepTypes DEF TextInv
<1>2. RowsKept
  <2>1. CASE Failure
    BY <2>1, CpuText, ConsumerText, SweeperText, OthersText, Zenon DEF Failure
  <2>2. CASE ~Failure
    BY <2>2, CpuText, ConsumerText, SweeperText, OthersText, Zenon DEF Next
  <2>3. QED
    BY <2>1, <2>2
<1>3. QueueWithin(Texts)'
  <2>1. PICK T : T = Texts
    OBVIOUS
  <2>2. QueueWithin(T)'
    BY <2>1, StepWithin
  <2>3. T \subseteq Texts'
    BY <1>2, <2>1 DEF RowsKept, TextsKept, Texts
  <2>4. QED
    BY <2>2, <2>3 DEF QueueWithin
<1>4. QED
  BY <1>1, <1>2, <1>3 DEF RowsKept, TextInv

\* An item that is on the wiki queue, in a consumer's hands, or in a status of
\* the wiki stage has a transcript.
THEOREM WikiStageHasText == Spec => []WikiStageHasTranscript
<1>1. TextInv /\ [Next]_vars => TextInv'
  BY StepText
<1>2. ASSUME TextInv
      PROVE  WikiStageHasTranscript
  <2>1. \A c \in Consumers : c \in Clients /\ task[c] \notin NotYet
    BY <1>2, Processes, Sessions DEF RowsText, ItsText, NotYet
  <2>2. Outstanding \subseteq Texts
    BY <1>2 DEF TextInv, QueueWithin, Outstanding, Listed, InHand, Carries
  <2>3. QED
    BY <1>2, <2>1, <2>2, Sessions
    DEF RowsText, StageText, ItsText, Texts, Stage, WikiStageHasTranscript
<1>3. TextInv => WikiStageHasTranscript
  BY <1>2
<1>4. QED
  BY InitText, <1>1, <1>3, PTL DEF Spec

-----------------------------------------------------------------------------
(* SweeperSparesLiveJobs: what a worker is on, its heartbeat shows. *)

Working == {"extract", "integrate", "embed"}
Shown(w) == task[w] \in Working => beat[w] = job[w]
AllShown == \A w \in Workers : Shown(w)

\* A step of p, which is no other worker's.
LEMMA OneShown ==
  ASSUME Typed, AllShown, NEW p \in Clients, NEW t, NEW j, NEW b,
         task' = [task EXCEPT ![p] = t], job' = [job EXCEPT ![p] = j],
         beat' = [beat EXCEPT ![p] = b], t \in Working => b = j
  PROVE  AllShown'
BY Processes DEF Typed, RowsTyped, AllShown, Shown

\* A step of p that leaves the heartbeats alone: it is on no job, or on the one
\* that it was on.
LEMMA QuietShown ==
  ASSUME Typed, AllShown, NEW p \in Clients, NEW t, NEW j,
         task' = [task EXCEPT ![p] = t], job' = [job EXCEPT ![p] = j],
         UNCHANGED beat,
         t \in Working => j = job[p] /\ task[p] \in Working
  PROVE  AllShown'
BY Processes DEF Typed, RowsTyped, AllShown, Shown

LEMMA CpuShown ==
  ASSUME Typed, AllShown, NEW w \in CpuWorkers,
         CpuStep(w) \/ CpuFails(w) \/ LoopReads(w) \/ LoopFails(w)
  PROVE  AllShown'
<1>0. w \in Clients /\ task = [task EXCEPT ![w] = task[w]] /\ job = [job EXCEPT ![w] = job[w]]
  BY Processes DEF Typed, RowsTyped
<1>1. ASSUME NEW i \in Items, Claim(w, i)
      PROVE  AllShown'
  <2>1. /\ task' = [task EXCEPT ![w] = "extract"] /\ job' = [job EXCEPT ![w] = i]
        /\ beat' = [beat EXCEPT ![w] = i]
    BY <1>1 DEF Claim, Turn, Beat
  <2>2. QED
    BY <1>0, <2>1, OneShown
<1>2. ASSUME NEW r, CpuEnd(w, r)
      PROVE  AllShown'
  BY <1>0, <1>2, OneShown DEF CpuEnd, Drop, Turn, Beat, Working
<1>3. CASE \/ Scheduled(w) \/ CpuFails(w) \/ LoopHandles(w) \/ LoopFails(w)
           \/ \E s \in Unavailable : NoTranscript(w, s)
  BY <1>2, <1>3 DEF Scheduled, CpuFails, LoopHandles, LoopFails, NoTranscript
<1>4. CASE Classify(w) \/ LoopReads(w)
  <2>1. CASE Classify(w)
    BY <1>0, <2>1, QuietShown DEF Classify, TurnToPush, Turn, Working
  <2>2. CASE LoopReads(w)
    BY <1>0, <2>2, QuietShown DEF LoopReads, Turn, Working
  <2>3. QED
    BY <1>4, <2>1, <2>2
<1>5. CASE Publish(w)
  <2>1. PICK t \in {"publish", "log"} : task' = [task EXCEPT ![w] = t]
    BY <1>5 DEF Publish, PushJob, Turn
  <2>2. UNCHANGED <<job, beat>>
    BY <1>5 DEF Publish
  <2>3. t \notin Working
    BY DEF Working
  <2>4. QED
    BY <1>0, <2>1, <2>2, <2>3, QuietShown
<1>6. CASE Logged(w)
  BY <1>0, <1>6, OneShown DEF Logged, Drop, Turn, Beat, Working
<1>7. CASE RestartCpuWorker(w)
  BY <1>0, <1>7, OneShown DEF RestartCpuWorker, Turn, Beat, Working
<1>8. QED
  BY <1>1, <1>3, <1>4, <1>5, <1>6, <1>7, Zenon DEF CpuStep

LEMMA ConsumerShown ==
  ASSUME Typed, AllShown, NEW c \in Consumers,
         \/ ConsumerStep(c) \/ PopFails(c) \/ IntegrateFails(c) \/ EmbedFails(c)
         \/ JobRaises(c) \/ RepushFails(c) \/ RecoverFails(c)
  PROVE  AllShown'
<1>0. c \in Clients /\ task = [task EXCEPT ![c] = task[c]] /\ job = [job EXCEPT ![c] = job[c]]
  BY Processes DEF Typed, RowsTyped
<1>1. CASE UNCHANGED <<task, job, beat>>
  BY <1>1 DEF AllShown, Shown
<1>2. CASE PopJob(c)
  BY <1>0, <1>1, <1>2, QuietShown DEF PopJob, Turn, Working
<1>3. CASE StartJob(c)
  BY <1>0, <1>3, OneShown DEF StartJob, Turn, Beat
<1>4. CASE Integrate(c) \/ ReadJob(c) \/ IntegrateFails(c) \/ EmbedFails(c)
  <2>1. CASE Integrate(c)
    BY <1>0, <2>1, QuietShown DEF Integrate, Turn, Working
  <2>2. CASE ReadJob(c)
    BY <1>0, <2>2, QuietShown DEF ReadJob, Turn, Working
  <2>3. CASE JobFails(c)
    BY <1>0, <2>3, QuietShown DEF JobFails, Turn, Working
  <2>4. QED
    BY <1>4, <2>1, <2>2, <2>3 DEF IntegrateFails, EmbedFails
<1>5. CASE Complete(c) \/ JobRaises(c)
  BY <1>0, <1>5, OneShown DEF Complete, JobRaises, Drop, Turn, Beat, Working
<1>6. CASE Repush(c) \/ RepushFails(c) \/ Recovered(c) \/ RecoverFails(c)
  <2>1. CASE Repush(c)
    <3>1. CASE Drop(c)
      BY <1>0, <2>1, <3>1, QuietShown DEF Repush, Drop, Turn, Working
    <3>2. CASE UNCHANGED <<task, job>>
      BY <1>1, <2>1, <3>2 DEF Repush
    <3>3. QED
      BY <2>1, <3>1, <3>2 DEF Repush
  <2>2. CASE RepushFails(c) \/ Recovered(c)
    BY <1>0, <2>2, QuietShown DEF RepushFails, Recovered, Drop, Turn, Working
  <2>3. CASE RecoverFails(c)
    BY <1>0, <2>3, QuietShown DEF RecoverFails, Drop, Turn, Working
  <2>4. QED
    BY <1>6, <2>1, <2>2, <2>3
<1>7. CASE RestartConsumer(c) \/ PopFails(c)
  BY <1>0, <1>7, OneShown DEF RestartConsumer, PopFails, Turn, Beat, Working
<1>8. ASSUME NEW i \in Items, RecoverOrphan(c, i)
      PROVE  AllShown'
  <2>1. /\ task' = [task EXCEPT ![c] = "recover push"] /\ job' = [job EXCEPT ![c] = i]
        /\ UNCHANGED beat
    BY <1>8 DEF RecoverOrphan, Turn
  <2>2. QED
    BY <1>0, <2>1, QuietShown DEF Working
<1>9. CASE RecoverPush(c)
  <2>1. PICK t \in {"recover push", "recover"} : task' = [task EXCEPT ![c] = t]
    BY <1>9 DEF RecoverPush, PushJob, Turn
  <2>2. UNCHANGED <<job, beat>> /\ t \notin Working
    BY <1>9 DEF RecoverPush, Working
  <2>3. QED
    BY <1>0, <2>1, <2>2, QuietShown
<1>10. CASE Retry(c)
  <2>1. \/ task' = [task EXCEPT ![c] = "repush"] /\ UNCHANGED <<job, beat>>
        \/ /\ task' = [task EXCEPT ![c] = "idle"] /\ job' = [job EXCEPT ![c] = None]
           /\ UNCHANGED beat
    BY <1>10, Zenon DEF Retry, TurnToPush, Drop, Turn
  <2>2. QED
    BY <1>0, <2>1, QuietShown DEF Working
<1>11. QED
  BY <1>2, <1>3, <1>4, <1>5, <1>6, <1>7, <1>8, <1>9, <1>10, Zenon DEF ConsumerStep

LEMMA SweeperShown ==
  ASSUME Typed, AllShown, NEW s \in Sweepers, SweepStep(s) \/ SweepFails(s)
  PROVE  AllShown'
<1>1. s \in Clients /\ UNCHANGED <<job, beat>> /\ job = [job EXCEPT ![s] = job[s]]
  BY Processes DEF Typed, RowsTyped, SweepStep, SweepFails, SweepProcessing, SweepWiki,
     SweepTranscribing, SweepPendingTranscribe, SweepRequeue, Requeue, SelectClassified,
     CountRequeued, FailExhausted
<1>2. CASE UNCHANGED task
  BY <1>1, <1>2 DEF AllShown, Shown
<1> DEFINE Others == Tasks \ Working
<1>3. ASSUME NEW t \in Others, task' = [task EXCEPT ![s] = t]
      PROVE  AllShown'
  BY <1>1, <1>3, QuietShown
<1>4. /\ "sweep wiki" \in Others /\ "sweep transcribing" \in Others /\ "sweep pending" \in Others
      /\ "requeue revived" \in Others /\ "select classified" \in Others
      /\ "requeue classified" \in Others /\ "count" \in Others
      /\ "fail" \in Others /\ "idle" \in Others
  BY DEF Tasks, Working
<1> HIDE DEF Others
<1>5. UNCHANGED task \/ \E t \in Others : task' = [task EXCEPT ![s] = t]
  <2>1. CASE SweepFails(s)
    BY <1>4, <2>1 DEF SweepFails, Turn
  <2>2. CASE SweepRequeue(s)
    BY <1>4, <2>2 DEF SweepRequeue, Requeue, Turn
  <2>3. CASE SweepStep(s) /\ ~SweepRequeue(s)
    BY <1>4, <2>3 DEF SweepStep, SweepProcessing, SweepWiki, SweepTranscribing,
       SweepPendingTranscribe,       SelectClassified, CountRequeued, FailExhausted, Turn
  <2>4. QED
    BY <2>1, <2>2, <2>3
<1>6. QED
  BY <1>2, <1>3, <1>5

LEMMA OthersShown ==
  ASSUME Typed, AllShown, 
         \/ Time \/ Admin \/ UNCHANGED vars
         \/ \E p \in Clients : Crash(p) \/ LostReply(p)
  PROVE  AllShown'
<1>0. Api \in Clients /\ task = [task EXCEPT ![Api] = task[Api]]
      /\ job = [job EXCEPT ![Api] = job[Api]]
  BY Processes DEF Typed, RowsTyped
<1>1. CASE UNCHANGED <<task, job, beat>>
  BY <1>1 DEF AllShown, Shown
<1>2. CASE \/ UNCHANGED vars \/ RestartSource \/ (\E i \in Items : GrowOld(i) \/ Due(i))
           \/ \E p \in Clients : LostReply(p)
  BY <1>1, <1>2 DEF vars, rowVars, RestartSource, GrowOld, Due, LostReply
<1>3. ASSUME NEW w \in Workers, Expire(w)
      PROVE  AllShown'
  <2>1. w \in Clients /\ task = [task EXCEPT ![w] = task[w]] /\ job = [job EXCEPT ![w] = job[w]]
    BY Processes DEF Typed, RowsTyped
  <2>2. task[w] \notin Working /\ UNCHANGED <<task, job>> /\ beat' = [beat EXCEPT ![w] = None]
    BY <1>3 DEF Expire, Beat, Working
  <2>3. QED
    BY <2>1, <2>2, OneShown
<1>4. ASSUME NEW p \in Clients, Crash(p)
      PROVE  AllShown'
  <2>1. PICK t \in {"down", "idle"} : task' = [task EXCEPT ![p] = t]
    BY <1>4 DEF Crash
  <2>2. job' = [job EXCEPT ![p] = None] /\ UNCHANGED beat /\ t \notin Working
    BY <1>4 DEF Crash, Working
  <2>3. QED
    BY <2>1, <2>2, QuietShown
<1>5. CASE RestartPush
  <2>1. CASE Drop(Api) /\ UNCHANGED beat
    BY <1>0, <1>1, <2>1, QuietShown DEF Drop, Turn, Working
  <2>2. CASE UNCHANGED <<task, job, beat>>
    BY <1>0, <2>2 DEF AllShown, Shown
  <2>3. QED
    BY <1>5, <2>1, <2>2 DEF RestartPush
<1>6. CASE RestartItem
  <2>1. \/ task' = [task EXCEPT ![Api] = "restart push"] /\ UNCHANGED <<job, beat>>
        \/ /\ task' = [task EXCEPT ![Api] = "idle"] /\ job' = [job EXCEPT ![Api] = None]
           /\ UNCHANGED beat
    BY <1>6, Zenon DEF RestartItem, TurnToPush, Drop, Turn
  <2>2. PICK t \in {"restart push", "idle"}, j \in {job[Api], None} :
           /\ task' = [task EXCEPT ![Api] = t]
           /\ job' = [job EXCEPT ![Api] = j]
           /\ UNCHANGED beat
    BY <1>0, <2>1
  <2>3. t \notin Working
    BY DEF Working
  <2>4. QED
    BY <1>0, <2>2, <2>3, QuietShown
<1>7. ASSUME NEW i \in Items, ReadRestart(i)
      PROVE  AllShown'
  <2>1. /\ task' = [task EXCEPT ![Api] = "restart"] /\ job' = [job EXCEPT ![Api] = i]
        /\ UNCHANGED beat
    BY <1>7 DEF ReadRestart, Turn
  <2>2. QED
    BY <1>0, <2>1, QuietShown DEF Working
<1>8. QED
  BY <1>2, <1>3, <1>4, <1>5, <1>6, <1>7 DEF Time, Admin

LEMMA StepShown ==
  ASSUME Typed, AllShown, [Next]_vars
  PROVE  AllShown'
<1>1. CASE Failure
  BY <1>1, CpuShown, ConsumerShown, SweeperShown, OthersShown, Zenon DEF Failure
<1>2. CASE ~Failure
  BY <1>2, CpuShown, ConsumerShown, SweeperShown, OthersShown, Zenon DEF Next
<1>3. QED
  BY <1>1, <1>2

\* No sweep changes the row of an item that a live worker extracts, integrates or
\* embeds, however old its started_at is: the worker's heartbeat shows it, and the
\* two updates of _sweep_once leave out what a recent heartbeat shows.
THEOREM SweepsSpareLiveJobs == Spec => SweeperSparesLiveJobs
<1>1. Init => Typed /\ AllShown
  BY InitTypes, Processes DEF Init, AllShown, Shown, Working
<1>2. Typed /\ AllShown /\ [Next]_vars => (Typed /\ AllShown)'
  BY StepTypes, StepShown
<1> DEFINE Spared == \A s \in Sweepers : SweepProcessing(s) \/ SweepWiki(s) =>
                        \A i \in Items : Live(i) => item'[i] = item[i]
<1>3. AllShown => Spared
  <2> SUFFICES ASSUME AllShown, NEW s \in Sweepers, SweepProcessing(s) \/ SweepWiki(s),
                      NEW i \in Items, Live(i)
               PROVE  item'[i] = item[i]
    OBVIOUS
  <2>1. PICK w \in Workers : task[w] \in Working /\ job[w] = i
    BY DEF Live, Extracting, Workers, Working
  <2>2. i \in Beating
    BY <2>1 DEF AllShown, Shown, Beating
  <2>3. QED
    BY <2>2 DEF SweepProcessing, SweepWiki, StaleWiki, UpdateRows
<1>4. Spec => [](Typed /\ AllShown)
  BY <1>1, <1>2, PTL DEF Spec
<1>5. QED
  BY <1>3, <1>4, PTL DEF SweeperSparesLiveJobs
=============================================================================
