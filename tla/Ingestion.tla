------------------------------ MODULE Ingestion ------------------------------
(***************************************************************************)
(* The life of a source item (a row of source_items) from the scan to the  *)
(* wiki, with every process that writes the row:                           *)
(*   - the CPU workers (infrastructure/entrypoints/cpu_worker.py) claim,   *)
(*     extract, classify and publish;                                      *)
(*   - the wiki consumers (infrastructure/entrypoints/wiki_consumer.py)    *)
(*     pop, integrate, embed and complete;                                 *)
(*   - the sweepers (application/use_cases/ingestion/stale_recovery.py),   *)
(*     one in every CPU worker, repair what crashes leave behind;          *)
(*   - the admin API (presentation/routes/admin.py) restarts items.        *)
(* They meet in three places: the row, the wiki queue (module WikiQueue,   *)
(* whose commands are used here one by one) and the heartbeat table.       *)
(*                                                                         *)
(* An action is one database transaction, or one Redis command, or the     *)
(* local computation between them.  Where a session reads a row without a  *)
(* lock, goes on to something else and writes the row later, the read and  *)
(* the write are two actions; the write then touches only the columns that *)
(* differ from what the session read (SQLAlchemy's unit of work).          *)
(* Time enters only through what the code compares with a threshold: the   *)
(* age of started_at, whether retry_after has passed, and whether a        *)
(* heartbeat is recent.                                                    *)
(***************************************************************************)
EXTENDS WikiQueue

CONSTANTS
    CpuWorkers,
    Api,             \* the admin API's process
    CpuMaxRetries,   \* 2 in handle_job_failure
    WikiMaxRetries,  \* 5, WIKI_MAX_RETRIES
    RecoveryMax,     \* 10, MAX_RECOVERY_RETRIES
    InitialRows,     \* the rows that the database may hold at the start
    MaxRestarts      \* bound: restarts asked of the admin API

Consumers == Poppers
Sweepers == Cleaners
Workers == CpuWorkers \cup Consumers    \* the processes with a heartbeat

ASSUME IngestionAssumption ==
    /\ Pushers = CpuWorkers \cup {Api}
    /\ Api \notin CpuWorkers
    /\ Operators = {}
    /\ CpuMaxRetries \in Nat
    /\ WikiMaxRetries \in Nat /\ CpuMaxRetries <= WikiMaxRetries
    /\ RecoveryMax \in Nat /\ WikiMaxRetries < RecoveryMax
    /\ MaxRestarts \in Nat

VARIABLES
    item,      \* item[i]: the row of i, its page included
    task,      \* task[p]: what process p is doing
    job,       \* job[p]: the item it works on
    loaded,    \* loaded[p]: the row as p's database session read it
    found,     \* found[p]: the ids that a recovery query returned to p
    beat,      \* beat[w]: current_job_id of w's heartbeat row, if recent
    restarts

rowVars == <<item, task, job, loaded, found, beat, restarts>>
vars == <<queueVars, rowVars>>

-----------------------------------------------------------------------------
(* The row *)

\* No transcript.  The second stands for all but "no_captions" (private,
\* unavailable, region_blocked, ...), between which no query makes a difference.
Unavailable == {"no_captions", "no_captions_t3_fail"}
Status == {"pending", "processing", "classified", "wiki_processing",
           "completed", "failed", "pending_transcribe", "transcribing"}
            \cup Unavailable

\* How long ago started_at was, in the minutes the code compares it with, and the
\* oldest age that a query tells apart in a status.
Age == {"null", "fresh", "over 15", "over 30", "over 60"}
Over15 == {"over 15", "over 30", "over 60"}
Over30 == {"over 30", "over 60"}
Over60 == {"over 60"}
Older(age) == CASE age = "fresh"   -> "over 15"
                [] age = "over 15" -> "over 30"
                [] OTHER           -> "over 60"
Oldest(status) == CASE status = "processing"      -> "over 30"
                    [] status = "wiki_processing" -> "over 60"
                    [] OTHER                      -> "over 15"

Row == [status : Status,
        retries : Nat,        \* retry_count
        started : Age,        \* started_at
        deferred : BOOLEAN,   \* retry_after lies in the future
        text : BOOLEAN,       \* transcript_text and transcript_json are set
        marker : BOOLEAN,     \* transcript_json holds "_wiki_page_id"
        page : BOOLEAN]       \* the wiki holds this item's content

\* What the scan and the GPU workers put into the table.
ASSUME RowAssumption ==
    \A r \in InitialRows :
        r \in Row /\ r.status \in {"pending", "pending_transcribe", "transcribing"}

NewRow == [status |-> "pending", retries |-> 0, started |-> "null",
           deferred |-> FALSE, text |-> FALSE, marker |-> FALSE, page |-> FALSE]

\* Being transcribed by a GPU worker, which is not part of this repository.
GpuRow == [NewRow EXCEPT !.status = "transcribing", !.started = "fresh"]

\* What a session keeps of the row it loaded.
Session == [status : Status, retries : Nat, timed : BOOLEAN,   \* started_at is set
            text : BOOLEAN, marker : BOOLEAN]
Load(i) == [status |-> item[i].status, retries |-> item[i].retries,
            timed |-> item[i].started # "null",
            text |-> item[i].text, marker |-> item[i].marker]
NoSession == [status |-> "pending", retries |-> 0, timed |-> FALSE,
              text |-> FALSE, marker |-> FALSE]

\* What a handler of failures uses of the row.
LoadFailed(i) == [Load(i) EXCEPT !.text = FALSE, !.marker = FALSE]

\* The row i when a session that read s has assigned status st, retry count n and
\* started_at at.  A column that was read equal is not written: it keeps what
\* others have put there since.
Flush(i, s, st, n, at) ==
    [item[i] EXCEPT !.status = IF st = s.status THEN @ ELSE st,
                    !.retries = IF n = s.retries THEN @ ELSE n,
                    !.started = IF at = "null" /\ ~s.timed THEN @ ELSE at]

Tasks == {"idle", "down",
          "extract", "publish", "log", "handle",                \* CPU worker
          "got", "open", "integrate", "embed", "retry", "repush",   \* consumer
          "recover", "recover push",
          "sweep wiki", "sweep transcribing", "sweep pending",  \* sweeper
          "requeue revived", "select classified", "requeue classified",
          "count", "fail",
          "restart", "restart push"}                            \* admin API

TypeOK ==
    /\ QueueTypeOK
    /\ item \in [Items -> Row]
    /\ task \in [Clients -> Tasks]
    /\ job \in [Clients -> Items \cup {None}]
    /\ loaded \in [Clients -> Session]
    /\ found \in [Clients -> SUBSET Items]
    /\ beat \in [Workers -> Items \cup {None}]
    /\ restarts \in 0..MaxRestarts

Init ==
    /\ QueueInit
    /\ item \in [Items -> InitialRows]
    /\ task = [p \in Clients |-> "idle"]
    /\ job = [p \in Clients |-> None]
    /\ loaded = [p \in Clients |-> NoSession]
    /\ found = [p \in Clients |-> {}]
    /\ beat = [w \in Workers |-> None]
    /\ restarts = 0

\* p turns to another task; its job, session and heartbeat stay.
Turn(p, t) == task' = [task EXCEPT ![p] = t]

\* p has finished with its job.
Drop(p) ==
    /\ Turn(p, "idle")
    /\ job' = [job EXCEPT ![p] = None]
    /\ loaded' = [loaded EXCEPT ![p] = NoSession]

\* p turns to a push of its job and uses its session no more.
TurnToPush(p, t) ==
    /\ Turn(p, t)
    /\ loaded' = [loaded EXCEPT ![p] = NoSession]
    /\ UNCHANGED job

\* set_worker_state, as the next heartbeats show it.
Beat(w, i) == beat' = [beat EXCEPT ![w] = i]

-----------------------------------------------------------------------------
(* The CPU worker *)

\* claim_job: SELECT ... FOR UPDATE SKIP LOCKED and UPDATE in one transaction, then
\* the session reads the claimed row again.
Claim(w, i) ==
    /\ task[w] = "idle"
    /\ \/ item[i].status = "pending"
       \/ item[i].status = "processing" /\ item[i].started \in Over30
    /\ ~item[i].deferred
    /\ item' = [item EXCEPT ![i].status = "processing", ![i].started = "fresh"]
    /\ loaded' = [loaded EXCEPT ![w] =
          [Load(i) EXCEPT !.status = "processing", !.timed = TRUE]]
    /\ job' = [job EXCEPT ![w] = i]
    /\ Turn(w, "extract")
    /\ Beat(w, i)
    /\ UNCHANGED <<queueVars, found, restarts>>

\* The end of process_job without a publication: the row becomes r.
CpuEnd(w, r) ==
    /\ item' = [item EXCEPT ![job[w]] = r]
    /\ Drop(w)
    /\ Beat(w, None)
    /\ UNCHANGED <<found, restarts>>

\* A premiere: wait for twelve hours.  started_at is kept.
Scheduled(w) ==
    /\ task[w] = "extract" /\ ~loaded[w].text
    /\ CpuEnd(w, [item[job[w]] EXCEPT !.status = "pending", !.deferred = TRUE])
    /\ UNCHANGED queueVars

\* No transcript can be had.  A cached transcript may still have no segments.
NoTranscript(w, s) ==
    /\ task[w] = "extract"
    /\ s \in IF loaded[w].text THEN {"no_captions"} ELSE Unavailable
    /\ CpuEnd(w, [item[job[w]] EXCEPT !.status = s, !.started = "null"])
    /\ UNCHANGED queueVars

\* Mutant: the comparison with the limit is off by one.
FailedRowOffByOne(i, s, pause) ==
    LET n  == IF pause THEN s.retries ELSE s.retries + 1
        st == IF pause \/ n < CpuMaxRetries THEN "pending" ELSE "failed"
    IN  [Flush(i, s, st, n, "null") EXCEPT !.page = FALSE, !.deferred = @ \/ st = "pending"]

\* Mutant: the paused row keeps the status "error" that the heartbeat shows.
FailedRowWithError(i, s, pause) ==
    [Flush(i, s, IF pause THEN "error" ELSE "pending", s.retries, "null")
        EXCEPT !.page = FALSE, !.deferred = TRUE]

\* handle_job_failure, called with a row that was read as s: undo the item's
\* changes to the wiki (_rollback_snapshots), then pause the item without counting
\* (429, 402, 401) or count the failure.
FailedRow(i, s, pause) ==
    LET n  == IF pause THEN s.retries ELSE s.retries + 1
        st == IF pause \/ n <= CpuMaxRetries THEN "pending" ELSE "failed"
    IN  [Flush(i, s, st, n, "null") EXCEPT !.page = FALSE, !.deferred = @ \/ st = "pending"]

\* Extraction (a transient error) or classification fails: process_job handles it
\* with the row that it claimed.
CpuFails(w) ==
    /\ task[w] = "extract"
    /\ Cut(w)
    /\ \E pause \in BOOLEAN : CpuEnd(w, FailedRow(job[w], loaded[w], pause))

\* Anything else raises, the push or the handling above included: worker_loop
\* reads the row again, without a lock, and
LoopReads(w) ==
    /\ task[w] \in {"extract", "publish", "log"}
    /\ Cut(w)
    /\ loaded' = [loaded EXCEPT ![w] = LoadFailed(job[w])]
    /\ Turn(w, "handle")
    /\ UNCHANGED <<item, job, found, beat, restarts>>

\* handles the failure, whatever became of the item since,
LoopHandles(w) ==
    /\ task[w] = "handle"
    /\ \E pause \in BOOLEAN : CpuEnd(w, FailedRow(job[w], loaded[w], pause))
    /\ UNCHANGED queueVars

\* or fails again, which is only logged.
LoopFails(w) ==
    /\ task[w] = "handle"
    /\ Cut(w)
    /\ CpuEnd(w, item[job[w]])

\* Transcript and classification are saved; transcript_json is a new object.
Classify(w) ==
    /\ task[w] = "extract"
    /\ item' = [item EXCEPT ![job[w]].status = "classified",
                            ![job[w]].started = "null",
                            ![job[w]].text = TRUE,
                            ![job[w]].marker = FALSE]
    /\ TurnToPush(w, "publish")
    /\ UNCHANGED <<queueVars, found, beat, restarts>>

\* push_wiki_job, one command at a time; p is idle in WikiQueue when it is over.
PushJob(p, from, to) ==
    /\ task[p] = from
    /\ PushSAdd(p, job[p]) \/ ResendSAdd(p) \/ PushRPush(p)
    /\ Turn(p, IF pc'[p] = "idle" THEN to ELSE from)

Publish(w) ==
    /\ PushJob(w, "publish", "log")
    /\ UNCHANGED <<item, job, loaded, found, beat, restarts>>

\* The log row is committed and the worker is done.
Logged(w) ==
    /\ task[w] = "log"
    /\ Drop(w)
    /\ Beat(w, None)
    /\ UNCHANGED <<queueVars, item, found, restarts>>

-----------------------------------------------------------------------------
(* The wiki consumer *)

\* pop_wiki_job; SREM is the command that returns the job.
PopJob(c) ==
    /\ task[c] = "idle"
    /\ \/ PopBLPop(c) /\ UNCHANGED <<task, job>>
       \/ PopSRem(c) /\ Turn(c, "got") /\ job' = [job EXCEPT ![c] = hand[c]]
    /\ UNCHANGED <<item, loaded, found, beat, restarts>>

\* The SREM raises: the loop of main goes on without the job.
PopFails(c) ==
    /\ task[c] = "idle" /\ pc[c] = "srem"
    /\ Cut(c)
    /\ Beat(c, None)
    /\ UNCHANGED <<item, task, job, loaded, found, restarts>>

\* process_wiki_job reads the row, without a lock,
ReadJob(c) ==
    /\ task[c] = "got"
    /\ loaded' = [loaded EXCEPT ![c] = Load(job[c])]
    /\ Turn(c, "open")
    /\ UNCHANGED <<queueVars, item, job, found, beat, restarts>>

\* and begins, whatever the status of the item.  An item with the marker skips the
\* integration.  No other column that was read is used from here on.
StartJob(c) ==
    /\ task[c] = "open"
    /\ item' = [item EXCEPT ![job[c]] =
          Flush(job[c], loaded[c], "wiki_processing", loaded[c].retries, "fresh")]
    /\ loaded' = [loaded EXCEPT ![c] =
          [NoSession EXCEPT !.text = loaded[c].text, !.marker = loaded[c].marker]]
    /\ Turn(c, IF loaded[c].marker THEN "embed" ELSE "integrate")
    /\ Beat(c, job[c])
    /\ UNCHANGED <<queueVars, job, found, restarts>>

\* integrate() returns and the session commits.  The marker was written into the
\* dictionary that is already the value of transcript_json, so the session sees
\* a change only if there was no such dictionary.
Integrate(c) ==
    /\ task[c] = "integrate"
    /\ item' = [item EXCEPT ![job[c]].page = TRUE,
                            ![job[c]].marker = @ \/ ~loaded[c].text]
    /\ Turn(c, "embed")
    /\ UNCHANGED <<queueVars, job, loaded, found, beat, restarts>>

\* The sections are embedded (there may be none left) and the job is completed.
Complete(c) ==
    /\ task[c] = "embed"
    /\ item' = [item EXCEPT ![job[c]].status = "completed"]
    /\ Drop(c)
    /\ Beat(c, None)
    /\ UNCHANGED <<queueVars, found, restarts>>

\* The job fails: _retry_or_fail reads the row afresh, without a lock,
JobFails(c) ==
    /\ Cut(c)
    /\ loaded' = [loaded EXCEPT ![c] = LoadFailed(job[c])]
    /\ Turn(c, "retry")
    /\ UNCHANGED <<job, found, beat, restarts>>

\* Integration fails or times out; a page it created is committed already.
IntegrateFails(c) ==
    /\ task[c] = "integrate"
    /\ \E created \in {item[job[c]].page, TRUE} :
          item' = [item EXCEPT ![job[c]].page = created]
    /\ JobFails(c)

\* Embedding fails after an integration.
EmbedFails(c) ==
    /\ task[c] = "embed" /\ ~loaded[c].marker
    /\ JobFails(c)
    /\ UNCHANGED item

\* and writes what it has computed from that.
RetriedRow(i, s) ==
    LET n  == s.retries + 1
        st == IF n > WikiMaxRetries THEN "failed" ELSE "classified"
    IN  [Flush(i, s, st, n, "null") EXCEPT !.deferred = @ \/ st = "classified"]

\* The heartbeat goes on showing the job.
Retry(c) ==
    /\ task[c] = "retry"
    /\ item' = [item EXCEPT ![job[c]] = RetriedRow(job[c], loaded[c])]
    /\ IF loaded[c].retries + 1 > WikiMaxRetries
       THEN Drop(c)
       ELSE TurnToPush(c, "repush")
    /\ UNCHANGED <<queueVars, found, beat, restarts>>

\* Another exception leaves process_wiki_job: the loop of main goes on.  On the
\* fast path every embedding failure ends here, for _item_pk is not assigned.
JobRaises(c) ==
    /\ task[c] \in {"got", "open", "integrate", "embed", "retry"}
    /\ Cut(c)
    /\ Drop(c)
    /\ Beat(c, None)
    /\ UNCHANGED <<item, found, restarts>>

\* Mutant: the retry goes straight to the list.
RepushUntracked(c) ==
    /\ task[c] = "repush"
    /\ queue' = Append(queue, job[c])
    /\ Drop(c)
    /\ UNCHANGED <<dedup, pc, hand, seen, todo, uniq, cuts, resent, item, found, beat,
                   restarts>>

\* The push at the end of _retry_or_fail, and its failure, which is only logged.
Repush(c) ==
    /\ task[c] = "repush"
    /\ PushSAdd(c, job[c]) \/ ResendSAdd(c) \/ PushRPush(c)
    /\ IF pc'[c] = "idle" THEN Drop(c) ELSE UNCHANGED <<task, job, loaded>>
    /\ UNCHANGED <<item, found, beat, restarts>>

RepushFails(c) ==
    /\ task[c] = "repush"
    /\ Cut(c)
    /\ Drop(c)
    /\ UNCHANGED <<item, found, beat, restarts>>

\* main starts again and _recover_orphan_wiki_processing selects the items that
\* have been in wiki_processing for 30 minutes, live or not.
RestartConsumer(c) ==
    /\ task[c] = "down"
    /\ found' = [found EXCEPT ![c] =
          {i \in Items : item[i].status = "wiki_processing" /\ item[i].started \in Over30}]
    /\ Turn(c, "recover")
    /\ Beat(c, None)
    /\ UNCHANGED <<queueVars, item, job, loaded, restarts>>

\* One of them is reset by its key, whatever became of it since, and pushed.
RecoverOrphan(c, i) ==
    /\ task[c] = "recover"
    /\ i \in found[c]
    /\ item' = [item EXCEPT ![i].status = "classified", ![i].started = "null"]
    /\ found' = [found EXCEPT ![c] = @ \ {i}]
    /\ job' = [job EXCEPT ![c] = i]
    /\ Turn(c, "recover push")
    /\ UNCHANGED <<queueVars, loaded, beat, restarts>>

RecoverPush(c) ==
    /\ PushJob(c, "recover push", "recover")
    /\ UNCHANGED <<item, job, loaded, found, beat, restarts>>

Recovered(c) ==
    /\ task[c] = "recover"
    /\ found[c] = {}
    /\ Drop(c)
    /\ UNCHANGED <<queueVars, item, found, beat, restarts>>

\* A database or Redis error ends the recovery; main logs it and goes on.
RecoverFails(c) ==
    /\ task[c] \in {"recover", "recover push"}
    /\ Cut(c)
    /\ Drop(c)
    /\ found' = [found EXCEPT ![c] = {}]
    /\ UNCHANGED <<item, beat, restarts>>

-----------------------------------------------------------------------------
(* The sweeper: the transactions of _sweep_once, in their order *)

\* The jobs that a recent heartbeat shows.
Beating == {beat[w] : w \in Workers}

\* UPDATE ... WHERE: the rows of the items in S change as upd says.
UpdateRows(S, upd(_)) == item' = [i \in Items |-> IF i \in S THEN upd(item[i]) ELSE item[i]]

SweepProcessing(s) ==
    /\ task[s] = "idle"
    /\ UpdateRows({i \in Items \ Beating : item[i].status = "processing"
                                             /\ item[i].started \in Over15 \cup {"null"}},
                  LAMBDA r : [r EXCEPT !.status = "pending", !.started = "null"])
    /\ Turn(s, "sweep wiki")
    /\ UNCHANGED <<queueVars, job, loaded, found, beat, restarts>>

\* Mutant: the heartbeats are not consulted.
StaleWikiBlindly == {i \in Items : item[i].status = "wiki_processing"
                                     /\ item[i].retries < RecoveryMax
                                     /\ item[i].started \in Over60 \cup {"null"}}

\* Mutant: only items without a started_at are taken.
StaleWikiNull == {i \in Items \ Beating : item[i].status = "wiki_processing"
                                             /\ item[i].retries < RecoveryMax
                                             /\ item[i].started = "null"}

StaleWiki == {i \in Items \ Beating : item[i].status = "wiki_processing"
                                        /\ item[i].retries < RecoveryMax
                                        /\ item[i].started \in Over60 \cup {"null"}}

SweepWiki(s) ==
    /\ task[s] = "sweep wiki"
    /\ UpdateRows(StaleWiki,
                  LAMBDA r : [r EXCEPT !.status = "classified", !.started = "null"])
    /\ found' = [found EXCEPT ![s] = StaleWiki]
    /\ Turn(s, "sweep transcribing")
    /\ UNCHANGED <<queueVars, job, loaded, beat, restarts>>

\* A GPU worker's job goes back to the queue of the GPU workers,
SweepTranscribing(s) ==
    /\ task[s] = "sweep transcribing"
    /\ UpdateRows({i \in Items \ Beating : item[i].status = "transcribing"
                                             /\ item[i].started \in Over15 \cup {"null"}},
                  LAMBDA r : [r EXCEPT !.status = "pending_transcribe", !.started = "null"])
    /\ Turn(s, "sweep pending")
    /\ UNCHANGED <<queueVars, job, loaded, found, beat, restarts>>

\* and what has waited there with an old started_at is given up.
SweepPendingTranscribe(s) ==
    /\ task[s] = "sweep pending"
    /\ UpdateRows({i \in Items : item[i].status = "pending_transcribe"
                                   /\ item[i].started \in Over15},
                  LAMBDA r : [r EXCEPT !.status = "no_captions_t3_fail", !.started = "null"])
    /\ Turn(s, IF found[s] = {} THEN "select classified" ELSE "requeue revived")
    /\ UNCHANGED <<queueVars, job, loaded, found, beat, restarts>>

\* _requeue_classified(found[s]), one command at a time.
Requeue(s, from, to) ==
    /\ task[s] = from
    /\ \/ CleanSMembers(s, found[s]) /\ UNCHANGED task
       \/ (CleanLRange(s) \/ CleanSRem(s) \/ ResendSAdd(s) \/ PushRPush(s)) /\ UNCHANGED task
       \/ (\E x \in Items : RequeueSAdd(s, x)) /\ UNCHANGED task
       \/ RequeueDone(s) /\ Turn(s, to)
    /\ UNCHANGED <<item, job, loaded, found, beat, restarts>>

SweepRequeue(s) ==
    \/ Requeue(s, "requeue revived", "select classified")
    \/ Requeue(s, "requeue classified", "count")

\* Mutant: only items with an old started_at, as in the other queries.
SelectClassifiedOld(s) ==
    LET ids == {i \in Items : item[i].status = "classified" /\ item[i].retries < RecoveryMax
                                /\ item[i].started \in Over60}
    IN  /\ task[s] = "select classified"
        /\ found' = [found EXCEPT ![s] = ids]
        /\ Turn(s, IF ids = {} THEN "fail" ELSE "requeue classified")
        /\ UNCHANGED <<queueVars, item, job, loaded, beat, restarts>>

\* _recover_classified_items: every classified item below the limit, queued or
\* not; each is counted, queued or not; those at the limit fail.
SelectClassified(s) ==
    LET ids == {i \in Items : item[i].status = "classified" /\ item[i].retries < RecoveryMax}
    IN  /\ task[s] = "select classified"
        /\ found' = [found EXCEPT ![s] = ids]
        /\ Turn(s, IF ids = {} THEN "fail" ELSE "requeue classified")
        /\ UNCHANGED <<queueVars, item, job, loaded, beat, restarts>>

CountRequeued(s) ==
    /\ task[s] = "count"
    /\ UpdateRows(found[s], LAMBDA r : [r EXCEPT !.retries = @ + 1])
    /\ Turn(s, "fail")
    /\ UNCHANGED <<queueVars, job, loaded, found, beat, restarts>>

FailExhausted(s) ==
    /\ task[s] = "fail"
    /\ UpdateRows({i \in Items : item[i].status = "classified"
                                   /\ item[i].retries >= RecoveryMax},
                  LAMBDA r : [r EXCEPT !.status = "failed", !.started = "null"])
    /\ Turn(s, "idle")
    /\ found' = [found EXCEPT ![s] = {}]
    /\ UNCHANGED <<queueVars, job, loaded, beat, restarts>>

\* The database or Redis fails in a phase: the error is logged and the sweep goes
\* on with the phase that the handler leaves it at.
SweepFails(s) ==
    /\ task[s] \in {"idle", "sweep wiki", "sweep transcribing", "sweep pending",
                     "requeue revived", "select classified", "requeue classified",
                     "count", "fail"}
    /\ Cut(s)
    /\ Turn(s, CASE task[s] = "idle" -> "sweep wiki"
                 [] task[s] = "sweep wiki" -> "sweep transcribing"
                 [] task[s] = "sweep transcribing" -> "sweep pending"
                 [] task[s] = "sweep pending" /\ found[s] # {} -> "requeue revived"
                 [] task[s] \in {"sweep pending", "requeue revived"} -> "select classified"
                 [] task[s] \in {"requeue classified", "count"} -> "fail"
                 [] OTHER -> "idle")
    /\ found' = [found EXCEPT ![s] = IF task'[s] = "idle" THEN {} ELSE @]
    /\ UNCHANGED <<item, job, loaded, beat, restarts>>

-----------------------------------------------------------------------------
(* The admin API *)

RestartAsked == restarts < MaxRestarts /\ restarts' = restarts + 1

\* restart_item reads the row, without a lock (started_at and the marker play no
\* part),
ReadRestart(i) ==
    /\ task[Api] = "idle"
    /\ RestartAsked
    /\ loaded' = [loaded EXCEPT ![Api] = [Load(i) EXCEPT !.timed = FALSE, !.marker = FALSE]]
    /\ job' = [job EXCEPT ![Api] = i]
    /\ Turn(Api, "restart")
    /\ UNCHANGED <<queueVars, item, found, beat>>

\* Mutant: the item goes to the wiki stage whether it has a transcript or not.
NextStageBlindly(s) == "classified"

\* and chooses the stage that the item goes back to.
NextStage(s) == IF s.status = "wiki_processing" \/ s.text THEN "classified" ELSE "pending"

\* The restart is committed.  retry_count is written unless it was read as 0.
RestartItem ==
    LET i == job[Api]
        s == loaded[Api]
        restarted == [Flush(i, s, NextStage(s), 0, item[i].started) EXCEPT !.deferred = FALSE]
    IN  /\ task[Api] = "restart"
        /\ item' = [item EXCEPT ![i] = restarted]
        /\ IF NextStage(s) = "classified" THEN TurnToPush(Api, "restart push") ELSE Drop(Api)
        /\ UNCHANGED <<queueVars, found, beat, restarts>>

RestartPush ==
    /\ task[Api] = "restart push"
    /\ PushSAdd(Api, job[Api]) \/ ResendSAdd(Api) \/ PushRPush(Api)
    /\ IF pc'[Api] = "idle" THEN Drop(Api) ELSE UNCHANGED <<task, job, loaded>>
    /\ UNCHANGED <<item, found, beat, restarts>>

\* restart_source: no push, and retry_count stays.
RestartSource ==
    LET stopped == {i \in Items : item[i].status \in
                      {"failed", "no_captions", "wiki_processing"}}
    IN  /\ RestartAsked
        /\ stopped # {}
        /\ UpdateRows(stopped,
             LAMBDA r : [r EXCEPT !.deferred = FALSE,
                                  !.status = IF r.status = "wiki_processing"
                                             THEN "classified" ELSE "pending"])
        /\ UNCHANGED <<queueVars, task, job, loaded, found, beat>>

-----------------------------------------------------------------------------
(* Time, crashes and restarts *)

\* started_at crosses the next threshold, in a status that a query compares.
GrowOld(i) ==
    /\ item[i].status \in {"processing", "wiki_processing", "transcribing",
                             "pending_transcribe"}
    /\ item[i].started \notin {"null", "over 60", Oldest(item[i].status)}
    /\ item' = [item EXCEPT ![i].started = Older(@)]
    /\ UNCHANGED <<queueVars, task, job, loaded, found, beat, restarts>>

\* retry_after passes.
Due(i) ==
    /\ item[i].deferred
    /\ item' = [item EXCEPT ![i].deferred = FALSE]
    /\ UNCHANGED <<queueVars, task, job, loaded, found, beat, restarts>>

\* A process dies between two transactions or two Redis commands.  Its last
\* heartbeat stays recent for WORKER_ALIVE_SECONDS.  A sweeper or the API comes
\* back with nothing to do.  An idle consumer may be restarted too: it begins
\* with the recovery.
Crash(p) ==
    /\ task[p] # "down"
    /\ task[p] # "idle" \/ pc[p] # "idle" \/ p \in Consumers
    /\ Cut(p)
    /\ task' = [task EXCEPT ![p] = IF p \in Workers THEN "down" ELSE "idle"]
    /\ job' = [job EXCEPT ![p] = None]
    /\ loaded' = [loaded EXCEPT ![p] = NoSession]
    /\ found' = [found EXCEPT ![p] = {}]
    /\ UNCHANGED <<item, beat, restarts>>

\* A Redis command is executed and its reply is lost.  The client sends it again
\* and the caller notices nothing.
LostReply(p) ==
    /\ \/ LoseReply(p)
       \/ p \in Consumers /\ task[p] = "idle" /\ LoseBLPop(p)
       \/ /\ p \in Pushers \cup Consumers
          /\ task[p] \in {"publish", "repush", "recover push", "restart push"}
          /\ LoseSAdd(p, job[p])
       \/ p \in Sweepers /\ \E x \in Items : LoseRequeueSAdd(p, x)
    /\ UNCHANGED rowVars

Expire(w) ==
    /\ task[w] = "down"
    /\ beat[w] # None
    /\ Beat(w, None)
    /\ UNCHANGED <<queueVars, item, task, job, loaded, found, restarts>>

RestartCpuWorker(w) ==
    /\ task[w] = "down"
    /\ Turn(w, "idle")
    /\ Beat(w, None)
    /\ UNCHANGED <<queueVars, item, job, loaded, found, restarts>>

-----------------------------------------------------------------------------
CpuStep(w) ==
    \/ \E i \in Items : Claim(w, i)
    \/ Scheduled(w)
    \/ \E s \in Unavailable : NoTranscript(w, s)
    \/ Classify(w)
    \/ Publish(w)
    \/ Logged(w)
    \/ LoopHandles(w)
    \/ RestartCpuWorker(w)

ConsumerStep(c) ==
    \/ PopJob(c)
    \/ ReadJob(c)
    \/ StartJob(c)
    \/ Integrate(c)
    \/ Complete(c)
    \/ Retry(c)
    \/ Repush(c)
    \/ RestartConsumer(c)
    \/ \E i \in Items : RecoverOrphan(c, i)
    \/ RecoverPush(c)
    \/ Recovered(c)

SweepStep(s) ==
    \/ SweepProcessing(s)
    \/ SweepWiki(s)
    \/ SweepTranscribing(s)
    \/ SweepPendingTranscribe(s)
    \/ SweepRequeue(s)
    \/ SelectClassified(s)
    \/ CountRequeued(s)
    \/ FailExhausted(s)

Failure ==
    \/ \E w \in CpuWorkers : CpuFails(w) \/ LoopReads(w) \/ LoopFails(w)
    \/ \E c \in Consumers : PopFails(c) \/ IntegrateFails(c) \/ EmbedFails(c)
                              \/ JobRaises(c) \/ RepushFails(c) \/ RecoverFails(c)
    \/ \E s \in Sweepers : SweepFails(s)
    \/ \E p \in Clients : Crash(p) \/ LostReply(p)

Time == (\E i \in Items : GrowOld(i) \/ Due(i)) \/ \E w \in Workers : Expire(w)

Admin == (\E i \in Items : ReadRestart(i)) \/ RestartItem \/ RestartPush \/ RestartSource

Next ==
    \/ \E w \in CpuWorkers : CpuStep(w)
    \/ \E c \in Consumers : ConsumerStep(c)
    \/ \E s \in Sweepers : SweepStep(s)
    \/ Failure
    \/ Time
    \/ Admin

Spec == Init /\ [][Next]_vars

\* Every process goes on with what it does, Kubernetes restarts it when it is
\* down, the sweepers run for ever, and time passes.  Nothing obliges a service
\* to fail, a process to crash or an administrator to act.
Fairness ==
    /\ \A w \in CpuWorkers : WF_vars(CpuStep(w))
    /\ \A c \in Consumers : WF_vars(ConsumerStep(c))
    /\ \A s \in Sweepers : WF_vars(SweepStep(s))
    /\ WF_vars(RestartItem \/ RestartPush)
    /\ \A i \in Items : WF_vars(GrowOld(i)) /\ WF_vars(Due(i))
    /\ \A w \in Workers : WF_vars(Expire(w))

FairSpec == Spec /\ Fairness

-----------------------------------------------------------------------------
\* The processes touch the two keys only as WikiQueue describes: an exception or
\* a crash in the middle of a push or a re-queue is a call that is cut, and all
\* else is a whole command.  What holds of the queue for all its clients (see
\* BoundedBloat) so holds here, retries, sweeps and restarts included.
UsesQueue == QueueSpec

\* Failed for good although its CPU retries ("retry 2 times, then permanent fail")
\* are not used up.
FailedEarly(r) == r.status = "failed" /\ r.retries <= CpuMaxRetries

\* p writes a row that it read before the item failed.
WritesStale(p, i) ==
    /\ task[p] \in {"handle", "retry", "restart"} /\ task'[p] # task[p]
    /\ job[p] = i
    /\ loaded[p].status # "failed"

\* No single handler fails an item early, in spite of workers that write back a
\* count they read long ago, of sweepers that count too and of restarts that reset
\* the count under a worker's feet.  It takes two: the item fails with its retries
\* used up, and a process that read the row before that counts again, or resets the
\* count, without writing the status, which it had read as the one it assigns.
FailedWasRetried ==
    [][\A i \in Items : FailedEarly(item'[i]) =>
          \/ FailedEarly(item[i])
          \/ item[i].status = "failed" /\ \E p \in Clients : WritesStale(p, i)]_vars

\* Whatever reaches the wiki stage has a transcript: on the list, in a
\* consumer's hands, or in a status that belongs to that stage.
WikiStageHasTranscript ==
    \A i \in Items :
        (\/ i \in Outstanding
         \/ item[i].status \in {"classified", "wiki_processing", "completed"}
         \/ \E c \in Consumers : job[c] = i) => item[i].text

Extracting(w, i) == task[w] = "extract" /\ job[w] = i

\* A worker that is alive is on the item.
Live(i) ==
    \/ \E w \in CpuWorkers : Extracting(w, i)
    \/ \E c \in Consumers : task[c] \in {"integrate", "embed"} /\ job[c] = i

\* The sweeper never takes a job away from a worker that is alive and on it,
\* however long the job has lasted ("Relies on worker heartbeat table").
SweeperSparesLiveJobs ==
    [][\A s \in Sweepers : SweepProcessing(s) \/ SweepWiki(s) =>
          \A i \in Items : Live(i) => item'[i] = item[i]]_vars

\* No item stays for ever in a status in which it waits for a process, though
\* the process that should take it on may have died at any point: between the
\* commit and the push, between BLPOP and the commit, in the middle of a sweep.
NoItemIsStuck ==
    \A i \in Items : \A st \in {"pending", "processing", "classified", "transcribing"} :
        item[i].status = st ~> item[i].status # st

\* A consumer that gave the item back still shows it in its heartbeat.
Pinned(i) == \E c \in Consumers : beat[c] = i /\ job[c] # i /\ task[c] # "down"

\* An item leaves wiki_processing unless one of two things keeps the sweeper
\* from it: its count has reached the limit, or a consumer that gave it back
\* and found no other job since still shows it in its heartbeat.
WikiProgress ==
    \A i \in Items :
        item[i].status = "wiki_processing" ~>
            \/ item[i].status # "wiki_processing"
            \/ item[i].retries >= RecoveryMax
            \/ Pinned(i)

\* process_wiki_job: "Persist page_id so retries skip wiki integration".  Once
\* the integration is committed the row says so.
IntegrationIsRecorded ==
    \A c \in Consumers : task[c] = "embed" => item[job[c]].marker
=============================================================================
