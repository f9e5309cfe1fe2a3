# LLM Wiki: a TLA+ model of ingestion, knowledge and queries

This directory holds TLA+ modules that model the parts of LLM Wiki in which several
processes work on shared state, TLC configurations that check them on small instances, and
proofs, checked by TLAPS, of the properties that matter most. `PROJECT.json` maps every
definition to the lines of the source it stands for. Paths below are relative to
`src/llm_wiki/` in the repository.

## 1. The system

LLM Wiki turns videos into pages of a wiki and answers questions from it.

| Component | State | Operations | Modelled in |
|---|---|---|---|
| Wiki queue (`infrastructure/persistence/redis/wiki_queue.py`) | Redis list `wiki:queue`, Redis set `wiki:queue_dedup_set` | push, pop, cleanup, clear_duplicates | `WikiQueue` |
| CPU worker (`infrastructure/entrypoints/cpu_worker.py`) | the claimed row, its worker state | claim, extract, classify, publish, handle_job_failure, rollback | `Ingestion` |
| Wiki consumer (`infrastructure/entrypoints/wiki_consumer.py`) | the popped item, its session, its worker state | process_wiki_job, _retry_or_fail, startup recovery | `Ingestion` |
| Sweeper (`application/use_cases/ingestion/stale_recovery.py`) | none of its own between sweeps | six phases every few minutes, in every CPU worker | `Ingestion`, `WikiQueue` |
| Heartbeats (`infrastructure/persistence/postgres/worker_heartbeat.py`) | table `worker_heartbeats` | set_worker_state, write_heartbeat | `Ingestion` (`beat`) |
| Admin API (`presentation/routes/admin.py`) | rows of `source_items` and `api_keys` | restart item / source, key CRUD, scan | `Ingestion` (restarts), `ApiKeys` (keys) |
| API key manager (`infrastructure/llm/api_key_manager.py`, `managed_llm_adapter.py`) | a cache of `api_keys` in each process | get_next_key, mark_rate_limited, mark_key_invalid, recovery loop | `ApiKeys` |
| Wiki integrator (`application/use_cases/ingestion/wiki_integrator.py`) | pages, sections, links, snapshots | create, update, snapshot, commit, rollback | `WikiPages`; one bit of the row in `Ingestion` |
| Extractor (`extractor.py`, `entrypoints/cpu_worker.py`) | a cooldown file shared by the workers | metadata, subtitles, audio, Whisper, classify errors | `Extractor` |
| Events and facts (`event_extractor.py`, `event_linker.py`, `fact_merger.py`) | events, observations, entities, contradictions | merge, deduplicate, store, link, detect | `FactMerger`, `EventStore` |
| YouTube poller (`youtube_poller.py`, the scan of `admin.py`) | checkpoints of sources, new items | daily scan, poll_channel | `YoutubeScan` |
| Query (`application/use_cases/query/*.py`, `routes/query.py`) | none but that of each request | execute, execute_stream, of two pipelines | `QueryService` |
| Answer cache (`cache_adapter.py`) | strings and hashes in Redis | get, set, semantic_get, semantic_set | `AnswerCache` |
| Chat sessions (`chat_session_file_repository.py`) | one JSON file per session | create, replace, delete | not modelled |

How they interact. The scan inserts rows with status `pending`. A CPU worker claims one
(`SELECT ... FOR UPDATE SKIP LOCKED`), extracts a transcript, classifies it, commits
`classified` and pushes the id on the wiki queue. A consumer pops it, commits
`wiki_processing`, integrates it into the wiki, embeds its sections and commits `completed`.
Whatever fails goes back to an earlier status with a count and a backoff. Every CPU worker
also runs a sweeper, which resets rows whose started_at is old and whose id no recent
heartbeat shows, and puts classified items back on the queue. The administrator may restart
an item at any time, and starts a scan, as the cron job does. While a consumer integrates an
item it also stores the events that the transcript reports, in the transaction of the page.
A question is answered from the pages, the sections, their vectors and the events, unless
the cache has an answer. Nothing locks a row between its stages: the status column, the two
Redis keys and the heartbeats are all there is.

What is hard: the two Redis keys are changed by separate commands; a commit and the push that
should follow it are separate; three processes increment and one resets the same `retry_count`;
age limits (15, 30, 60 minutes) stand for "dead"; sessions hold rows read long ago; a process
may die anywhere; rows locked by one integration block another; scans overlap; services fail
under a request that must still be answered. `PROJECT.json` lists each hazard at its line.

## 2. Modules

| Module | What it is |
|---|---|
| `PendingJobs` | Abstract: a set of pending jobs; each is taken by one consumer, and every one is taken. |
| `WikiQueue` | The two Redis keys and every function that touches them, one action per Redis command. |
| `Ingestion` | EXTENDS `WikiQueue`: the life of a row under CPU workers, consumers, sweepers, admin, time, faults and crashes. |
| `MCIngestion` | Initial rows and the symmetry set for TLC. |
| `WikiQueueProofs` | Theorems about `WikiQueue`. |
| `IngestionProofs` | EXTENDS `WikiQueueProofs`: theorems about `Ingestion`. |
| `WikiPages` | Pages, sections and snapshots under consumers' sessions and rollbacks. |
| `WikiPagesProofs` | Theorems about `WikiPages`. |
| `ApiKeys` | The rows of api_keys, their caches, the calls that use them, the recovery loops and the administrator. |
| `MCApiKeys` | Where the calls of `ApiKeys` run, for TLC. |
| `ApiKeysProofs` | Theorems about `ApiKeys`. |
| `YoutubeScan` | Overlapping scans of channels, one action per API call or commit. |
| `YoutubeScanProofs` | Theorems about `YoutubeScan`. |
| `Extractor` | The calls of yt-dlp by all workers and the file that holds them back. |
| `MCExtractor` | Kinds of videos, for TLC. |
| `ExtractorProofs` | Theorems about `Extractor`. |
| `Mentions` | Events as the LLM reports them. |
| `FactMerger` | What the chunks of a transcript yield and how it becomes one list of events: operators only. |
| `EventStore` | Events, observations, entities and contradictions under concurrent transactions, one action per statement. |
| `MCEventStore` | EXTENDS `EventStore` and `FactMerger`: what transcripts yield and which events are known, for TLC. |
| `EventStoreProofs` | Theorems about `EventStore`. |
| `AnswerCache` | The Redis keys of cached answers and the commands on them. |
| `QueryService` | EXTENDS `AnswerCache`: requests of four kinds, one action per call. |
| `MCQueryService` | Questions, requests and times to live, for TLC. |
| `QueryServiceProofs` | Theorems about `QueryService` and its cache. |

### WikiQueue

`queue` and `dedup` are the two keys. `pc[p]` is the command client `p` sends next and
`hand[p]` the item its call is about, so that `PushSAdd`/`PushRPush` are the two commands of
`push_wiki_job` and `PopBLPop`/`PopSRem` those of `pop_wiki_job`. A cleaner runs
`_requeue_classified(ids)`: `CleanSMembers`, `CleanLRange`, `CleanSRem`, then `RequeueSAdd` and
`PushRPush` per id; with no ids it returns before it cleans anything. (`cleanup_orphaned_dedup`,
the same three commands without the loop, has no caller.) `Clear...` are the five commands of
`clear_duplicates`, which has no caller in the code and is run by hand (`Operators`).

Two faults are modelled, and `MaxFaults` bounds how many of them there are together. `Cut` ends a
call between two commands: a crash or a Redis error. And a reply may be lost: the connection has
`socket_timeout=10` and `retry_on_timeout=True` (`wiki_queue.py:34`), so that a command whose reply
is late is sent again, though Redis has executed it. `LoseReply` executes a command and leaves the
client where it is, about to send it; `LoseSAdd`, `LoseRequeueSAdd` and `ResendSAdd` do the same
for SADD, whose second execution says 0 of an entry that the first has made, so that the push is
skipped; `LoseBLPop` takes an item off the list that no client gets (a BLPOP waits for 30
seconds, longer than its socket does). `resent` counts lost replies, `cuts` the calls cut.

### Ingestion

`item[i]` is the row. `started` holds the age of started_at in the bands the code compares
(15, 30 and 60 minutes), `deferred` says that retry_after lies in the future, `text` that the
transcript columns are set, `marker` that `_wiki_page_id` is in transcript_json, `page` that
the wiki holds the item's content. `task[p]` is where process `p` stands, `job[p]` its
item, `loaded[p]` what its session read, `found[p]` the ids a recovery query returned,
`beat[w]` the job that a recent heartbeat of `w` shows. Every action is a transaction, a Redis
command, or an outcome of local work. The queue's commands are the actions of `WikiQueue`
themselves.

Abstractions, and why they lose nothing that the properties speak of:

* where a session reads a row without a lock and writes it after it has awaited something else,
  the read and the write are two actions: `LoopReads`/`LoopHandles` (`handle_job_failure`
  called by `worker_loop`), `ReadJob`/`StartJob`, `JobFails`/`Retry`,
  `ReadRestart`/`RestartItem`, and the claimed row that a CPU worker keeps to the end. `Flush`
  then writes only the columns that differ from what was read, as SQLAlchemy does. One step are
  a read and an update that hold the row (`Claim`, the sweeper's UPDATE ... WHERE) or select
  the rows by a status that they always replace (`RestartSource`), and the undoing of an item's
  pages with the end of its failure, which are one transaction;
* heartbeats are written every 15 s by a live process; `beat` changes with the state they
  show, and the heartbeat of a dead process stays until `Expire`; a restarted worker's old
  row is dropped with its restart;
* 429, 402 and 401 failures of a CPU job (`pause`) and counted failures are both possible at
  any time; which text of an error selects which is not modelled;
* the GPU worker is not in this repository: a row may start in `transcribing` (`GpuRow`);
* each sweeper is a process of its own, though it runs in a CPU worker's process;
* CPU admission control, startup delays, telemetry and the deletion of rows are left out;
* status `rate_limited`, which restart_source also selects, is set by a scan that exhausts the
  quota and only on pending items: `YoutubeScan` has it; `skipped` is set only by the demonstration
  routes of `presentation/routes/stubs.py`, which are left out.

### WikiPages

`page[p]` is the row of a page and its sections, `snapshot[p][i]` the snapshot that item `i` has
of it, `lock[p]` the session whose transaction holds the row. A session `s` goes through
`Begin`, `Match` or `NoMatch` (vector search and `_should_merge`), then `CreatePage`, or
`SaveSnapshot`, `UpdatePage`, `StoreEvents` and `Commit`; `Complete` is the end of
`process_wiki_job` with the deletion of old snapshots. `Rollback(i)` is `_rollback_snapshots`,
which a CPU worker runs when its job on `i` fails. Each action is one transaction, but an
update is three: its first flush locks the row, which stays locked while the events are
stored, and only the commit lets others see anything. `draft[s]` is what the open
transaction has changed, `loaded[s]` the text of the page object that the search loaded.

Abstractions: what the LLM writes is a choice of sections, each marked with the item and
the run that wrote it and with `own`, whether its source_ref is the item's default one (the
retry deletes only those). A page's text is the set of sections it shows. Whether a page
lies near an item is a choice, so that any two items may meet on any page. Page links,
section vectors and summaries are left out; `bare` remembers the sections that a rollback has
inserted, which have neither source_id nor vector. Ordering by time stamps is the order of
runs. Deployment: `deployment.yaml` says one consumer and the notes beside it two;
`Sessions` is a parameter.

### ApiKeys

`row[k]` is a row of api_keys, `cache[p][k]` its entry in the list `_keys` of process `p`,
`fresh[p]` whether that list is less than 30 seconds old, `lock[p]` the call that refreshes it.
A call `c` goes through `Acquire` and `Store` (`_refresh_cache`; with an empty table also
`SeedCheck`, `SeedInsert` and `Reread`, `_seed_from_env`), or finds the list fresh, then
`Choose` (`get_next_key`) and one of `Answered`, `TooMany` with `LimitRow` (`mark_rate_limited`) and
`Rejected` with `DisableRow` (`mark_key_invalid`). `WakeUp` and `WalkWrite` are the first half of
`_auto_recover_loop`, which sets an entry active and then, after an await, its row; `Scan`,
`RowWrite` and `RowApply` are the second one, over the rows of the table. A refresh during the
walk leaves the loop with the old list (`attached`). `ReadRow` and `WriteRow` are the two
statements of the administrator's routes, `Invalidate` the end of each.

Abstractions: one provider, with a key in the environment; which active key comes next is a
choice; whether an entry's time is over is a choice, a row's is not (`CoolRow`); the SELECT of
a refresh is answered at once, its result is used later. A row's id is used once, so `Keys`
bounds how many rows there are ever. usage_count and alerts are left out, and a process
does not restart: its loop would start with the next call.

### YoutubeScan

A video is known by the time of its publication, so that `hidden[c]` and `listed[c]`, what
channel `c` has published and what YouTube lists of it, are sets of times. `item[c][v]` is the
row of source_items, `checkpoint[c]` is last_video_published_at, `scan[s]` the local variables
of a request to `start_cron_job`: the sources to come, the checkpoints it loaded at its start,
the videos found and the pages read. `PollPage` is one call of playlistItems.list with the
decision to stop; `InsertItems` and `AdvanceCheckpoint` are the two commits of `poll_channel`;
`QuotaExceeded`, `CallFails` and `Die` are its failures. `capped` remembers that a page limit
cut a scan short.

Abstractions: whether a day was missed, which makes a scan read everything, is a choice (in the
code, a day once missed is never completed later, so that every scan from then on is a full
one); a page token goes on after the last video read, whatever has been listed since; the row
of scan_locks is left out, for it keeps nobody out; pages that hold the same video twice (a
playlist that shifts) are sets here.

### Extractor

`video[v]` says who may see a video, whether it has captions and what can be heard; `pc[w]`,
`stage[w]` and `job[w]` where worker `w` is, `wait[w]` how long it will sleep, `cooldown` the
file `yt_cooldown`: time left and level. A call is `WaitYtCooldown` (and `WakeUp`), then one
outcome: success (`Described...`, `Downloaded`, `AudioDownloaded`), an error (`Fails`), a 429
(`TooManyRequests`, which computes the level, and `SetYtCooldown`, which writes it) or the
timeout (`TimesOut`). `Complaints` are the words of an error that `_classify_video_error` looks
for: those of a video that is gone are also those of an HTTP error that will pass ("Service
Unavailable", "Not Found"), so that any video may end as unavailable. `defied` counts the calls
that began although the file, as it now is, forbade it.

Abstractions: writing the file is one step; a stage that is cancelled leaves a yt-dlp
process behind, which nobody waits for; a later download after an audio failure is that of
the next claim; the backoff of a failed row is `Ingestion`'s.

### FactMerger and EventStore

`event[e]`, `seen[e][p][d]`, `contested` and `entities` are committed rows: of event_canonicals
with the count, of event_observations by page and direction, of event_timeline_chains (only
"contradicts", which links an event to itself) and of entities. `session[s]` holds what the
transaction of one integration has still to do and what it has written: a session sees the
committed rows and its own. `Extract` picks one of `Yields`, what a transcript may come to: in
the run that is `Extractions` of `FactMerger`, the chunks' events merged, and in the proofs any
set of lists of events and names. Then, per event, `MatchEvent` and `IncObservationCount`, or
`CreateCanonical`; then `LinkEntity` per name, `Detect` and `FlushLinks`, and `Commit`. An
UPDATE waits for the row, an INSERT for the unique key; `DeadlockVictim` is PostgreSQL ending
one of two that wait for each other. `CutShort` is an error that is not the database's, in the
linking or the relations (`event_extractor.py:406`, `:501`, `:514`): `wiki_integrator.py:1759`
swallows it, the transaction goes on and is committed, and `detect_contradictions` has not run.
`overlooked` remembers the events that were committed so although they contradicted what was
there.

Abstractions: an event is a key (its date and foremost entity, with the `Category` of it), its
direction and the length of its description; `MatchEvent` asks for the category only, as the
search by vectors does; the observation, which the code inserts just before it raises the
count, is noted with the count, for nobody else sees it before the commit; `Rows` are the
observations one by one, which `Total` counts; whether two descriptions are alike is a choice,
and so is whether a search finds what is there. Relations of entities, numbers and claims are
left out. An error of a statement, or of a flush, aborts the transaction; the code goes on in
it, but nothing it writes is kept (see the remarks), so `Fails` ends the session's part here.

### AnswerCache and QueryService

`exact[k]` is the string at the exact key, `semantic[k]` the hash with the vector; `left` is
the time to live. `req[r]` is a request: its next call, the question as asked and as rewritten,
its vector, attempt, strategy, what the last retrieval found, the answer, and the number of
"complete" events it has sent. The operators `AskBefore` ... `StreamReflectAfter` put the calls
of `QueryPipeline.execute`, `execute_stream` and their reflective counterparts in their order,
with what each of the four does when one fails. `Cut` is a client that leaves, or a crash.
`reranker` is how the process that gets the request is configured: "unset" is the one in which
`CROSS_ENCODER_ENABLED` is true, as in `k8s/configmap.yaml`, for the route then reads
`settings.cross_encoder_model`, which `config.py` does not define, and refuses the request
(`Refused`); "crossEncoder" is the same with that setting, of which the loading of the model may
fail (`LoadModelFails`). `unfit` says that the range of the request cannot be compared with a date:
it has a from_date and no to_date, or a date without a time zone.

Abstractions: a retrieval finds something or nothing, and what it found before or not; a
question embeds to itself, and `Near` says which questions are alike; an answer is what it was
computed for and how it came about. Time passes for the cache only. Pages may change while
an answer is cached: only its time to live limits that, in the code as here.

## 3. Runs

| Run | Instance | Shows |
|---|---|---|
| `queue_steady` | 3 items, 2 pushers, 2 consumers, no fault | no duplicates, no lost job, refinement of `PendingJobs` with its liveness |
| `queue_repair` | 1 item, 1 pusher, 1 consumer, 2 sweepers, 1 operator, 2 faults | bounded list, orphans of classified items repaired |
| `ingestion_workers` | 1 item, 2 CPU workers, 1 consumer, admin; 2 faults, 1 restart | types, no premature failure but by a stale row, transcripts |
| `ingestion_recovery` | 1 item, 1 CPU worker, 1 consumer, 1 sweeper; 1 fault | sweeper spares live jobs, nothing is stuck |
| `integration_recorded` | violation | the marker is never persisted |
| `pages_shared` | 2 items, 3 pages, 2 sessions; 3 runs, 1 rollback | no hidden section, no foreign deletion, no session blocked |
| `rollback_keeps_others` | violation | a rollback removes another item's section |
| `keys_rotation` | 1 key, 2 calls in one process, 1 administrator; 1 change, 1 fault | types and lock, disabled keys stay disabled, limited ones recover |
| `scan_channels` | 1 channel, 3 videos, 2 scans; 1 fault | no gap behind the checkpoint, statuses kept, every video found |
| `extract_cooldown` | 2 workers, 2 videos of 7 kinds | the cooldown holds, speech is not skipped, extractions end |
| `event_store` | 2 known events, 1 new; 2 sessions, 2 pages, 2 chunks; 2 runs | counts, contradictions, no session blocked |
| `query_service` | 2 requests of 2 kinds each, 2 questions, 2 scopes; 1 fault | one complete event, fitting entries, graceful degradation, an end |

Bounds. The processes meet on one row and on that row's copies in the queue; rows do not
influence each other except through the order of the list, which `queue_steady` has three items
for. One item with two workers, or with a worker, a consumer and a sweeper, exercises every
pair of processes that write the row. `MaxFaults` bounds faults, crashes and lost replies
together: with one, every step of every process is cut, and every command sent twice, in some
behaviour; with two, a fault in the handling of a fault, or two workers that fail the same row at
once. One restart is enough to reset a count between another process's read and its write. The
limits of retries are 1, 1 and 2 instead of 2, 5 and 10: what matters is their order
(`IngestionAssumption`), and the proofs hold for all values. `ingestion_workers` has no
sweeper, so an item given up as unavailable ends everything: deadlock is not checked there; nor
in the runs of `WikiPages`, which end when `MaxRuns` integrations have been begun. Three runs
are a page's creation, an update by another item and a retry of either, in any order and
overlapping; every lock conflict needs two sessions.

In `keys_rotation` both calls, the loop and the administrator share one process and one key: a
second process reaches the row only by the statements that the first one sends, too, and
`KeysStayQuiet` is proved for any number of either. The fault is a failed statement, a failed
refresh or a cancelled call; one is enough to lose either half of each pair of writes.

In `scan_channels` the buffer and YouTube's delay are one unit, a page holds two videos, and of
three the daily limit of one page leaves one out; `NoVideoIsSkipped` and its companions are
proved for all values.

In `extract_cooldown` both workers run through the four levels of the backoff, up to its cap; a
third worker would add calls, but no other pair of accesses to the file, and `CooldownsHold` is
proved for any number.

In `event_store` the event that both sessions report exists and its entity is known, while the
second event's is new: two sessions then meet on the row of an event, and on two rows in both
orders (the deadlock); that two entities are inserted in both orders is beyond the bounds, and
ends in the same way. All events are of one category, which lets the search by vectors match
any of them. Of two chunks one may fail, or else the extraction does; there is an id for one new
event. 256,000 states.

`query_service` gives each of two requests two or three kinds, chosen so that every pair of
pipelines, scopes and ways to answer meets, an unfit range and each configuration of the
reranker among them; one fault reaches each handler of an exception; two attempts
instead of three let the reflection be tried again and give up. Sessions and requests are made
once, so that these runs stop, and deadlock is not checked.

Fairness. In `WikiQueue` a call that has begun goes on, and a consumer asks for the next job
for ever (`main`'s loop). Nothing obliges a sweeper to begin `_requeue_classified`, which it
calls only for classified items: `OrphansAreRepaired` has that as its premise. In `Ingestion`,
where the sweepers run for ever, they call it whenever they find such an item
(`NoItemIsStuck`). There each process has weak fairness of its own steps (they are asyncio
loops without a condition to stop but a signal, and Kubernetes restarts what died), time passes
(`GrowOld`, `Due`, `Expire`), and nothing obliges a fault, a crash or an administrator. Weak
fairness of a whole process is enough, for a process has one thing to do at a time.

In `WikiPages` a session advances (`Advance`), while failures and rollbacks need not happen; it
is the waiting for a row lock that makes `EverySessionEnds` a question, and it holds because
every end of a session, a failure included, releases the lock. In `ApiKeys` a call that has
begun goes on (an HTTP request has a timeout), the loop, which has no exit but cancellation,
goes on, and a row's time passes; nobody needs to ask for a key.

In `YoutubeScan` the cron job recurs every day, a scan's calls have timeouts, and YouTube lists
what was published; faults are bounded, as a scan that always fails finds nothing. In
`Extractor` time passes and a worker does what it can do alone: sleep, wake, write the file,
give a call up. YouTube owes no answer, and neither premieres nor claims must happen. In
`EventStore` a statement is answered unless it waits for a lock, and deadlocks are detected;
nothing obliges an extraction to be cut short.

In `QueryService` each call of a request is answered or fails, for it has a timeout; no client
must ask, and time need not pass.

## 4. Properties

* `NoDuplicates`, `TrackedWhileOutstanding`, `SkippedPushIsOutstanding`: the promise of the
  module's docstring ("Prevents the massive queue bloat"), the invariant that makes it true,
  and its converse, without which a skipped push would lose a job. All three are of the queue
  without lost replies: a push that is sent again breaks each of them.
* `ImplementsPendingJobs`: the two keys behave as a set of jobs, each taken, and by one consumer.
* `BoundedBloat`: with sweepers the first promise fails: `_requeue_classified` says "each item
  only queued once", but a removal decided from two earlier reads may hit an item that was
  pushed since. What is left is a bound: one copy per client that can have such a removal
  under way (an operator two), one, and one per lost reply, for the second execution of an RPUSH
  appends again and that of an SREM may hit the entry of a newer push. Without a lost reply the
  instance of `queue_repair` reaches it, with 7 copies, and with one it reaches 8.
* `OrphansAreRepaired`: an entry of the set that is nowhere else blocks every push of its item,
  and goes away again if sweeps keep finding the item classified. Of an item that they do not
  find, a failed or pending one, it stays, perhaps for ever.
* `FailedWasRetried`: "retry 2 times, then permanent fail", whatever the count was read from. Two
  handlers that overlap can break the docstring's promise: one reads the row as pending, another
  one fails it for good, and the first one writes its own count and no status, which it has read
  as the one it assigns; a restart that resets the count does the same. The property says that
  this is the only way, and that no writer of `failed` does it alone.
* `WikiStageHasTranscript`, `SweeperSparesLiveJobs`: what must survive any
  interleaving of the processes on one row.
* `UsesQueue`: the ingestion system refines `WikiQueue`.
* `NoItemIsStuck`, `WikiProgress`: nothing waits for ever. The second has two exceptions, which
  are the code's: the recovery query skips items whose count has reached 10, and a consumer
  that gave a job back keeps showing it in its heartbeat until it finds another one.
* `EverySectionIsShown`: `_update_page` regenerates the text from all sections and the ORM writes
  it only if it differs from what the search loaded, long before and perhaps out of date. It
  holds because the row lock is taken by the first flush, before the sections are read, and
  because a loaded text never shows a section that is still to be written.
* `OnlyCreatorsDelete`: a snapshot without text means "delete the page"; an empty page must not
  produce one. `IntegrationKeepsOthers`: who may remove whose sections. `EverySessionEnds`.
* `QuietKeysStayQuiet`: reactivation is by id, whatever the status is by then, so a disabled key
  can come back by what was under way. The property says that this is all:
  once no call has it, no cache shows it usable and no loop is about to write it, it stays
  disabled. It is the second query's condition on the status that makes it true.
* `LimitsEnd`: a 429 seen by one process has replaced its entry by one loaded from the table, or
  its row was written and the entry lost; the loop's second half sees to those.
* `NoGap`: the checkpoint moves past whatever a scan found. It is the buffer that makes up for
  videos YouTube lists late, and the order of the two commits that makes up for crashes; a
  checkpoint compared with a stale one may move back, which costs pages and no video. `capped`
  is the exception: with more new videos than the page limit the older ones are lost.
  `EveryVideoIsFound` is the same promise as liveness. `RescanKeepsStatus`: ON CONFLICT DO NOTHING.
* `FewDefyACooldown`: the file is checked before a sleep and not after it, and any success
  removes it. What is left of "sleep until cooldown expires" is that a cooldown is defied by
  fewer calls than there are workers. `SpeechIsNotSkipped`: `no_captions` is final, so that no
  failure may end there. `EveryExtractionEnds`: with timeouts, although each 429 of one worker
  prolongs another's wait.
* `CountsObservations`, `ContradictionsAreFound`: under READ COMMITTED neither session sees the
  other's observation. Both properties hold because each observation is followed at once by the
  UPDATE of the count, which makes the second session wait for the first one's commit before it
  looks for contradictions. The mutant that does not wait breaks both. A contradiction may be
  missed only if the extraction of the integration that brought it in was cut short.
  `EveryIntegrationEnds`: locks are taken in the order of
  the transcript.
* `OneComplete`, `DegradesGracefully`, `ExactEntriesFit`, `NoHashLastsForEver`,
  `EveryRequestEnds`: what the docstrings and the README promise of a question, whichever call
  fails, and of what requests leave in the cache for each other. The exceptions in them are the
  code's: a range without an end or a time zone, a cross-encoder without a setting or a model,
  follow-ups whose history is not in the key, and writers that
  were cut.

Findings (the violated properties state what the repository's comments say) are in
`PROJECT.json`. Some remarks have no run: `_item_pk` is not assigned on the fast path of
`process_wiki_job`, so an embedding failure there raises `UnboundLocalError` (the model's
`JobRaises`), a path that is unreachable only because the marker is never persisted; the
consumer never looks at the retry_after that `_retry_or_fail` writes; `_recover_classified_items`
counts, and finally fails, also classified items that are waiting on the queue; and
`invalidate_cache` is undone by a refresh that is under way, which sets the age when it ends.

More remarks, each a behaviour of the models:

* `claim_job` reclaims after 30 minutes what a live worker may extract for 4 hours, though its
  docstring calls that worker "long dead". A CPU worker whose publication fails after RPUSH
  rolls back the page that a consumer has just made, which then marks the item completed.
* A database error among the events is logged and swallowed (`wiki_integrator.py:1759`), but
  the transaction is lost, and with it the uncommitted update of a page; the item completes. So
  it is with a flush that fails in Python (an observation whose confidence is no number). Any
  other error in Python is swallowed there, too, and leaves what was stored without the search
  for contradictions.
* A late reply of Redis makes the client send the command again (`wiki_queue.py:36`): an item may
  be queued twice after one SADD, or not at all, its entry left to the sweeper; a job whose BLPOP
  was answered too late is in no hands until the sweeper finds its row.
* With `CROSS_ENCODER_ENABLED`, as it is deployed (`k8s/configmap.yaml:22`), every question is
  refused: `settings.cross_encoder_model` (`routes/query.py:107`) does not exist. With the
  setting, a model that cannot be loaded fails the question
  (`cross_encoder_reranker_adapter.py:73`), though the class "falls back to original ranking on
  any failure".
* An HTTP error that will pass makes a video unavailable if its text says so
  (`extractor.py:822`), and so does metadata without an availability (`extractor.py:678`).
* The recovery loop may activate a key that was rejected between its two halves.
* A premiere or a members' video that yt-dlp fails to describe is wrapped as "Video permanently
  unavailable" (`extractor.py:670`) and ends as unavailable, not scheduled or requires_membership.
* `_dedup_events` promises to keep fields and to unite entities, but a richer later event
  replaces the first one and what only that one had (`fact_merger.py:148`).
* `detect_contradictions` looks at one observation of the page, in no order: a page that says
  both good and bad may be missed. `link_cause_effect_chains` reads `trigger` and `effects`, but
  is given `from` and `to`: it links nothing.
* Two sessions that report an unknown event create it twice, and a retry of an integration
  notes its observations again: neither table has a unique key for it. Two items on
  one new topic create two pages likewise.
* A request with a from_date and without a to_date, or with dates that have no time zone
  (`schemas/common.py:17` accepts them), fails if a result has a date (`pipeline.py:410`). The
  streams of a search share one AsyncSession (`pipeline.py:907`).
* `semantic_get` looks at every hash, whatever its scope, so that the promise of `_cache_key`
  does not extend to it. The reflective stream goes on after the guardrail rejects a question.
  A fixed text ("please try again") is cached like an answer. After the last attempt the last
  answer is returned, not the best one.
* A day without a completed scan makes every later scan a full one.
* Two administrators can delete the last two active keys, and two processes that find the
  table empty both insert the key of the environment.

## 5. Proofs

All theorems are proved for any sets of processes and items and any values of the limits, under
`QueueAssumption` (the kinds of clients are disjoint, None is no item), `IngestionAssumption`
(the limits are ordered as 2, 5, 10 are), `RowAssumption`, `PagesAssumption`, `KeysAssumption`
(each call runs in a process, None is neither key nor call), `ScanAssumption` (YouTube's delay
is within the buffer), `ExtractAssumption` (there are finitely many workers, and at least one),
`CacheAssumption` (there is a question and a scope, every question is near itself, and no time
to live is 0), `QueryAssumption` (a request is one of the kinds there are, and has at least one
attempt) and `EventAssumption` (what is there at first is well formed: each event has been
observed, and no contradiction between pages of one opinion was overlooked).

* `WikiQueueProofs`. `TypeCorrect`. Then `DedupInv`: an item on the list or in a call that has
  passed SADD or BLPOP is in the set (`Tracked`), at most one client holds it and not while it
  is on the list (`Exclusive`), and the list has no duplicates. `NoDuplicates` alone is not
  inductive: RPUSH appends what SADD admitted earlier. With no cleaners this gives
  `DedupPreventsDuplicates` and `OutstandingIsTracked`, cut calls included, until the first
  reply is lost; `LostRepliesAddOneCopyEach` says what lost replies can do. The converse,
  `SkippedPushLosesNothing`, holds with cleaners but without faults. `QueueImplementsJobs` maps
  each command to a step of `PendingJobs` or a stutter: SADD submits, RPUSH stutters, BLPOP
  takes, SREM hands over. `ListIsBounded`: the potential of an item, copies on the list plus
  the removals that clients have under way plus its presence in the set, never exceeds the
  number of clients plus one and the replies lost; a removal that lets a copy in is spent by
  doing so, while a command that is sent again appends or removes once more.
* `IngestionProofs`. `IngestionTypeCorrect` from `Typed` (types of queue and rows, and who has
  a job has an item); `ProcessesUseQueue`, by which the queue theorems hold for the system:
  `IngestionListIsBounded`. `FailedOnlyAfterRetries`: each of the writers of `failed` compares a
  count with a limit that is no smaller than the CPU worker's, and that count is then in the row,
  for it differs from what was read and so is written, too; only who leaves the status alone can
  lower it.
  `WikiStageHasText` from `TextInv`: whatever the queue, a call in progress, a sweep's selection
  or a process's hand holds has a transcript; no step removes one. `SweepsSpareLiveJobs`, about
  steps, from `AllShown`: a worker that is on a job has a heartbeat that shows it, as its state
  is set with the claim, and before anything is done, and a dead worker's is not needed.
* `WikiPagesProofs`. `PagesTypeCorrect`, `CreatorsDelete`, `SectionsAreShown` and
  `OthersAreKept`, from `PagesInv`: a session in its transaction holds the row (`Locked`), so
  nobody changes the page under it (`PageIsLocked`) and what it will write is computed from the
  page as it is (`Drafted`); active sessions have runs of their own (`RunsDiffer`), and no
  page, snapshot or loaded text shows a section of a run that has yet to write (`Fresh`). The
  last one is why a commit that leaves the text alone adds no section (`NoRewriteAddsNothing`).
* `ApiKeysProofs`. `KeysTypeCorrect`, inductive as it stands, part by part; `KeysStayQuiet` from
  it: `Quiet` names everything through which a step could see the key usable, and each action
  keeps it (`QuietStep`).
* `YoutubeScanProofs`. `ScanTypeCorrect`, `NoVideoIsSkipped` and `ScansKeepStatuses`, from
  `ScanInv`: what is listed was published, and nothing stays hidden for longer than the delay
  (`Listing`); a checkpoint that a scan has loaded is one behind which there is no gap
  (`Loaded`); and what it has got so far is all there is from its newest video down to where it
  stopped (`Reading`), which is stored before the checkpoint moves. `NoGap` alone is not
  inductive, for a scan writes the checkpoint from what it read long before, in pages that grow
  at their top.
* `ExtractorProofs`. `ExtractTypeCorrect`, `SpeechIsHeard` and `CooldownsHold`, from `ExtractInv`.
  A worker that is past the metadata has a public video that is long enough (`JobsStaged`), so
  `no_captions` is only given to what was downloaded and heard, or is short. The bound on the
  calls is not inductive: a sleeper that will wake up during the cooldown (`Restless`) is a call
  to come. `Defiance` counts both; who falls asleep later reads what is left and sleeps at least
  as long, and the worker that writes the file is itself awake, whence fewer than all.
* `QueryServiceProofs`. `QueryTypeCorrect`, `StreamsComplete`, `CausesOfErrors`,
  `KeysTellScopes` and `HashesExpire`, from `QueryInv`. Requests meet only in the cache, so that
  it is enough that each is `Sound`: before every call its state is what that call relies on.
  An attempt is counted before its answer and the first has the default strategy (`Staged`), the
  answer it is going to store or send is one to what was asked, in its scope (`Answering`), it has
  sent as many complete events as its stage allows (`Sending`), and it fails only with a cause
  (`Failing`). The entries of the cache fit their keys because a key is computed
  once, from the question as it was rewritten (`CacheInv`). None of the properties is inductive:
  whether a stream is complete is decided many calls before it ends.
* `EventStoreProofs`. `KnowledgeIsTyped`, `EveryObservationCounts` and `NoContradictionIsMissed`,
  from `StoreInv`. A transaction that has counted an observation holds the row of the event until
  it ends, and only the one that holds it changes the observations: what they will be when it
  commits (`After`) is known before, though nobody else can see it. The count it has written is
  that of `After` (`Agrees`). If two pages clash in `After`, the search has found it (`Looked`), or
  did not run, and then the commit notes the event in `overlooked`: a
  page other than the session's is as it is committed, and the session's page has one opinion,
  so that it makes no difference which of its observations the query returns (`DetectFinds`).
  New events cannot be seen and rows are not shared (`Standing`, `Apart`), so a commit leaves
  what the others have written true.

Every invariant and action property of the passing runs is so proved for all values of the
constants. Assumed in the theorems where stated: no operator (`clear_duplicates` is a fold over a
sequence, out of the provers' reach), no cleaner and no lost reply for the duplicates, no fault
for the converse. Only model-checked: every liveness property (TLAPS has no rule for ENABLED and
fairness here; `OrphansAreRepaired` and the second half of `ImplementsPendingJobs` are among
them), everything with operators, and that `Extractions` are lists of events and names, for the
merge is a fold and what it does to every list is an induction over data. The two violated
properties of the findings are false, and have no theorem.

## 6. Plan

1. Done: `WikiQueue`, `PendingJobs`, `Ingestion` and their proofs.
2. Done: `WikiPages` and its proofs.
3. Done: `ApiKeys` and its proofs.
4. Done: `YoutubeScan` and its proofs; `Extractor` and its proofs; `FactMerger`, `EventStore` and
   their proofs; `AnswerCache`, `QueryService` and their proofs.
5. Worth proving next: that what `FactMerger` returns is well formed, if its folds
   are written as functions on the positions of a list.
6. Worth modelling next: page links and section vectors in `WikiPages`; the retry of an
   integration in `EventStore`, composed with `Ingestion`.

Not modelled, and why: ORM models and mappers (declarations), telemetry and notifications
(output only), search adapters (queries without state), chat sessions (each PUT replaces the
client's own list), rank fusion and chunking (data, without a choice that another process
could see), the web front end and deployment files, prompts, stubs, and the legacy use
cases that no entrypoint calls.
