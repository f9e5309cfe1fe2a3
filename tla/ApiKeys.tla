------------------------------- MODULE ApiKeys -------------------------------
(***************************************************************************)
(* The keys of the LLM providers.  They are rows of the table api_keys;    *)
(* every process caches the usable ones for 30 seconds (ApiKeyManager,     *)
(* infrastructure/llm/api_key_manager.py), chooses one for each call of an *)
(* LLM (ManagedLLMAdapter, infrastructure/llm/managed_llm_adapter.py), and *)
(* writes down that a provider limited the key (429) or rejected it        *)
(* (401, 403).  A recovery loop in every process makes limited keys active *)
(* again.  The administrator creates, changes and deletes rows through     *)
(* presentation/routes/admin.py, in the process Api.                       *)
(*                                                                         *)
(* A process is one asyncio event loop, so an action is what runs between  *)
(* two awaits, or one statement of the database.  All keys are of one      *)
(* provider, for which the environment has a key, too.  Which of the       *)
(* active keys is next (round robin over a list that is sorted by usage)   *)
(* is a choice.                                                            *)
(***************************************************************************)
EXTENDS Naturals, FiniteSets

CONSTANTS
    Keys,         \* row ids, a bound: an id is used once
    Processes,
    Api,          \* the process that serves the administrator
    Calls,        \* calls of an LLM, one at a time each
    ProcessOf,    \* ProcessOf[c]: where call c runs
    Admins,       \* requests of administrators
    None,
    MaxChanges,   \* bound: administrators' requests
    MaxFaults     \* bound: failed statements and cancelled calls

ASSUME KeysAssumption ==
    /\ Api \in Processes /\ ProcessOf \in [Calls -> Processes]
    /\ None \notin Keys /\ None \notin Calls
    /\ MaxChanges \in Nat /\ MaxFaults \in Nat

VARIABLES
    row,       \* row[k]: the row of api_keys
    cache,     \* cache[p][k]: its entry in _keys
    fresh,     \* fresh[p]: _last_refresh is less than 30 seconds ago
    lock,      \* lock[p]: the call that holds _cache_lock to refresh
    read,      \* read[p]: the rows that its SELECT has returned
    seeded,    \* seeded[p]: _env_fallback_configured
    pc, key,   \* pc[c], key[c]: where a call stands, and its key
    loop,      \* loop[p]: where _auto_recover_loop stands
    todo,      \* todo[p]: the keys that it has yet to look at
    hand,      \* hand[p]: the key that it writes now
    attached,  \* attached[p]: the list that it walks is still _keys
    admin,     \* admin[a]: the request, and the row as it has read it
    changes, faults

listVars == <<cache, fresh, lock, read, seeded>>
callVars == <<pc, key>>
loopVars == <<loop, todo, hand, attached>>
vars == <<row, listVars, callVars, loopVars, admin, changes, faults>>

-----------------------------------------------------------------------------
(* Rows and entries *)

Present == {"active", "rate_limited", "disabled"}

\* until: rate_limited_until.
Row == [status : Present \cup {"unused", "deleted"}, until : {"none", "future", "past"}]
Unused == [status |-> "unused", until |-> "none"]
ActiveRow == [status |-> "active", until |-> "none"]

\* What an entry of _keys shows; absent: it has none.  Of a limited entry,
\* rate_limited_until is a float of mark_rate_limited if it is "limited"; if it
\* is "loaded" it is as in the table, nothing the loop compares with its clock.
Entry == {"absent", "active", "limited", "loaded", "disabled"}
NoList == [k \in Keys |-> "absent"]

\* The rows that _refresh_cache selects.
Loaded(r) == CASE r.status = "active" -> "active"
               [] r.status = "rate_limited" -> "loaded"
               [] OTHER -> "absent"

Request == [step : {"idle", "write", "invalidate"},
            op : {"none", "delete"} \cup Present, key : Keys \cup {None}, clear : BOOLEAN]
NoRequest == [step |-> "idle", op |-> "none", key |-> None, clear |-> FALSE]

Refreshing == {"store", "seed", "insert", "reread", "restore"}
CallSteps == Refreshing \cup {"idle", "choose", "request", "limit", "disable"}
LoopSteps == {"none", "sleep", "write", "scan", "rows", "apply"}

KeysTypeOK ==
    /\ row \in [Keys -> Row]
    /\ cache \in [Processes -> [Keys -> Entry]]
    /\ fresh \in [Processes -> BOOLEAN]
    /\ lock \in [Processes -> Calls \cup {None}]
    /\ read \in [Processes -> [Keys -> Entry]]
    /\ seeded \in [Processes -> BOOLEAN]
    /\ pc \in [Calls -> CallSteps]
    /\ key \in [Calls -> Keys \cup {None}]
    /\ loop \in [Processes -> LoopSteps]
    /\ todo \in [Processes -> SUBSET Keys]
    /\ hand \in [Processes -> Keys \cup {None}]
    /\ attached \in [Processes -> BOOLEAN]
    /\ admin \in [Admins -> Request]
    /\ changes \in Nat /\ faults \in Nat
    /\ \A k \in Keys : row[k].status \notin Present => row[k].until = "none"
    /\ \A c \in Calls :
          /\ pc[c] \in Refreshing <=> lock[ProcessOf[c]] = c
          /\ pc[c] \in {"limit", "disable"} => key[c] \in Keys
    /\ \A p \in Processes :
          /\ loop[p] \in {"write", "apply"} <=> hand[p] \in Keys
          /\ ~attached[p] => loop[p] = "write"

KeysInit ==
    /\ row \in [Keys -> {Unused, ActiveRow}]
    /\ cache = [p \in Processes |-> NoList]
    /\ fresh = [p \in Processes |-> FALSE]
    /\ lock = [p \in Processes |-> None]
    /\ read = [p \in Processes |-> NoList]
    /\ seeded = [p \in Processes |-> FALSE]
    /\ pc = [c \in Calls |-> "idle"]
    /\ key = [c \in Calls |-> None]
    /\ loop = [p \in Processes |-> "none"]
    /\ todo = [p \in Processes |-> {}]
    /\ hand = [p \in Processes |-> None]
    /\ attached = [p \in Processes |-> TRUE]
    /\ admin = [a \in Admins |-> NoRequest]
    /\ changes = 0
    /\ faults = 0

Fault == faults < MaxFaults /\ faults' = faults + 1

\* UPDATE api_keys ... WHERE id = k, which may fail; nobody is told.
UpdateRow(k, r) ==
    \/ /\ row' = IF row[k].status \in Present THEN [row EXCEPT ![k] = r] ELSE row
       /\ UNCHANGED faults
    \/ Fault /\ UNCHANGED row

-----------------------------------------------------------------------------
(* A call: the cache *)

Goto(c, step) == pc' = [pc EXCEPT ![c] = step]

ReadRows(p) == read' = [read EXCEPT ![p] = [k \in Keys |-> Loaded(row[k])]]

\* _ensure_cache finds an old list, and the database answers the SELECT of
\* _refresh_cache.  A caller that waits for the lock, and then tests the age
\* once more, is as one that has not begun.
AcquireTwice(c) ==                                                 \* a mutant
    LET p == ProcessOf[c]
    IN  /\ pc[c] = "idle" /\ ~fresh[p]
        /\ lock' = [lock EXCEPT ![p] = c]
        /\ ReadRows(p)
        /\ Goto(c, "store")
        /\ UNCHANGED <<row, cache, fresh, seeded, key, loopVars, admin, changes, faults>>
Acquire(c) ==
    LET p == ProcessOf[c]
    IN  /\ pc[c] = "idle" /\ ~fresh[p] /\ lock[p] = None
        /\ lock' = [lock EXCEPT ![p] = c]
        /\ ReadRows(p)
        /\ Goto(c, "store")
        /\ UNCHANGED <<row, cache, fresh, seeded, key, loopVars, admin, changes, faults>>

\* The second SELECT of _seed_from_env.
Reread(c) ==
    /\ pc[c] = "reread"
    /\ ReadRows(ProcessOf[c])
    /\ Goto(c, "restore")
    /\ UNCHANGED <<row, cache, fresh, lock, seeded, key, loopVars, admin, changes, faults>>

\* The refresh is over, whichever way: the age is reset.
Refreshed(c) ==
    LET p == ProcessOf[c]
    IN  /\ fresh' = [fresh EXCEPT ![p] = TRUE]
        /\ lock' = [lock EXCEPT ![p] = None]
        /\ Goto(c, "choose")

\* The entries whose time the loop can find to be over.
Limited(p, some) == {k \in some : cache[p][k] = "limited"}

\* A new list takes the place of _keys; a walk goes on with the one it has, in
\* which nothing is marked any more.
Store(c) ==
    LET p == ProcessOf[c]
    IN  /\ pc[c] \in {"store", "restore"}
        /\ cache' = [cache EXCEPT ![p] = read[p]]
        /\ read' = [read EXCEPT ![p] = NoList]
        /\ IF attached[p] /\ loop[p] = "write"
           THEN /\ attached' = [attached EXCEPT ![p] = FALSE]
                /\ todo' = [todo EXCEPT ![p] = Limited(p, @)]
           ELSE UNCHANGED <<attached, todo>>
        /\ IF pc[c] = "store" /\ read[p] = NoList /\ ~seeded[p]
           THEN Goto(c, "seed") /\ UNCHANGED <<fresh, lock>>
           ELSE Refreshed(c)
        /\ seeded' = [seeded EXCEPT ![p] = @ \/ pc[c] = "restore"]
        /\ UNCHANGED <<row, key, loop, hand, admin, changes, faults>>

\* _seed_from_env: does the table have a row of the provider?
SeedCheck(c) ==
    /\ pc[c] = "seed"
    /\ \/ /\ \E k \in Keys : row[k].status \in Present
          /\ Goto(c, "reread")
          /\ UNCHANGED seeded
       \/ /\ \A k \in Keys : row[k].status \notin Present
          /\ Goto(c, "insert")
          /\ seeded' = [seeded EXCEPT ![ProcessOf[c]] = TRUE]
    /\ UNCHANGED <<row, cache, fresh, lock, read, key, loopVars, admin, changes, faults>>

\* The row is inserted, and the rows are loaded once more.  (Nothing is if the
\* bound on ids is reached.)
SeedInsert(c) ==
    /\ pc[c] = "insert"
    /\ \/ \E k \in Keys : /\ row[k].status = "unused"
                          /\ row' = [row EXCEPT ![k] = ActiveRow]
       \/ (\A k \in Keys : row[k].status # "unused") /\ UNCHANGED row
    /\ Goto(c, "reread")
    /\ UNCHANGED <<listVars, key, loopVars, admin, changes, faults>>

\* An exception in _refresh_cache is logged and swallowed; _keys stays.
RefreshFails(c) ==
    /\ pc[c] \in Refreshing /\ Fault
    /\ Refreshed(c)
    /\ read' = [read EXCEPT ![ProcessOf[c]] = NoList]
    /\ UNCHANGED <<row, cache, seeded, key, loopVars, admin, changes>>

\* The caller gives up (wait_for): the lock is released, the age is not reset,
\* and a mark that is not in the table yet is lost to it.
Cancel(c) ==
    LET p == ProcessOf[c]
    IN  /\ pc[c] # "idle" /\ Fault
        /\ IF lock[p] = c
           THEN /\ lock' = [lock EXCEPT ![p] = None]
                /\ read' = [read EXCEPT ![p] = NoList]
           ELSE UNCHANGED <<lock, read>>
        /\ Goto(c, "idle")
        /\ key' = [key EXCEPT ![c] = None]
        /\ UNCHANGED <<row, cache, fresh, seeded, loopVars, admin, changes>>

-----------------------------------------------------------------------------
(* A call: the request *)

Active(p) == {k \in Keys : cache[p][k] = "active"}

\* The rest of get_next_key: the recovery loop is started, a key is chosen;
\* if there is none the key of the environment is used (None).
Choose(c) ==
    LET p == ProcessOf[c]
    IN  /\ \/ pc[c] = "choose"
           \/ pc[c] = "idle" /\ fresh[p]
        /\ lock[p] = None
        /\ loop' = [loop EXCEPT ![p] = IF @ = "none" THEN "sleep" ELSE @]
        /\ \/ \E k \in Active(p) : key' = [key EXCEPT ![c] = k]
           \/ Active(p) = {} /\ key' = [key EXCEPT ![c] = None]
        /\ Goto(c, "request")
        /\ UNCHANGED <<row, listVars, todo, hand, attached, admin, changes, faults>>

Done(c) ==
    /\ Goto(c, "idle")
    /\ key' = [key EXCEPT ![c] = None]

\* An answer, or an error that says nothing about the key.
Answered(c) ==
    /\ pc[c] = "request"
    /\ Done(c)
    /\ UNCHANGED <<row, listVars, loopVars, admin, changes, faults>>

\* The entry of k in _keys, if it has one.
SetEntry(p, k, e) ==
    cache' = [cache EXCEPT ![p][k] = IF @ = "absent" THEN @ ELSE e]

\* 429: mark_rate_limited, in memory and then in the table.
TooMany(c) ==
    /\ pc[c] = "request" /\ key[c] # None
    /\ SetEntry(ProcessOf[c], key[c], "limited")
    /\ Goto(c, "limit")
    /\ UNCHANGED <<row, fresh, lock, read, seeded, key, loopVars, admin, changes, faults>>

LimitedRow == [status |-> "rate_limited", until |-> "future"]

LimitRow(c) ==
    /\ pc[c] = "limit"
    /\ UpdateRow(key[c], LimitedRow)
    /\ Done(c)
    /\ UNCHANGED <<listVars, loopVars, admin, changes>>

\* 401, 403: mark_key_invalid, likewise.
Rejected(c) ==
    /\ pc[c] = "request" /\ key[c] # None
    /\ SetEntry(ProcessOf[c], key[c], "disabled")
    /\ Goto(c, "disable")
    /\ UNCHANGED <<row, fresh, lock, read, seeded, key, loopVars, admin, changes, faults>>

DisableRow(c) ==
    /\ pc[c] = "disable"
    /\ UpdateRow(key[c], [row[key[c]] EXCEPT !.status = "disabled"])
    /\ Done(c)
    /\ UNCHANGED <<listVars, loopVars, admin, changes>>

-----------------------------------------------------------------------------
(* _auto_recover_loop *)

LoopTo(p, step) == loop' = [loop EXCEPT ![p] = step]

\* The walk goes on with the keys in some: an entry whose time is over (a
\* choice: each process has read its clock once) comes back, and its row is to
\* follow; or there is none.
WalkOn(p, some) ==
    \/ /\ \E k \in IF attached[p] THEN Limited(p, some) ELSE some :
             /\ cache' = IF attached[p] THEN [cache EXCEPT ![p][k] = "active"] ELSE cache
             /\ hand' = [hand EXCEPT ![p] = k]
             /\ todo' = [todo EXCEPT ![p] = some \ {k}]
       /\ LoopTo(p, "write")
       /\ UNCHANGED attached
    \/ /\ LoopTo(p, "scan")
       /\ todo' = [todo EXCEPT ![p] = {}]
       /\ hand' = [hand EXCEPT ![p] = None]
       /\ attached' = [attached EXCEPT ![p] = TRUE]
       /\ UNCHANGED cache

WakeUp(p) ==
    /\ loop[p] = "sleep"
    /\ WalkOn(p, {k \in Keys : cache[p][k] # "absent"})
    /\ UNCHANGED <<row, fresh, lock, read, seeded, callVars, admin, changes, faults>>

\* _reactivate_in_db.
WalkWrite(p) ==
    /\ loop[p] = "write"
    /\ UpdateRow(hand[p], ActiveRow)
    /\ WalkOn(p, todo[p])
    /\ UNCHANGED <<fresh, lock, read, seeded, callVars, admin, changes>>

\* The rows that the SELECT of the loop returns.
OverdueWhateverStatus(r) == r.until = "past"                       \* a mutant
OverdueIfCool(r) == r.status = "rate_limited" /\ r.until = "future"  \* a mutant
Overdue(r) == r.status = "rate_limited" /\ r.until = "past"

Scan(p) ==
    LET some == {k \in Keys : Overdue(row[k])}
    IN  /\ loop[p] = "scan"
        /\ todo' = [todo EXCEPT ![p] = some]
        /\ LoopTo(p, IF some = {} THEN "sleep" ELSE "rows")
        /\ UNCHANGED <<row, listVars, callVars, hand, attached, admin, changes, faults>>

ScanFails(p) ==
    /\ loop[p] = "scan" /\ Fault
    /\ LoopTo(p, "sleep")
    /\ UNCHANGED <<row, listVars, callVars, todo, hand, attached, admin, changes>>

RowWrite(p) ==
    /\ loop[p] = "rows"
    /\ \E k \in todo[p] :
          /\ UpdateRow(k, ActiveRow)
          /\ hand' = [hand EXCEPT ![p] = k]
          /\ todo' = [todo EXCEPT ![p] = @ \ {k}]
    /\ LoopTo(p, "apply")
    /\ UNCHANGED <<listVars, callVars, attached, admin, changes>>

\* The entry follows, also if the statement failed.
RowApply(p) ==
    /\ loop[p] = "apply"
    /\ SetEntry(p, hand[p], "active")
    /\ hand' = [hand EXCEPT ![p] = None]
    /\ LoopTo(p, IF todo[p] = {} THEN "sleep" ELSE "rows")
    /\ UNCHANGED <<row, fresh, lock, read, seeded, callVars, todo, attached, admin,
                   changes, faults>>

-----------------------------------------------------------------------------
(* The administrator *)

\* create_api_key.
Create(a) ==
    /\ admin[a].step = "idle" /\ changes < MaxChanges
    /\ \E k \in Keys : row[k].status = "unused" /\ row' = [row EXCEPT ![k] = ActiveRow]
    /\ admin' = [admin EXCEPT ![a].step = "invalidate"]
    /\ changes' = changes + 1
    /\ UNCHANGED <<listVars, callVars, loopVars, faults>>

ActiveRows == {k \in Keys : row[k].status = "active"}

\* update_api_key, activate_api_key and delete_api_key read the row; the last
\* one refuses to delete the last active key.
ReadRow(a, k, op) ==
    /\ admin[a].step = "idle" /\ changes < MaxChanges
    /\ row[k].status \in Present
    /\ op = "delete" /\ row[k].status = "active" => Cardinality(ActiveRows) > 1
    /\ admin' = [admin EXCEPT ![a] =
                    [step |-> "write", key |-> k,
                     op |-> IF op = row[k].status THEN "none" ELSE op,
                     clear |-> op \in {"active", "disabled"} /\ row[k].until # "none"]]
    /\ changes' = changes + 1
    /\ UNCHANGED <<row, listVars, callVars, loopVars, faults>>

\* The ORM writes the columns that differ from what was read.
Changed(r, op, clear) ==
    [status |-> IF op = "none" THEN r.status ELSE op,
     until |-> IF clear THEN "none" ELSE r.until]

\* The row is written, unless it is gone.
WriteRow(a) ==
    LET k == admin[a].key
        op == admin[a].op
    IN  /\ admin[a].step = "write"
        /\ \/ /\ op = "delete" /\ row[k].status \in Present
              /\ row' = [row EXCEPT ![k] = [status |-> "deleted", until |-> "none"]]
              /\ admin' = [admin EXCEPT ![a] = [NoRequest EXCEPT !.step = "invalidate"]]
           \/ /\ op # "delete" /\ row[k].status \in Present
              /\ row' = [row EXCEPT ![k] = Changed(@, op, admin[a].clear)]
              /\ admin' = [admin EXCEPT ![a] = [NoRequest EXCEPT !.step = "invalidate"]]
           \/ /\ row[k].status \notin Present
              /\ admin' = [admin EXCEPT ![a] = NoRequest]
              /\ UNCHANGED row
        /\ UNCHANGED <<listVars, callVars, loopVars, changes, faults>>

\* invalidate_cache, in the administrator's process only.
Invalidate(a) ==
    /\ admin[a].step = "invalidate"
    /\ fresh' = [fresh EXCEPT ![Api] = FALSE]
    /\ admin' = [admin EXCEPT ![a] = NoRequest]
    /\ UNCHANGED <<row, cache, lock, read, seeded, callVars, loopVars, changes, faults>>

-----------------------------------------------------------------------------
(* Time *)

GrowOld(p) ==
    /\ fresh[p]
    /\ fresh' = [fresh EXCEPT ![p] = FALSE]
    /\ UNCHANGED <<row, cache, lock, read, seeded, callVars, loopVars, admin, changes, faults>>

\* rate_limited_until passes.
CoolRow(k) ==
    /\ row[k].until = "future"
    /\ row' = [row EXCEPT ![k].until = "past"]
    /\ UNCHANGED <<listVars, callVars, loopVars, admin, changes, faults>>

-----------------------------------------------------------------------------

\* What a call does once it has begun.
Continue(c) ==
    \/ Reread(c) \/ Store(c) \/ SeedCheck(c) \/ SeedInsert(c) \/ RefreshFails(c)
    \/ pc[c] # "idle" /\ Choose(c)
    \/ Answered(c) \/ TooMany(c) \/ LimitRow(c) \/ Rejected(c) \/ DisableRow(c)

LoopStep(p) ==
    \/ WakeUp(p) \/ WalkWrite(p) \/ Scan(p) \/ ScanFails(p) \/ RowWrite(p) \/ RowApply(p)

AdminStep(a) ==
    \/ Create(a)
    \/ \E k \in Keys, op \in Present \cup {"delete"} : ReadRow(a, k, op)
    \/ WriteRow(a)
    \/ Invalidate(a)

KeysNext ==
    \/ \E c \in Calls : Acquire(c) \/ Choose(c) \/ Continue(c) \/ Cancel(c)
    \/ \E p \in Processes : LoopStep(p) \/ GrowOld(p)
    \/ \E k \in Keys : CoolRow(k)
    \/ \E a \in Admins : AdminStep(a)

KeysSpec == KeysInit /\ [][KeysNext]_vars

\* Coroutines go on, an HTTP request ends (its timeout is 300 seconds), time
\* passes.  Nobody has to ask, to be limited or to fail.
FairKeysSpec ==
    /\ KeysSpec
    /\ \A c \in Calls : WF_vars(Continue(c))
    /\ \A p \in Processes : WF_vars(LoopStep(p))
    /\ \A k \in Keys : WF_vars(CoolRow(k))

-----------------------------------------------------------------------------
(* Properties *)

\* Nothing that is under way can enable key k again: no call has it, no cache
\* shows it usable, none is about to, and no loop is going to write it.
Quiet(k) ==
    /\ row[k].status = "disabled"
    /\ \A c \in Calls : key[c] = k => pc[c] = "disable"
    /\ \A p \in Processes :
          /\ cache[p][k] \in {"absent", "disabled"}
          /\ read[p][k] = "absent"
          /\ hand[p] # k
          /\ k \in todo[p] => attached[p] /\ loop[p] = "write"

\* Once the calls, refreshes and loops that have seen a disabled key usable are
\* over, it comes back, to the table or to any cache, only by an administrator:
\* the loops, which reactivate by id whatever the status is then, never write it.
QuietKeysStayQuiet ==
    [][\A k \in Keys :
         Quiet(k) => Quiet(k)' \/ \E a \in Admins : WriteRow(a) /\ admin[a].key = k]_vars

\* "Periodically reactivate keys whose rate-limit cooldown has expired"
\* (_auto_recover_loop): whatever has become of the entry in the cache, and of
\* the loop's own statements, a row that a 429 has limited does not stay so.
LimitsEnd ==
    \A k \in Keys : row[k].status = "rate_limited" /\ row[k].until # "none"
                        ~> ~(row[k].status = "rate_limited" /\ row[k].until # "none")
=============================================================================
