------------------------------ MODULE WikiQueue ------------------------------
(***************************************************************************)
(* The Redis wiki queue: the list wiki:queue and the set                   *)
(* wiki:queue_dedup_set (infrastructure/persistence/redis/wiki_queue.py),  *)
(* with the sweeper's _requeue_classified, which works on the same two     *)
(* keys (application/use_cases/ingestion/stale_recovery.py).               *)
(*                                                                         *)
(* A Redis command is atomic; a function that sends several commands is    *)
(* not.  Each action below is one command (with the local computation that *)
(* follows it), so the commands of concurrent callers interleave freely.   *)
(*   Pushers   - callers of push_wiki_job (CPU workers, the admin API)     *)
(*   Poppers   - the wiki consumers: pop_wiki_job, and push_wiki_job for a *)
(*               retry                                                     *)
(*   Cleaners  - the sweepers: _requeue_classified                         *)
(*   Operators - whoever runs clear_duplicates by hand                     *)
(*                                                                         *)
(* Two things go wrong.  A call may be cut between two commands.  And a    *)
(* command may be executed although its reply does not come within         *)
(* socket_timeout; the connection is made with retry_on_timeout, so the    *)
(* client sends the same command again.                                    *)
(***************************************************************************)
EXTENDS Naturals, Sequences, FiniteSets, SequencesExt

CONSTANTS
    Items,       \* source item ids
    Pushers,
    Poppers,
    Cleaners,
    Operators,
    MaxFaults,   \* bound: calls cut by a crash or an exception, and replies lost
    None         \* no item

Clients == Pushers \cup Poppers \cup Cleaners \cup Operators

ASSUME QueueAssumption ==
    /\ Pushers \cap Poppers = {}
    /\ (Pushers \cup Poppers) \cap Cleaners = {}
    /\ (Pushers \cup Poppers \cup Cleaners) \cap Operators = {}
    /\ MaxFaults \in Nat
    /\ None \notin Items

VARIABLES
    queue,    \* the Redis list wiki:queue
    dedup,    \* the Redis set wiki:queue_dedup_set
    pc,       \* pc[p]: the command that client p sends next
    hand,     \* hand[p]: the item of the call in progress
    seen,     \* seen[p]: a cleaner's dedup_members, then its orphans
    todo,     \* todo[p]: the item ids a cleaner still has to re-queue
    uniq,     \* uniq[p]: the operator's list of first occurrences
    cuts,     \* calls cut so far
    resent    \* commands whose reply was lost so far

queueVars == <<queue, dedup, pc, hand, seen, todo, uniq, cuts, resent>>

Commands == {"idle", "sadd", "rpush", "srem", "lrange", "clean", "requeue",
             "del queue", "del dedup", "restore queue", "restore dedup"}

QueueTypeOK ==
    /\ queue \in Seq(Items)
    /\ dedup \subseteq Items
    /\ pc \in [Clients -> Commands]
    /\ hand \in [Clients -> Items \cup {None}]
    /\ seen \in [Clients -> SUBSET Items]
    /\ todo \in [Clients -> SUBSET Items]
    /\ uniq \in [Clients -> Seq(Items)]
    /\ cuts \in Nat /\ resent \in Nat /\ cuts + resent <= MaxFaults

QueueInit ==
    /\ queue = <<>>
    /\ dedup = {}
    /\ pc = [p \in Clients |-> "idle"]
    /\ hand = [p \in Clients |-> None]
    /\ seen = [p \in Clients |-> {}]
    /\ todo = [p \in Clients |-> {}]
    /\ uniq = [p \in Clients |-> <<>>]
    /\ cuts = 0
    /\ resent = 0

\* The items on the list (LRANGE 0 -1 as a set).
Listed == Range(queue)

\* Where a push ends: a cleaner goes on to the next id of its loop.
Returns(p) == IF p \in Cleaners THEN "requeue" ELSE "idle"

\* One more command has been executed without a reply.
ReplyLost == cuts + resent < MaxFaults /\ resent' = resent + 1

-----------------------------------------------------------------------------
(* push_wiki_job *)

\* Mutant: the result of SADD is not looked at.
PushSAddUnchecked(p, x) ==
    /\ pc[p] = "idle"
    /\ dedup' = dedup \cup {x}
    /\ pc' = [pc EXCEPT ![p] = "rpush"]
    /\ hand' = [hand EXCEPT ![p] = x]
    /\ UNCHANGED <<queue, seen, todo, uniq, cuts, resent>>

\* Mutant: the item is lost on the way to RPUSH.
PushSAddForgetful(p, x) ==
    /\ pc[p] = "idle"
    /\ x \notin dedup
    /\ dedup' = dedup \cup {x}
    /\ pc' = [pc EXCEPT ![p] = "rpush"]
    /\ UNCHANGED <<queue, hand, seen, todo, uniq, cuts, resent>>

\* SADD; an item that is in the set already is skipped and the call returns.
PushSAdd(p, x) ==
    /\ pc[p] = "idle"
    /\ IF x \in dedup
       THEN UNCHANGED <<dedup, pc, hand>>
       ELSE /\ dedup' = dedup \cup {x}
            /\ pc' = [pc EXCEPT ![p] = "rpush"]
            /\ hand' = [hand EXCEPT ![p] = x]
    /\ UNCHANGED <<queue, seen, todo, uniq, cuts, resent>>

\* SADD is executed and its reply is lost; the client has x to send again.
LoseSAdd(p, x) ==
    /\ pc[p] = "idle"
    /\ ReplyLost
    /\ dedup' = dedup \cup {x}
    /\ pc' = [pc EXCEPT ![p] = "sadd"]
    /\ hand' = [hand EXCEPT ![p] = x]
    /\ UNCHANGED <<queue, seen, todo, uniq, cuts>>

\* The SADD that is sent again says 0 if the first one added the item, and then
\* the push is skipped.
ResendSAdd(p) ==
    /\ pc[p] = "sadd"
    /\ IF hand[p] \in dedup
       THEN /\ pc' = [pc EXCEPT ![p] = Returns(p)]
            /\ hand' = [hand EXCEPT ![p] = None]
            /\ UNCHANGED dedup
       ELSE /\ dedup' = dedup \cup {hand[p]}
            /\ pc' = [pc EXCEPT ![p] = "rpush"]
            /\ UNCHANGED hand
    /\ UNCHANGED <<queue, seen, todo, uniq, cuts, resent>>

\* RPUSH.
PushRPush(p) ==
    /\ pc[p] = "rpush"
    /\ queue' = Append(queue, hand[p])
    /\ pc' = [pc EXCEPT ![p] = Returns(p)]
    /\ hand' = [hand EXCEPT ![p] = None]
    /\ UNCHANGED <<dedup, seen, todo, uniq, cuts, resent>>

(* pop_wiki_job *)

\* Mutant: the head of the list is read and stays there.
PopPeek(c) ==
    /\ pc[c] = "idle"
    /\ queue # <<>>
    /\ pc' = [pc EXCEPT ![c] = "srem"]
    /\ hand' = [hand EXCEPT ![c] = Head(queue)]
    /\ UNCHANGED <<queue, dedup, seen, todo, uniq, cuts, resent>>

\* BLPOP.  On an empty list it times out and the caller asks again.
PopBLPop(c) ==
    /\ pc[c] = "idle"
    /\ queue # <<>>
    /\ queue' = Tail(queue)
    /\ pc' = [pc EXCEPT ![c] = "srem"]
    /\ hand' = [hand EXCEPT ![c] = Head(queue)]
    /\ UNCHANGED <<dedup, seen, todo, uniq, cuts, resent>>

\* BLPOP is executed and its reply is lost: the item is off the list, and the
\* client, which knows nothing of it, asks again.
LoseBLPop(c) ==
    /\ pc[c] = "idle"
    /\ queue # <<>>
    /\ ReplyLost
    /\ queue' = Tail(queue)
    /\ UNCHANGED <<dedup, pc, hand, seen, todo, uniq, cuts>>

\* Mutant: the item stays in the set.
PopWithoutSRem(c) ==
    /\ pc[c] = "srem"
    /\ pc' = [pc EXCEPT ![c] = "idle"]
    /\ hand' = [hand EXCEPT ![c] = None]
    /\ UNCHANGED <<queue, dedup, seen, todo, uniq, cuts, resent>>

\* SREM; the item is returned to the caller.
PopSRem(c) ==
    /\ pc[c] = "srem"
    /\ dedup' = dedup \ {hand[c]}
    /\ pc' = [pc EXCEPT ![c] = "idle"]
    /\ hand' = [hand EXCEPT ![c] = None]
    /\ UNCHANGED <<queue, seen, todo, uniq, cuts, resent>>

-----------------------------------------------------------------------------
(* _requeue_classified(ids), which returns at once if there are no ids *)

CleanSMembers(s, ids) ==
    /\ pc[s] = "idle"
    /\ ids # {}
    /\ seen' = [seen EXCEPT ![s] = dedup]
    /\ todo' = [todo EXCEPT ![s] = ids]
    /\ pc' = [pc EXCEPT ![s] = "lrange"]
    /\ UNCHANGED <<queue, dedup, hand, uniq, cuts, resent>>

\* Mutant: the difference is taken the wrong way round.
CleanLRangeSwapped(s) ==
    /\ pc[s] = "lrange"
    /\ LET orphans == Listed \ seen[s] IN
         /\ seen' = [seen EXCEPT ![s] = orphans]
         /\ pc' = [pc EXCEPT ![s] = IF orphans # {} THEN "clean" ELSE "requeue"]
    /\ UNCHANGED <<queue, dedup, hand, todo, uniq, cuts, resent>>

\* LRANGE, and the set difference.
CleanLRange(s) ==
    /\ pc[s] = "lrange"
    /\ LET orphans == seen[s] \ Listed IN
         /\ seen' = [seen EXCEPT ![s] = orphans]
         /\ pc' = [pc EXCEPT ![s] = IF orphans # {} THEN "clean" ELSE "requeue"]
    /\ UNCHANGED <<queue, dedup, hand, todo, uniq, cuts, resent>>

CleanSRem(s) ==
    /\ pc[s] = "clean"
    /\ dedup' = dedup \ seen[s]
    /\ seen' = [seen EXCEPT ![s] = {}]
    /\ pc' = [pc EXCEPT ![s] = "requeue"]
    /\ UNCHANGED <<queue, hand, todo, uniq, cuts, resent>>

\* The loop over item_ids: SADD, and RPUSH (above) only if it was added.
RequeueSAdd(s, x) ==
    /\ pc[s] = "requeue"
    /\ x \in todo[s]
    /\ todo' = [todo EXCEPT ![s] = @ \ {x}]
    /\ IF x \in dedup
       THEN UNCHANGED <<dedup, pc, hand>>
       ELSE /\ dedup' = dedup \cup {x}
            /\ pc' = [pc EXCEPT ![s] = "rpush"]
            /\ hand' = [hand EXCEPT ![s] = x]
    /\ UNCHANGED <<queue, seen, uniq, cuts, resent>>

\* As LoseSAdd, in the loop.
LoseRequeueSAdd(s, x) ==
    /\ pc[s] = "requeue"
    /\ x \in todo[s]
    /\ ReplyLost
    /\ todo' = [todo EXCEPT ![s] = @ \ {x}]
    /\ dedup' = dedup \cup {x}
    /\ pc' = [pc EXCEPT ![s] = "sadd"]
    /\ hand' = [hand EXCEPT ![s] = x]
    /\ UNCHANGED <<queue, seen, uniq, cuts>>

RequeueDone(s) ==
    /\ pc[s] = "requeue"
    /\ todo[s] = {}
    /\ pc' = [pc EXCEPT ![s] = "idle"]
    /\ UNCHANGED <<queue, dedup, hand, seen, todo, uniq, cuts, resent>>

-----------------------------------------------------------------------------
(* clear_duplicates *)

IsUnique(q) == \A j, k \in DOMAIN q : q[j] = q[k] => j = k

\* The loop that keeps the first occurrence of each item.
FirstOccurrences(q) ==
    FoldLeft(LAMBDA kept, x : IF x \in Range(kept) THEN kept ELSE Append(kept, x),
             <<>>, q)

ClearLRange(o) ==
    /\ pc[o] = "idle"
    /\ ~IsUnique(queue)
    /\ uniq' = [uniq EXCEPT ![o] = FirstOccurrences(queue)]
    /\ pc' = [pc EXCEPT ![o] = "del queue"]
    /\ UNCHANGED <<queue, dedup, hand, seen, todo, cuts, resent>>

ClearDelQueue(o) ==
    /\ pc[o] = "del queue"
    /\ queue' = <<>>
    /\ pc' = [pc EXCEPT ![o] = "del dedup"]
    /\ UNCHANGED <<dedup, hand, seen, todo, uniq, cuts, resent>>

ClearDelDedup(o) ==
    /\ pc[o] = "del dedup"
    /\ dedup' = {}
    /\ pc' = [pc EXCEPT ![o] = "restore queue"]
    /\ UNCHANGED <<queue, hand, seen, todo, uniq, cuts, resent>>

ClearRestoreQueue(o) ==
    /\ pc[o] = "restore queue"
    /\ queue' = queue \o uniq[o]
    /\ pc' = [pc EXCEPT ![o] = "restore dedup"]
    /\ UNCHANGED <<dedup, hand, seen, todo, uniq, cuts, resent>>

ClearRestoreDedup(o) ==
    /\ pc[o] = "restore dedup"
    /\ dedup' = dedup \cup Range(uniq[o])
    /\ uniq' = [uniq EXCEPT ![o] = <<>>]
    /\ pc' = [pc EXCEPT ![o] = "idle"]
    /\ UNCHANGED <<queue, hand, seen, todo, cuts, resent>>

-----------------------------------------------------------------------------
\* The next command of p, when it is one that writes and that can be repeated as
\* it is, is executed and its reply is lost: p will send it again.
LoseReply(p) ==
    /\ ReplyLost
    /\ \/ pc[p] = "sadd" /\ dedup' = dedup \cup {hand[p]} /\ UNCHANGED queue
       \/ pc[p] = "rpush" /\ queue' = Append(queue, hand[p]) /\ UNCHANGED dedup
       \/ pc[p] = "srem" /\ dedup' = dedup \ {hand[p]} /\ UNCHANGED queue
       \/ pc[p] = "clean" /\ dedup' = dedup \ seen[p] /\ UNCHANGED queue
       \/ pc[p] = "del queue" /\ queue' = <<>> /\ UNCHANGED dedup
       \/ pc[p] = "del dedup" /\ dedup' = {} /\ UNCHANGED queue
       \/ pc[p] = "restore queue" /\ queue' = queue \o uniq[p] /\ UNCHANGED dedup
       \/ /\ pc[p] = "restore dedup"
          /\ dedup' = dedup \cup Range(uniq[p])
          /\ UNCHANGED queue
    /\ UNCHANGED <<pc, hand, seen, todo, uniq, cuts>>

\* The rest of a call is never sent; what has reached Redis stays there.
Abandon(p) ==
    /\ pc' = [pc EXCEPT ![p] = "idle"]
    /\ hand' = [hand EXCEPT ![p] = None]
    /\ seen' = [seen EXCEPT ![p] = {}]
    /\ todo' = [todo EXCEPT ![p] = {}]
    /\ uniq' = [uniq EXCEPT ![p] = <<>>]
    /\ UNCHANGED <<queue, dedup>>

\* The process dies, or the connection breaks, between two commands.
Cut(p) ==
    /\ cuts + resent < MaxFaults
    /\ cuts' = cuts + 1
    /\ UNCHANGED resent
    /\ Abandon(p)

Push(p)  == PushRPush(p) \/ ResendSAdd(p) \/ \E x \in Items : PushSAdd(p, x)
Pop(c)   == PopBLPop(c) \/ PopSRem(c)
CleanOn(s) == \/ CleanLRange(s)
              \/ CleanSRem(s)
              \/ \E x \in Items : RequeueSAdd(s, x)
              \/ ResendSAdd(s)
              \/ PushRPush(s)
              \/ RequeueDone(s)
Clean(s) == CleanOn(s) \/ \E ids \in SUBSET Items : CleanSMembers(s, ids)
Clear(o) == \/ ClearLRange(o)
            \/ ClearDelQueue(o)
            \/ ClearDelDedup(o)
            \/ ClearRestoreQueue(o)
            \/ ClearRestoreDedup(o)

QueueNext ==
    \/ \E p \in Pushers : Push(p)
    \/ \E c \in Poppers : Push(c) \/ Pop(c)
    \/ \E s \in Cleaners : Clean(s)
    \/ \E o \in Operators : Clear(o)
    \/ \E p \in Clients : Cut(p) \/ LoseReply(p)
    \/ \E c \in Poppers : LoseBLPop(c)
    \/ \E p \in Pushers \cup Poppers, x \in Items : LoseSAdd(p, x)
    \/ \E s \in Cleaners, x \in Items : LoseRequeueSAdd(s, x)

QueueSpec == QueueInit /\ [][QueueNext]_queueVars

\* A call that has begun goes on, and a consumer asks for the next job for ever.
\* A sweeper calls _requeue_classified only when some item is classified, so
\* nothing obliges it to begin.
QueueFairness ==
    /\ \A p \in Pushers \cup Poppers : WF_queueVars(PushRPush(p) \/ ResendSAdd(p))
    /\ \A c \in Poppers : WF_queueVars(Pop(c))
    /\ \A s \in Cleaners : WF_queueVars(CleanOn(s))

FairQueueSpec == QueueSpec /\ QueueFairness

-----------------------------------------------------------------------------
\* The jobs that Redis or a call in progress still holds.
InHand == {hand[p] : p \in {q \in Clients : pc[q] \in {"rpush", "srem"}}}
Outstanding == Listed \cup InHand

Positions(q, x) == {k \in DOMAIN q : q[k] = x}
Copies(x) == Cardinality(Positions(queue, x))

\* The module's promise that the dedup set "prevents queue bloat": push and pop
\* alone, even cut by crashes, never put two copies of an item on the list.
NoDuplicates == IsUnique(queue)

\* What makes the promise true: an item on the list, or on its way from or to
\* the list, is in the set, so every other push of it is skipped.
TrackedWhileOutstanding == Outstanding \subseteq dedup

\* push_wiki_job skips an item that is in the set.  The skip loses no job: such
\* an item is on the list, or a pusher is about to append it, or a popper has
\* taken it and is about to hand it to the consumer.
SkippedPushIsOutstanding == dedup \subseteq Outstanding

\* The list cannot grow without limit, however many times the sweepers, the
\* retries and the operator run.  A removal from the set that was decided before
\* the item came back to the list lets one more copy of it in, and each client
\* can have one such removal (an operator two) under way at a time.  Only a lost
\* reply adds a copy for good: an RPUSH sent again appends the item again, an SREM
\* sent again may remove an entry that a push has made in the meantime.
BoundedBloat ==
    \A x \in Items :
        Copies(x) <= Cardinality(Clients) + Cardinality(Operators) + 1 + resent

\* Without sweeps and crashes the two keys implement a set of pending jobs: a
\* skipped push has no effect, BLPOP hands a job to one consumer only, and every
\* job on the list reaches a consumer.
Jobs == INSTANCE PendingJobs WITH
    Jobs <- Items,
    Consumers <- Poppers,
    NoJob <- None,
    pending <- Listed \cup {hand[p] : p \in {q \in Clients : pc[q] = "rpush"}},
    taken <- [c \in Poppers |-> IF pc[c] = "srem" THEN hand[c] ELSE None]

ImplementsPendingJobs == Jobs!Spec

\* A crash between SADD and RPUSH, or between BLPOP and SREM, or a lost reply to
\* SADD or BLPOP, leaves an item in the set that is nowhere else, and every push
\* of it is skipped.  The sweepers put an end to that ("Clean orphaned dedup
\* entries") for every item that they are asked for again and again, as they are
\* for a classified one; for another item an orphan may stay for ever.
Orphaned(x) == x \in dedup \ Outstanding
AskedFor(x) == \E s \in Cleaners : x \in todo[s]
OrphansAreRepaired ==
    \A x \in Items : []<>AskedFor(x) => (Orphaned(x) ~> ~Orphaned(x))
=============================================================================
