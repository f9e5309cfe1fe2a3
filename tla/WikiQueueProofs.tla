--------------------------- MODULE WikiQueueProofs ---------------------------
(***************************************************************************)
(* Theorems about WikiQueue, for every number of clients, items and cuts.  *)
(*                                                                         *)
(* clear_duplicates, which nothing in the program calls, is left out       *)
(* (Operators = {}) throughout: it computes its list by a fold, and facts  *)
(* about folds need an induction that the provers cannot instantiate.      *)
(***************************************************************************)
EXTENDS WikiQueue, FiniteSetTheorems, SequenceTheorems, TLAPS

-----------------------------------------------------------------------------
(* The steps, with their clients *)

LEMMA Steps ==
  ASSUME Operators = {}, QueueNext
  PROVE  \/ \E p \in Clients, x \in Items : PushSAdd(p, x)
         \/ \E p \in Clients : ResendSAdd(p)
         \/ \E p \in Clients : PushRPush(p)
         \/ \E c \in Poppers : PopBLPop(c)
         \/ \E c \in Poppers : PopSRem(c)
         \/ \E s \in Cleaners, ids \in SUBSET Items : CleanSMembers(s, ids)
         \/ \E s \in Cleaners : CleanLRange(s)
         \/ \E s \in Cleaners : CleanSRem(s)
         \/ \E s \in Cleaners, x \in Items : RequeueSAdd(s, x)
         \/ \E s \in Cleaners : RequeueDone(s)
         \/ \E p \in Clients : Cut(p)
         \/ \E p \in Clients : LoseReply(p)
         \/ \E c \in Poppers : LoseBLPop(c)
         \/ \E p \in Clients, x \in Items : LoseSAdd(p, x)
         \/ \E s \in Cleaners, x \in Items : LoseRequeueSAdd(s, x)
  BY Zenon DEF QueueNext, Push, Pop, Clean, CleanOn, Clients

\* No reply is lost in the steps that count none as lost.
LEMMA NoReplyLost ==
  ASSUME resent \in Nat, resent' = resent
  PROVE  ~ReplyLost
  BY DEF ReplyLost

-----------------------------------------------------------------------------
(* Type correctness *)

\* A client between two commands of a push or a pop has an item in hand.
HandFull == \A p \in Clients : pc[p] \in {"sadd", "rpush", "srem"} => hand[p] \in Items

\* Nobody is in the middle of clear_duplicates.
NoClear == \A p \in Clients :
    pc[p] \notin {"del queue", "del dedup", "restore queue", "restore dedup"}

TypeInv == QueueTypeOK /\ HandFull /\ NoClear

LEMMA InitTyped == QueueInit => TypeInv
  BY QueueAssumption DEF QueueInit, TypeInv, QueueTypeOK, HandFull, NoClear, Commands

LEMMA StepTyped ==
  ASSUME Operators = {}, TypeInv, [QueueNext]_queueVars
  PROVE  TypeInv'
<1> USE QueueAssumption DEF TypeInv, QueueTypeOK, HandFull, NoClear, Commands, Returns
<1>1. ASSUME NEW p \in Clients, NEW x \in Items, PushSAdd(p, x)
      PROVE  TypeInv'
  <2>1. CASE x \in dedup
    BY <1>1, <2>1 DEF PushSAdd
  <2>2. CASE x \notin dedup
    <3>1. /\ dedup' = dedup \cup {x} /\ pc' = [pc EXCEPT ![p] = "rpush"]
          /\ hand' = [hand EXCEPT ![p] = x]
          /\ UNCHANGED <<queue, seen, todo, uniq, cuts, resent>>
      BY <1>1, <2>2 DEF PushSAdd
    <3>2. QueueTypeOK'
      BY <3>1
    <3>3. HandFull' /\ NoClear'
      BY <3>1
    <3>4. QED
      BY <3>2, <3>3
  <2>3. QED
    BY <2>1, <2>2
<1>2. ASSUME NEW p \in Clients, PushRPush(p)
      PROVE  TypeInv'
  <2>1. hand[p] \in Items
    BY <1>2 DEF PushRPush
  <2>2. queue' \in Seq(Items)
    BY <1>2, <2>1, AppendProperties DEF PushRPush
  <2>3. QED
    BY <1>2, <2>2 DEF PushRPush
<1>3. ASSUME NEW c \in Poppers, PopBLPop(c)
      PROVE  TypeInv'
  <2>1. queue' \in Seq(Items) /\ Head(queue) \in Items
    BY <1>3, HeadTailProperties DEF PopBLPop
  <2>2. QED
    BY <1>3, <2>1 DEF PopBLPop, Clients
<1>4. ASSUME NEW c \in Poppers, PopSRem(c)
      PROVE  TypeInv'
  BY <1>4 DEF PopSRem
<1>5. ASSUME NEW s \in Cleaners, NEW ids \in SUBSET Items, CleanSMembers(s, ids)
      PROVE  TypeInv'
  BY <1>5 DEF CleanSMembers
<1>6. ASSUME NEW s \in Cleaners, CleanLRange(s)
      PROVE  TypeInv'
  BY <1>6 DEF CleanLRange
<1>7. ASSUME NEW s \in Cleaners, CleanSRem(s)
      PROVE  TypeInv'
  BY <1>7 DEF CleanSRem
<1>8. ASSUME NEW s \in Cleaners, NEW x \in Items, RequeueSAdd(s, x)
      PROVE  TypeInv'
  <2>1. CASE x \in dedup
    BY <1>8, <2>1 DEF RequeueSAdd, Clients
  <2>2. CASE x \notin dedup
    <3>1. /\ dedup' = dedup \cup {x} /\ pc' = [pc EXCEPT ![s] = "rpush"]
          /\ hand' = [hand EXCEPT ![s] = x] /\ todo' = [todo EXCEPT ![s] = @ \ {x}]
          /\ UNCHANGED <<queue, seen, uniq, cuts, resent>>
      BY <1>8, <2>2 DEF RequeueSAdd
    <3>2. s \in Clients
      BY DEF Clients
    <3>3. QueueTypeOK'
      BY <3>1, <3>2
    <3>4. HandFull' /\ NoClear'
      BY <3>1, <3>2
    <3>5. QED
      BY <3>3, <3>4
  <2>3. QED
    BY <2>1, <2>2
<1>9. ASSUME NEW s \in Cleaners, RequeueDone(s)
      PROVE  TypeInv'
  BY <1>9 DEF RequeueDone
<1>10. ASSUME NEW p \in Clients, Cut(p)
       PROVE  TypeInv'
  <2>1. cuts' \in Nat /\ resent' \in Nat /\ cuts' + resent' <= MaxFaults
    <3>1. cuts \in Nat /\ resent \in Nat /\ MaxFaults \in Nat
      BY Zenon
    <3>2. cuts + resent < MaxFaults /\ cuts' = cuts + 1 /\ resent' = resent
      BY <1>10, Zenon DEF Cut
    <3> HIDE DEF TypeInv
    <3>3. QED
      BY <3>1, <3>2
  <2>2. uniq' \in [Clients -> Seq(Items)]
    BY <1>10, EmptySeq DEF Cut, Abandon
  <2>3. QED
    BY <1>10, <2>1, <2>2 DEF Cut, Abandon
<1>11. ASSUME NEW p \in Clients, ResendSAdd(p)
       PROVE  TypeInv'
  <2>1. hand[p] \in Items
    BY <1>11 DEF ResendSAdd
  <2>2. /\ UNCHANGED <<queue, seen, todo, uniq, cuts, resent>>
        /\ \/ /\ pc' = [pc EXCEPT ![p] = Returns(p)]
              /\ hand' = [hand EXCEPT ![p] = None] /\ dedup' = dedup
           \/ /\ pc' = [pc EXCEPT ![p] = "rpush"]
              /\ hand' = hand /\ dedup' = dedup \cup {hand[p]}
    <3> HIDE DEF TypeInv, QueueTypeOK, HandFull, NoClear, Returns
    <3>1. QED
      BY <1>11 DEF ResendSAdd
  <2>3. CASE /\ pc' = [pc EXCEPT ![p] = Returns(p)]
             /\ hand' = [hand EXCEPT ![p] = None] /\ dedup' = dedup
    <3>1. QueueTypeOK'
      BY <2>2, <2>3
    <3>2. HandFull' /\ NoClear'
      BY <2>2, <2>3
    <3>3. QED
      BY <3>1, <3>2
  <2>4. CASE /\ pc' = [pc EXCEPT ![p] = "rpush"]
             /\ hand' = hand /\ dedup' = dedup \cup {hand[p]}
    <3>1. QueueTypeOK'
      BY <2>1, <2>2, <2>4
    <3>2. HandFull' /\ NoClear'
      BY <2>1, <2>2, <2>4
    <3>3. QED
      BY <3>1, <3>2
  <2>5. QED
    BY <2>2, <2>3, <2>4
<1>12. ASSUME ReplyLost
       PROVE  resent' \in Nat /\ cuts + resent' <= MaxFaults
  <2>1. cuts \in Nat /\ resent \in Nat /\ MaxFaults \in Nat
    BY Zenon
  <2> HIDE DEF TypeInv
  <2>2. QED
    BY <1>12, <2>1 DEF ReplyLost
<1>13. ASSUME NEW p \in Clients, LoseReply(p)
       PROVE  TypeInv'
  <2>1. /\ resent' \in Nat /\ cuts + resent' <= MaxFaults
        /\ UNCHANGED <<pc, hand, seen, todo, uniq, cuts>>
    BY <1>12, <1>13 DEF LoseReply
  <2>2. /\ dedup' \subseteq Items
        /\ queue' \in Seq(Items)
    <3>1. /\ pc[p] \in {"sadd", "rpush"} => hand[p] \in Items
          /\ pc[p] \notin {"del queue", "del dedup", "restore queue", "restore dedup"}
          /\ queue \in Seq(Items) /\ dedup \subseteq Items
      OBVIOUS
    <3> HIDE DEF TypeInv, QueueTypeOK, HandFull, NoClear
    <3>2. \/ pc[p] = "rpush" /\ queue' = Append(queue, hand[p]) /\ dedup' = dedup
          \/ pc[p] = "sadd" /\ queue' = queue /\ dedup' = dedup \cup {hand[p]}
          \/ queue' = queue /\ dedup' \subseteq dedup
      BY <1>13, <3>1 DEF LoseReply
    <3>3. CASE pc[p] = "rpush" /\ queue' = Append(queue, hand[p]) /\ dedup' = dedup
      BY <3>1, <3>3, AppendProperties
    <3>4. QED
      BY <3>1, <3>2, <3>3
  <2>3. QED
    BY <2>1, <2>2
<1>14. ASSUME NEW c \in Poppers, LoseBLPop(c)
       PROVE  TypeInv'
  <2>1. queue' \in Seq(Items) /\ resent' \in Nat /\ cuts + resent' <= MaxFaults
    BY <1>12, <1>14, HeadTailProperties DEF LoseBLPop
  <2>2. QED
    BY <1>14, <2>1 DEF LoseBLPop
<1>15. ASSUME NEW p \in Clients, NEW x \in Items, LoseSAdd(p, x) \/ LoseRequeueSAdd(p, x)
       PROVE  TypeInv'
  <2>1. /\ resent' \in Nat /\ cuts + resent' <= MaxFaults
        /\ dedup' = dedup \cup {x} /\ pc' = [pc EXCEPT ![p] = "sadd"]
        /\ hand' = [hand EXCEPT ![p] = x]
        /\ todo' = todo \/ todo' = [todo EXCEPT ![p] = @ \ {x}]
        /\ UNCHANGED <<queue, seen, uniq, cuts>>
    <3>1. ReplyLost
      BY <1>15 DEF LoseSAdd, LoseRequeueSAdd
    <3>2. resent' \in Nat /\ cuts + resent' <= MaxFaults
      BY <1>12, <3>1
    <3> HIDE DEF TypeInv, QueueTypeOK, HandFull, NoClear
    <3>3. QED
      BY <1>15, <3>2 DEF LoseSAdd, LoseRequeueSAdd
  <2>2. todo' \in [Clients -> SUBSET Items]
    <3>1. todo \in [Clients -> SUBSET Items] /\ todo[p] \ {x} \in SUBSET Items
      OBVIOUS
    <3> HIDE DEF TypeInv, QueueTypeOK, HandFull, NoClear
    <3>2. QED
      BY <2>1, <3>1
  <2>3. QueueTypeOK'
    <3>1. /\ pc' \in [Clients -> Commands] /\ hand' \in [Clients -> Items \cup {None}]
          /\ dedup' \subseteq Items
      BY <2>1
    <3>2. /\ queue' \in Seq(Items) /\ seen' \in [Clients -> SUBSET Items]
          /\ uniq' \in [Clients -> Seq(Items)] /\ cuts' \in Nat
      BY <2>1
    <3>3. QED
      BY <2>1, <2>2, <3>1, <3>2
  <2>4. HandFull' /\ NoClear'
    BY <2>1
  <2>5. QED
    BY <2>3, <2>4
<1>16. CASE UNCHANGED queueVars
  BY <1>16 DEF queueVars
<1>17. Poppers \subseteq Clients /\ Cleaners \subseteq Clients
  BY DEF Clients
<1> HIDE DEF TypeInv
<1>18. QED
  BY <1>1, <1>2, <1>3, <1>4, <1>5, <1>6, <1>7, <1>8, <1>9, <1>10, <1>11, <1>13, <1>14,
     <1>15, <1>16, <1>17, Steps, Zenon

\* Every variable keeps its type, and what is on its way to or from the list is
\* always an item.
THEOREM TypeCorrect ==
  ASSUME Operators = {}
  PROVE  QueueSpec => []QueueTypeOK
<1>1. TypeInv /\ [QueueNext]_queueVars => TypeInv'
  BY StepTyped
<1>2. TypeInv => QueueTypeOK
  BY DEF TypeInv
<1>3. QED
  BY InitTyped, <1>1, <1>2, PTL DEF QueueSpec

-----------------------------------------------------------------------------
(* Lists *)

\* The elements of a list after RPUSH.
LEMMA ListAppend ==
  ASSUME NEW S, NEW q \in Seq(S), NEW x \in S
  PROVE  /\ Range(Append(q, x)) = Range(q) \cup {x}
         /\ IsUnique(q) /\ x \notin Range(q) => IsUnique(Append(q, x))
<1>1. /\ DOMAIN Append(q, x) = 1..(Len(q) + 1)
      /\ DOMAIN q = 1..Len(q)
      /\ Len(q) \in Nat
      /\ \A k \in 1..Len(q) : Append(q, x)[k] = q[k]
      /\ Append(q, x)[Len(q) + 1] = x
  BY AppendProperties, LenProperties
<1>2. Range(Append(q, x)) = Range(q) \cup {x}
  <2>1. ASSUME NEW y \in Range(Append(q, x))
        PROVE  y \in Range(q) \cup {x}
    BY <1>1 DEF Range
  <2>2. ASSUME NEW y \in Range(q) \cup {x}
        PROVE  y \in Range(Append(q, x))
    BY <1>1 DEF Range
  <2>3. QED
    BY <2>1, <2>2
<1>3. ASSUME IsUnique(q), x \notin Range(q)
      PROVE  IsUnique(Append(q, x))
  BY <1>1, <1>3 DEF IsUnique, Range
<1>4. QED
  BY <1>2, <1>3

\* The elements of a list before and after BLPOP.
LEMMA ListTail ==
  ASSUME NEW S, NEW q \in Seq(S), q # <<>>
  PROVE  /\ Head(q) \in S /\ Tail(q) \in Seq(S)
         /\ Range(q) = Range(Tail(q)) \cup {Head(q)}
         /\ IsUnique(q) => IsUnique(Tail(q)) /\ Head(q) \notin Range(Tail(q))
<1>1. /\ Head(q) \in S /\ Tail(q) \in Seq(S)
      /\ Len(q) \in Nat \ {0}
      /\ DOMAIN q = 1..Len(q)
      /\ DOMAIN Tail(q) = 1..(Len(q) - 1)
      /\ \A k \in 1..(Len(q) - 1) : Tail(q)[k] = q[k + 1]
      /\ Head(q) = q[1]
  BY HeadTailProperties, LenProperties, EmptySeq
<1>2. Range(q) = Range(Tail(q)) \cup {Head(q)}
  <2>1. ASSUME NEW k \in 1..Len(q)
        PROVE  q[k] \in Range(Tail(q)) \cup {Head(q)}
    <3>1. CASE k = 1
      BY <1>1, <3>1
    <3>2. CASE k # 1
      <4>1. k - 1 \in 1..(Len(q) - 1) /\ Tail(q)[k - 1] = q[k]
        BY <1>1, <3>2
      <4>2. QED
        BY <1>1, <4>1 DEF Range
    <3>3. QED
      BY <3>1, <3>2
  <2>2. Range(Tail(q)) \cup {Head(q)} \subseteq Range(q)
    BY <1>1 DEF Range
  <2>3. QED
    BY <1>1, <2>1, <2>2 DEF Range
<1>3. ASSUME IsUnique(q)
      PROVE  IsUnique(Tail(q)) /\ Head(q) \notin Range(Tail(q))
  BY <1>1, <1>3 DEF IsUnique, Range
<1>4. QED
  BY <1>1, <1>2, <1>3

-----------------------------------------------------------------------------
(* The deduplication: push and pop alone, whatever is cut *)

Holds(p) == pc[p] \in {"rpush", "srem"}

\* An item is in one place at most: at one position of the list, or in the hand
\* of one client.  And wherever it is, it is in the set.
Exclusive ==
    /\ IsUnique(queue)
    /\ \A p \in Clients : Holds(p) => hand[p] \notin Range(queue)
    /\ \A p, q \in Clients : Holds(p) /\ Holds(q) /\ hand[p] = hand[q] => p = q

Tracked ==
    /\ Range(queue) \subseteq dedup
    /\ \A p \in Clients : Holds(p) => hand[p] \in dedup

\* Both hold until a reply is lost: an RPUSH sent again puts a second copy on the
\* list, an SREM sent again takes an entry that a push has made since.
DedupInv == TypeInv /\ (resent = 0 => Exclusive /\ Tracked)

LEMMA InitDedup == QueueInit => DedupInv
<1>1. QueueInit => Exclusive /\ Tracked
  BY DEF QueueInit, Exclusive, Tracked, Holds, IsUnique, Range
<1>2. QED
  BY <1>1, InitTyped DEF DedupInv

\* A step of a call in which no reply is lost.
LEMMA StepExclusive ==
  ASSUME Operators = {}, Cleaners = {}, TypeInv, Exclusive, Tracked, resent' = resent,
         [QueueNext]_queueVars
  PROVE  Exclusive' /\ Tracked'
<1> USE DEF Holds, Returns
<1>t. /\ queue \in Seq(Items)
      /\ pc \in [Clients -> Commands]
      /\ hand \in [Clients -> Items \cup {None}]
      /\ HandFull /\ Exclusive /\ Tracked
      /\ resent \in Nat
  BY QueueAssumption DEF TypeInv, QueueTypeOK
<1>1. ASSUME NEW p \in Clients, NEW x \in Items, PushSAdd(p, x)
      PROVE  Exclusive' /\ Tracked'
  <2>1. CASE x \in dedup
    BY <1>t, <1>1, <2>1 DEF PushSAdd, Exclusive, Tracked
  <2>2. CASE x \notin dedup
    <3>1. /\ x \notin Range(queue)
          /\ \A q \in Clients : Holds(q) => hand[q] # x
      BY <1>t, <2>2 DEF Tracked
    <3>2. /\ queue' = queue
          /\ dedup' = dedup \cup {x}
          /\ \A q \in Clients : q # p => pc'[q] = pc[q] /\ hand'[q] = hand[q]
          /\ hand'[p] = x
      BY <1>1, <1>t, <2>2 DEF PushSAdd
    <3>3. QED
      BY <1>t, <3>1, <3>2 DEF Exclusive, Tracked
  <2>3. QED
    BY <2>1, <2>2
<1>2. ASSUME NEW p \in Clients, PushRPush(p)
      PROVE  Exclusive' /\ Tracked'
  <2>1. /\ hand[p] \in Items /\ hand[p] \in dedup /\ hand[p] \notin Range(queue)
        /\ \A q \in Clients : q # p /\ Holds(q) => hand[q] # hand[p]
    BY <1>t, <1>2, <1>t DEF PushRPush, HandFull, Exclusive, Tracked
  <2>2. /\ Range(queue') = Range(queue) \cup {hand[p]}
        /\ IsUnique(queue')
    BY <1>t, <1>2, <2>1, ListAppend DEF PushRPush, Exclusive
  <2>3. /\ dedup' = dedup
        /\ pc'[p] \in {"idle", "requeue"}
        /\ \A q \in Clients : q # p => pc'[q] = pc[q] /\ hand'[q] = hand[q]
    BY <1>2, <1>t DEF PushRPush
  <2>4. QED
    BY <1>t, <2>1, <2>2, <2>3 DEF Exclusive, Tracked
<1>3. ASSUME NEW c \in Poppers, PopBLPop(c)
      PROVE  Exclusive' /\ Tracked'
  <2>1. /\ Range(queue) = Range(queue') \cup {Head(queue)}
        /\ IsUnique(queue') /\ Head(queue) \notin Range(queue')
    BY <1>t, <1>3, ListTail DEF PopBLPop, Exclusive
  <2>2. /\ c \in Clients
        /\ dedup' = dedup
        /\ hand'[c] = Head(queue)
        /\ \A q \in Clients : q # c => pc'[q] = pc[q] /\ hand'[q] = hand[q]
    BY <1>3, <1>t DEF PopBLPop, Clients
  <2>3. QED
    BY <1>t, <2>1, <2>2 DEF Exclusive, Tracked
<1>4. ASSUME NEW c \in Poppers, PopSRem(c)
      PROVE  Exclusive' /\ Tracked'
  <2>1. /\ c \in Clients
        /\ queue' = queue
        /\ dedup' = dedup \ {hand[c]}
        /\ pc[c] = "srem" /\ pc'[c] = "idle"
        /\ \A q \in Clients : q # c => pc'[q] = pc[q] /\ hand'[q] = hand[q]
    BY <1>4, <1>t DEF PopSRem, Clients
  <2>2. QED
    BY <1>t, <2>1 DEF Exclusive, Tracked
<1>5. ASSUME NEW p \in Clients, Cut(p)
      PROVE  Exclusive' /\ Tracked'
  <2>1. /\ queue' = queue /\ dedup' = dedup
        /\ pc'[p] = "idle"
        /\ \A q \in Clients : q # p => pc'[q] = pc[q] /\ hand'[q] = hand[q]
    BY <1>5, <1>t DEF Cut, Abandon
  <2>2. QED
    BY <1>t, <2>1 DEF Exclusive, Tracked
<1>6. ASSUME NEW p \in Clients, ResendSAdd(p)
      PROVE  Exclusive' /\ Tracked'
  <2>1. CASE hand[p] \in dedup
    <3>1. /\ queue' = queue /\ dedup' = dedup
          /\ pc'[p] \in {"idle", "requeue"}
          /\ \A q \in Clients : q # p => pc'[q] = pc[q] /\ hand'[q] = hand[q]
      BY <1>t, <1>6, <2>1 DEF ResendSAdd
    <3>2. QED
      BY <1>t, <3>1 DEF Exclusive, Tracked
  <2>2. CASE hand[p] \notin dedup
    <3>1. /\ hand[p] \notin Range(queue)
          /\ \A q \in Clients : Holds(q) => hand[q] # hand[p]
      BY <1>t, <2>2 DEF Tracked
    <3>2. /\ queue' = queue
          /\ dedup' = dedup \cup {hand[p]}
          /\ \A q \in Clients : q # p => pc'[q] = pc[q]
          /\ hand' = hand
      BY <1>t, <1>6, <2>2 DEF ResendSAdd
    <3>3. QED
      BY <1>t, <3>1, <3>2 DEF Exclusive, Tracked
  <2>3. QED
    BY <2>1, <2>2
<1>7. ASSUME UNCHANGED queueVars
      PROVE  Exclusive' /\ Tracked'
  BY <1>t, <1>7 DEF queueVars, Exclusive, Tracked
<1>8. ASSUME NEW p \in Clients, NEW x \in Items,
             LoseReply(p) \/ LoseBLPop(p) \/ LoseSAdd(p, x)
      PROVE  FALSE
  BY <1>t, <1>8, NoReplyLost DEF LoseReply, LoseBLPop, LoseSAdd
<1>9. ASSUME NEW p \in Clients, LoseReply(p) \/ LoseBLPop(p)
      PROVE  FALSE
  BY <1>t, <1>9, NoReplyLost DEF LoseReply, LoseBLPop
<1>10. Poppers \subseteq Clients
  BY DEF Clients
<1>11. \A s \in Cleaners : FALSE
  OBVIOUS
<1>12. QED
  BY <1>1, <1>2, <1>3, <1>4, <1>5, <1>6, <1>7, <1>8, <1>9, <1>10, <1>11, Steps, Zenon

LEMMA StepDedup ==
  ASSUME Operators = {}, Cleaners = {}, DedupInv, [QueueNext]_queueVars
  PROVE  DedupInv'
<1>1. TypeInv /\ TypeInv'
  BY StepTyped DEF DedupInv
<1>2. resent' = resent \/ ReplyLost
  <2>1. CASE UNCHANGED queueVars
    BY <2>1 DEF queueVars
  <2>2. CASE QueueNext
    BY <2>2, Steps, Zenon
    DEF PushSAdd, ResendSAdd, PushRPush, PopBLPop, PopSRem, CleanSMembers, CleanLRange,
        CleanSRem, RequeueSAdd, RequeueDone, Cut, LoseReply, LoseBLPop, LoseSAdd,
        LoseRequeueSAdd
  <2>3. QED
    BY <2>1, <2>2
<1>3. ASSUME resent' = 0
      PROVE  Exclusive' /\ Tracked'
  <2>1. resent \in Nat
    BY <1>1, QueueAssumption DEF TypeInv, QueueTypeOK
  <2>2. resent = 0 /\ resent' = resent
    BY <1>2, <1>3, <2>1 DEF ReplyLost
  <2>3. QED
    BY <2>2, StepExclusive DEF DedupInv
<1>4. QED
  BY <1>1, <1>3, Zenon DEF DedupInv

\* The invariant says more than the two properties of the module.
LEMMA DedupMeans ==
  ASSUME DedupInv, resent = 0
  PROVE  NoDuplicates /\ TrackedWhileOutstanding
  BY DEF DedupInv, Exclusive, Tracked, Holds, NoDuplicates,
         TrackedWhileOutstanding, Outstanding, Listed, InHand

\* With any number of pushers and consumers, any of whose calls may be cut
\* between two commands, the list holds no item twice until a reply is lost.
\* (What lost replies can do to it is LostRepliesAddOneCopyEach, below.)
THEOREM DedupPreventsDuplicates ==
  ASSUME Operators = {}, Cleaners = {}
  PROVE  QueueSpec => [](resent = 0 => NoDuplicates)
<1>1. DedupInv /\ [QueueNext]_queueVars => DedupInv'
  BY StepDedup
<1>2. DedupInv => (resent = 0 => NoDuplicates)
  BY DedupMeans
<1>3. QED
  BY InitDedup, <1>1, <1>2, PTL DEF QueueSpec

\* And until then, whatever is on the list, or on its way from or to it, is in
\* the set.
THEOREM OutstandingIsTracked ==
  ASSUME Operators = {}, Cleaners = {}
  PROVE  QueueSpec => [](resent = 0 => TrackedWhileOutstanding)
<1>1. DedupInv /\ [QueueNext]_queueVars => DedupInv'
  BY StepDedup
<1>2. DedupInv => (resent = 0 => TrackedWhileOutstanding)
  BY DedupMeans
<1>3. QED
  BY InitDedup, <1>1, <1>2, PTL DEF QueueSpec

-----------------------------------------------------------------------------
(* The skipped push, when no call is cut and no reply is lost *)

\* Every entry of the set stands for an item that is still somewhere.
Found == \A x \in dedup : x \in Range(queue) \/ \E p \in Clients : Holds(p) /\ hand[p] = x

FoundInv == TypeInv /\ Found

LEMMA InitFound == QueueInit => FoundInv
<1>1. QueueInit => Found
  BY DEF QueueInit, Found
<1>2. QED
  BY <1>1, InitTyped DEF FoundInv

LEMMA StepFound ==
  ASSUME Operators = {}, MaxFaults = 0, FoundInv, [QueueNext]_queueVars
  PROVE  FoundInv'
<1> USE DEF Holds, Returns
<1>0. TypeInv /\ TypeInv' /\ Found
  BY StepTyped DEF FoundInv
<1>t. /\ queue \in Seq(Items)
      /\ pc \in [Clients -> Commands]
      /\ hand \in [Clients -> Items \cup {None}]
      /\ HandFull
  BY <1>0 DEF TypeInv, QueueTypeOK
<1>1. ASSUME NEW p \in Clients, NEW x \in Items,
             PushSAdd(p, x) \/ RequeueSAdd(p, x)
      PROVE  Found'
  <2>1. CASE x \in dedup
    BY <1>0, <1>1, <2>1 DEF PushSAdd, RequeueSAdd, Found
  <2>2. CASE x \notin dedup
    <3>1. /\ queue' = queue
          /\ dedup' = dedup \cup {x}
          /\ pc[p] \in {"idle", "requeue"}
          /\ pc'[p] = "rpush" /\ hand'[p] = x
          /\ \A q \in Clients : q # p => pc'[q] = pc[q] /\ hand'[q] = hand[q]
      BY <1>1, <1>t, <2>2 DEF PushSAdd, RequeueSAdd
    <3>2. QED
      BY <1>0, <3>1 DEF Found
  <2>3. QED
    BY <2>1, <2>2
<1>2. ASSUME NEW p \in Clients, PushRPush(p)
      PROVE  Found'
  <2>1. /\ Range(queue') = Range(queue) \cup {hand[p]}
        /\ dedup' = dedup
        /\ \A q \in Clients : q # p => pc'[q] = pc[q] /\ hand'[q] = hand[q]
    <3>1. hand[p] \in Items
      BY <1>2, <1>t DEF PushRPush, HandFull
    <3>2. QED
      BY <1>2, <1>t, <3>1, ListAppend DEF PushRPush
  <2>2. QED
    BY <1>0, <2>1 DEF Found
<1>3. ASSUME NEW c \in Poppers, PopBLPop(c)
      PROVE  Found'
  <2>1. /\ Range(queue) = Range(queue') \cup {Head(queue)}
        /\ c \in Clients
        /\ dedup' = dedup
        /\ pc[c] = "idle" /\ pc'[c] = "srem" /\ hand'[c] = Head(queue)
        /\ \A q \in Clients : q # c => pc'[q] = pc[q] /\ hand'[q] = hand[q]
    BY <1>3, <1>t, ListTail DEF PopBLPop, Clients
  <2>2. QED
    BY <1>0, <2>1 DEF Found
<1>4. ASSUME NEW c \in Poppers, PopSRem(c)
      PROVE  Found'
  <2>1. /\ queue' = queue
        /\ dedup' = dedup \ {hand[c]}
        /\ \A q \in Clients : q # c => pc'[q] = pc[q] /\ hand'[q] = hand[q]
    BY <1>4, <1>t DEF PopSRem
  <2>2. QED
    BY <1>0, <2>1 DEF Found
<1>5. ASSUME NEW s \in Cleaners,
             \/ \E ids \in SUBSET Items : CleanSMembers(s, ids)
             \/ CleanLRange(s) \/ CleanSRem(s) \/ RequeueDone(s)
      PROVE  Found'
  <2>1. /\ queue' = queue /\ hand' = hand
        /\ dedup' \subseteq dedup
        /\ pc[s] \in {"idle", "lrange", "clean", "requeue"}
        /\ \A q \in Clients : q # s => pc'[q] = pc[q]
    BY <1>5, <1>t DEF CleanSMembers, CleanLRange, CleanSRem, RequeueDone
  <2>2. QED
    BY <1>0, <2>1 DEF Found
<1>6. ASSUME NEW p \in Clients, Cut(p)
      PROVE  FALSE
  BY <1>0, <1>6 DEF TypeInv, QueueTypeOK, Cut
<1>7. ASSUME NEW p \in Clients, ResendSAdd(p)
      PROVE  Found'
  <2>1. CASE hand[p] \in dedup
    <3>1. /\ queue' = queue /\ dedup' = dedup
          /\ pc[p] = "sadd"
          /\ \A q \in Clients : q # p => pc'[q] = pc[q] /\ hand'[q] = hand[q]
      BY <1>7, <1>t, <2>1 DEF ResendSAdd
    <3>2. QED
      BY <1>0, <3>1 DEF Found
  <2>2. CASE hand[p] \notin dedup
    <3>1. /\ queue' = queue
          /\ dedup' = dedup \cup {hand[p]}
          /\ pc[p] = "sadd" /\ pc'[p] = "rpush" /\ hand' = hand
          /\ \A q \in Clients : q # p => pc'[q] = pc[q]
      BY <1>7, <1>t, <2>2 DEF ResendSAdd
    <3>2. QED
      BY <1>0, <3>1 DEF Found
  <2>3. QED
    BY <2>1, <2>2
<1>8. ~ReplyLost
  BY <1>0 DEF TypeInv, QueueTypeOK, ReplyLost
<1>9. ASSUME UNCHANGED queueVars
      PROVE  Found'
  BY <1>0, <1>9 DEF queueVars, Found
<1>10. Cleaners \subseteq Clients
  BY DEF Clients
<1>11. Found'
  BY <1>1, <1>2, <1>3, <1>4, <1>5, <1>6, <1>7, <1>8, <1>9, <1>10, Steps, Zenon
  DEF LoseReply, LoseBLPop, LoseSAdd, LoseRequeueSAdd
<1>12. QED
  BY <1>0, <1>11, Zenon DEF FoundInv

\* If no call is cut and no reply is lost, a push that is skipped loses no job:
\* the item is on the list or in a call that is under way.  This holds whatever
\* the sweepers remove from the set in between.
THEOREM SkippedPushLosesNothing ==
  ASSUME Operators = {}, MaxFaults = 0
  PROVE  QueueSpec => []SkippedPushIsOutstanding
<1>1. FoundInv /\ [QueueNext]_queueVars => FoundInv'
  BY StepFound
<1>2. FoundInv => SkippedPushIsOutstanding
  BY DEF FoundInv, Found, Holds, SkippedPushIsOutstanding, Outstanding, Listed, InHand
<1>3. QED
  BY InitFound, <1>1, <1>2, PTL DEF QueueSpec

-----------------------------------------------------------------------------
(* The refinement of PendingJobs *)

\* The refinement mapping of Jobs.
PendingBar == Range(queue) \cup {hand[p] : p \in {q \in Clients : pc[q] = "rpush"}}
TakenBar == [c \in Poppers |-> IF pc[c] = "srem" THEN hand[c] ELSE None]

LEMMA InitRefines == QueueInit => Jobs!Init
  BY DEF QueueInit, Jobs!Init, Listed, Range, Clients

LEMMA StepRefines ==
  ASSUME Operators = {}, Cleaners = {}, MaxFaults = 0, DedupInv,
         [QueueNext]_queueVars
  PROVE  [Jobs!Next]_<<PendingBar, TakenBar>>
<1> USE DEF Holds, Returns
<1>r. resent = 0
  BY DEF DedupInv, TypeInv, QueueTypeOK
<1>t. /\ queue \in Seq(Items)
      /\ pc \in [Clients -> Commands]
      /\ hand \in [Clients -> Items \cup {None}]
      /\ HandFull /\ Exclusive /\ Tracked
      /\ None \notin Items
      /\ Poppers \subseteq Clients
      /\ cuts \in Nat /\ resent \in Nat /\ cuts + resent <= MaxFaults
  BY <1>r, QueueAssumption DEF DedupInv, TypeInv, QueueTypeOK, Clients
<1>m. /\ Listed \cup {hand[p] : p \in {q \in Clients : pc[q] = "rpush"}} = PendingBar
      /\ [c \in Poppers |-> IF pc[c] = "srem" THEN hand[c] ELSE None] = TakenBar
  BY DEF PendingBar, TakenBar, Listed
<1>1. ASSUME NEW p \in Clients, NEW x \in Items, PushSAdd(p, x)
      PROVE  [Jobs!Next]_<<PendingBar, TakenBar>>
  <2>1. CASE x \in dedup
    BY <1>1, <2>1 DEF PushSAdd, PendingBar, TakenBar
  <2>2. CASE x \notin dedup
    <3>1. /\ queue' = queue
          /\ pc[p] = "idle" /\ pc'[p] = "rpush" /\ hand'[p] = x
          /\ \A q \in Clients : q # p => pc'[q] = pc[q] /\ hand'[q] = hand[q]
      BY <1>1, <1>t, <2>2 DEF PushSAdd
    <3>2. x \notin PendingBar
      BY <1>t, <2>2 DEF PendingBar, Tracked
    <3>3. \A c \in Poppers : TakenBar[c] # x
      BY <1>t, <2>2 DEF TakenBar, Tracked
    <3>4. PendingBar' = PendingBar \cup {x}
      BY <3>1 DEF PendingBar
    <3>5. TakenBar' = TakenBar
      BY <1>t, <3>1 DEF TakenBar
    <3>6. Jobs!Submit(x)
      BY <1>m, <3>2, <3>3, <3>4, <3>5, Zenon DEF Jobs!Submit, PendingBar, TakenBar, Listed
    <3>7. QED
      BY <3>6, Zenon DEF Jobs!Next
  <2>3. QED
    BY <2>1, <2>2
<1>2. ASSUME NEW p \in Clients, PushRPush(p)
      PROVE  UNCHANGED <<PendingBar, TakenBar>>
  <2>1. hand[p] \in Items
    BY <1>2, <1>t DEF PushRPush, HandFull
  <2>2. /\ Range(queue') = Range(queue) \cup {hand[p]}
        /\ pc[p] = "rpush" /\ pc'[p] = "idle"
        /\ \A q \in Clients : q # p => pc'[q] = pc[q] /\ hand'[q] = hand[q]
    BY <1>2, <1>t, <2>1, ListAppend DEF PushRPush
  <2>3. PendingBar' = PendingBar
    BY <2>2 DEF PendingBar
  <2>4. TakenBar' = TakenBar
    BY <1>t, <2>2 DEF TakenBar
  <2>5. QED
    BY <2>3, <2>4
<1>3. ASSUME NEW c \in Poppers, PopBLPop(c)
      PROVE  [Jobs!Next]_<<PendingBar, TakenBar>>
  <2>0. PICK x \in Items : x = Head(queue)
    BY <1>3, <1>t, ListTail DEF PopBLPop
  <2>1. /\ x \in Items
        /\ Range(queue) = Range(queue') \cup {x}
        /\ x \notin Range(queue') /\ x \in Range(queue)
        /\ pc[c] = "idle" /\ pc'[c] = "srem" /\ hand'[c] = x
        /\ \A q \in Clients : q # c => pc'[q] = pc[q] /\ hand'[q] = hand[q]
    BY <1>3, <1>t, <2>0, ListTail DEF PopBLPop, Exclusive
  <2>2. \A q \in Clients : pc[q] = "rpush" => hand[q] # x
    BY <1>t, <2>1 DEF Exclusive
  <2>3. PendingBar' = PendingBar \ {x} /\ x \in PendingBar
    BY <1>t, <2>1, <2>2 DEF PendingBar
  <2>4. TakenBar' = [TakenBar EXCEPT ![c] = x] /\ TakenBar[c] = None
    BY <1>t, <2>1 DEF TakenBar
  <2>5. Jobs!Take(c, x)
    BY <1>m, <2>3, <2>4, Zenon DEF Jobs!Take, PendingBar, TakenBar, Listed
  <2>6. QED
    BY <2>5, Zenon DEF Jobs!Next
<1>4. ASSUME NEW c \in Poppers, PopSRem(c)
      PROVE  [Jobs!Next]_<<PendingBar, TakenBar>>
  <2>1. /\ queue' = queue
        /\ pc[c] = "srem" /\ pc'[c] = "idle" /\ hand[c] # None
        /\ \A q \in Clients : q # c => pc'[q] = pc[q] /\ hand'[q] = hand[q]
    BY <1>4, <1>t DEF PopSRem, HandFull
  <2>2. PendingBar' = PendingBar
    BY <2>1 DEF PendingBar
  <2>3. TakenBar' = [TakenBar EXCEPT ![c] = None] /\ TakenBar[c] # None
    BY <1>t, <2>1 DEF TakenBar
  <2>4. Jobs!HandOver(c)
    BY <1>m, <2>2, <2>3, Zenon DEF Jobs!HandOver, PendingBar, TakenBar, Listed
  <2>5. QED
    BY <2>4, Zenon DEF Jobs!Next
<1>5. ASSUME NEW p \in Clients, Cut(p)
      PROVE  FALSE
  BY <1>t, <1>5 DEF Cut
<1>6. ASSUME UNCHANGED queueVars
      PROVE  UNCHANGED <<PendingBar, TakenBar>>
  BY <1>6 DEF queueVars, PendingBar, TakenBar
<1>7. ~ReplyLost
  BY <1>r, <1>t DEF ReplyLost
<1>8. ASSUME NEW p \in Clients, ResendSAdd(p)
      PROVE  [Jobs!Next]_<<PendingBar, TakenBar>>
  <2>1. CASE hand[p] \in dedup
    <3>1. /\ queue' = queue
          /\ pc[p] = "sadd" /\ pc'[p] = "idle"
          /\ \A q \in Clients : q # p => pc'[q] = pc[q] /\ hand'[q] = hand[q]
      BY <1>8, <1>t, <2>1 DEF ResendSAdd
    <3>2. QED
      BY <1>t, <3>1 DEF PendingBar, TakenBar
  <2>2. CASE hand[p] \notin dedup
    <3>1. PICK x \in Items : x = hand[p]
      BY <1>8, <1>t DEF ResendSAdd, HandFull
    <3>2. /\ queue' = queue /\ hand' = hand
          /\ pc[p] = "sadd" /\ pc'[p] = "rpush"
          /\ \A q \in Clients : q # p => pc'[q] = pc[q]
      BY <1>8, <1>t, <2>2 DEF ResendSAdd
    <3>3. x \notin PendingBar
      BY <1>t, <2>2, <3>1 DEF PendingBar, Tracked
    <3>4. \A c \in Poppers : TakenBar[c] # x
      BY <1>t, <2>2, <3>1 DEF TakenBar, Tracked
    <3>5. PendingBar' = PendingBar \cup {x}
      BY <3>1, <3>2 DEF PendingBar
    <3>6. TakenBar' = TakenBar
      BY <1>t, <3>2 DEF TakenBar
    <3>7. Jobs!Submit(x)
      BY <1>m, <3>3, <3>4, <3>5, <3>6, Zenon DEF Jobs!Submit, PendingBar, TakenBar, Listed
    <3>8. QED
      BY <3>7, Zenon DEF Jobs!Next
  <2>3. QED
    BY <2>1, <2>2
<1>9. \A s \in Cleaners : FALSE
  OBVIOUS
<1>10. QED
  BY <1>1, <1>2, <1>3, <1>4, <1>5, <1>6, <1>7, <1>8, <1>9, Steps, Zenon
  DEF LoseReply, LoseBLPop, LoseSAdd

\* Push and pop, when no call is cut and no reply is lost, implement a set of
\* pending jobs: a skipped push has no effect, and BLPOP hands a job to one
\* consumer only.  (That every job is taken is a liveness property, which the run
\* queue_steady checks.)
THEOREM QueueImplementsJobs ==
  ASSUME Operators = {}, Cleaners = {}, MaxFaults = 0
  PROVE  QueueSpec => Jobs!Safety
<1>1. DedupInv /\ [QueueNext]_queueVars => DedupInv'
  BY StepDedup
<1>2. DedupInv /\ [QueueNext]_queueVars => [Jobs!Next]_<<PendingBar, TakenBar>>
  BY StepRefines
<1>3. <<PendingBar, TakenBar>> =
        <<Listed \cup {hand[p] : p \in {q \in Clients : pc[q] = "rpush"}},
          [c \in Poppers |-> IF pc[c] = "srem" THEN hand[c] ELSE None]>>
  BY DEF PendingBar, TakenBar, Listed
<1>4. QED
  BY InitDedup, InitRefines, <1>1, <1>2, <1>3, PTL
  DEF QueueSpec, Jobs!Safety, PendingBar, TakenBar, Listed

-----------------------------------------------------------------------------
(***************************************************************************)
(* The list stays bounded, whatever the sweepers remove from the set,      *)
(* whatever is cut and whatever is sent again.                             *)
(*                                                                         *)
(* The argument is a potential.  A client is pending on an item when its   *)
(* next command is one that it decided earlier and that may add a copy of  *)
(* the item to the list (RPUSH) or let one in (SREM).  A copy enters the   *)
(* list only after an SADD that added the item, or by an RPUSH that will   *)
(* be sent again, so                                                       *)
(*     copies + pending clients <=                                         *)
(*         slack + lost replies + (1 if the item is in the set)            *)
(* where the slack is 0 without sweepers and the number of clients with    *)
(* them.  An SADD adds a pending client and the set entry; an RPUSH or a   *)
(* BLPOP turns a pending client into a copy or back; an SREM removes a     *)
(* pending client and the entry at most.  A command whose reply is lost    *)
(* leaves its client pending, and the lost reply pays for its effect.      *)
(* Only a sweeper that finds an orphan becomes pending for nothing, and    *)
(* then there is no copy on the list.                                      *)
(***************************************************************************)

-----------------------------------------------------------------------------
(* Positions on a list *)

LEMMA PositionsFinite ==
  ASSUME NEW S, NEW q \in Seq(S), NEW x
  PROVE  IsFiniteSet(Positions(q, x)) /\ Cardinality(Positions(q, x)) \in Nat
<1>1. DOMAIN q = 1..Len(q) /\ Len(q) \in Nat
  BY LenProperties
<1>2. IsFiniteSet(1..Len(q))
  BY <1>1, FS_Interval
<1>3. Positions(q, x) \in SUBSET (1..Len(q))
  BY <1>1 DEF Positions
<1>4. QED
  BY <1>2, <1>3, FS_Subset, FS_CardinalityType

\* RPUSH adds one position for the item that it appends.
LEMMA PositionsAppend ==
  ASSUME NEW S, NEW q \in Seq(S), NEW y \in S, NEW x
  PROVE  Cardinality(Positions(Append(q, y), x)) =
           Cardinality(Positions(q, x)) + (IF y = x THEN 1 ELSE 0)
<1>1. /\ DOMAIN Append(q, y) = 1..(Len(q) + 1)
      /\ DOMAIN q = 1..Len(q)
      /\ Len(q) \in Nat
      /\ \A k \in 1..Len(q) : Append(q, y)[k] = q[k]
      /\ Append(q, y)[Len(q) + 1] = y
  BY AppendProperties, LenProperties
<1>2. IsFiniteSet(Positions(q, x)) /\ Cardinality(Positions(q, x)) \in Nat
  BY PositionsFinite
<1>3. CASE y = x
  <2>1. Positions(Append(q, y), x) = Positions(q, x) \cup {Len(q) + 1}
    BY <1>1, <1>3 DEF Positions
  <2>2. Len(q) + 1 \notin Positions(q, x)
    BY <1>1 DEF Positions
  <2>3. QED
    BY <1>2, <1>3, <2>1, <2>2, FS_AddElement
<1>4. CASE y # x
  <2>1. Positions(Append(q, y), x) = Positions(q, x)
    BY <1>1, <1>4 DEF Positions
  <2>2. QED
    BY <1>2, <1>4, <2>1
<1>5. QED
  BY <1>3, <1>4

\* BLPOP removes the position of the item that it takes.
LEMMA PositionsTail ==
  ASSUME NEW S, NEW q \in Seq(S), q # <<>>, NEW x
  PROVE  Cardinality(Positions(q, x)) =
           Cardinality(Positions(Tail(q), x)) + (IF Head(q) = x THEN 1 ELSE 0)
<1>1. /\ Head(q) \in S /\ Tail(q) \in Seq(S)
      /\ Len(q) \in Nat \ {0}
      /\ DOMAIN q = 1..Len(q)
      /\ DOMAIN Tail(q) = 1..(Len(q) - 1)
      /\ \A k \in 1..(Len(q) - 1) : Tail(q)[k] = q[k + 1]
      /\ Head(q) = q[1]
  BY HeadTailProperties, LenProperties, EmptySeq
<1> DEFINE T == Positions(Tail(q), x)
           R == Positions(q, x) \ {1}
           shift == [k \in T |-> k + 1]
<1>2. IsFiniteSet(T) /\ Cardinality(T) \in Nat
  BY <1>1, PositionsFinite
<1>3. Cardinality(R) = Cardinality(T)
  <2>1. shift \in [T -> R]
    BY <1>1 DEF Positions
  <2>2. \A j, k \in T : shift[j] = shift[k] => j = k
    BY <1>1 DEF Positions
  <2>3. \A k \in R : \E j \in T : shift[j] = k
    <3>1. ASSUME NEW k \in R
          PROVE  k - 1 \in T /\ (k - 1) + 1 = k
      BY <1>1 DEF Positions
    <3>2. QED
      BY <3>1
  <2>4. shift \in Bijection(T, R)
    BY <2>1, <2>2, <2>3 DEF Bijection, Injection, Surjection, IsInjective
  <2>5. QED
    BY <1>2, <2>4, FS_Bijection DEF ExistsBijection
<1>4. 1 \in Positions(q, x) <=> Head(q) = x
  BY <1>1 DEF Positions
<1>5. IsFiniteSet(Positions(q, x)) /\ Cardinality(Positions(q, x)) \in Nat
  BY PositionsFinite
<1>6. Cardinality(R) = IF 1 \in Positions(q, x)
                       THEN Cardinality(Positions(q, x)) - 1
                       ELSE Cardinality(Positions(q, x))
  BY <1>5, FS_RemoveElement
<1> HIDE DEF T, R, shift
<1>7. QED
  BY <1>2, <1>3, <1>4, <1>5, <1>6 DEF T

-----------------------------------------------------------------------------
(* The potential *)

\* The clients whose next command may bring a copy of x to the list.
Pending(x) == {p \in Clients : \/ Holds(p) /\ hand[p] = x
                               \/ pc[p] = "clean" /\ x \in seen[p]}

Entry(x) == IF x \in dedup THEN 1 ELSE 0

Slack == IF Cleaners = {} THEN 0 ELSE Cardinality(Clients)

Budget(x) == Copies(x) + Cardinality(Pending(x)) <= Slack + resent + Entry(x)

BloatInv == TypeInv /\ \A x \in Items : Budget(x)

LEMMA Counts ==
  ASSUME IsFiniteSet(Clients), TypeInv, NEW x \in Items
  PROVE  /\ Copies(x) \in Nat
         /\ IsFiniteSet(Pending(x))
         /\ Cardinality(Pending(x)) \in Nat
         /\ Cardinality(Clients) \in Nat
         /\ Cardinality(Pending(x)) <= Cardinality(Clients)
         /\ Entry(x) \in Nat
         /\ Slack \in Nat /\ Slack <= Cardinality(Clients)
         /\ resent \in Nat
<1>1. Copies(x) \in Nat
  BY PositionsFinite DEF TypeInv, QueueTypeOK, Copies
<1>2. Pending(x) \in SUBSET Clients
  BY DEF Pending
<1>3. resent \in Nat
  BY QueueAssumption DEF TypeInv, QueueTypeOK
<1>4. QED
  BY <1>1, <1>2, <1>3, FS_Subset, FS_CardinalityType DEF Entry, Slack

LEMMA InitBloat == IsFiniteSet(Clients) /\ QueueInit => BloatInv
<1> SUFFICES ASSUME IsFiniteSet(Clients), QueueInit
             PROVE  BloatInv
  OBVIOUS
<1>1. TypeInv
  BY InitTyped
<1>2. ASSUME NEW x \in Items
      PROVE  Budget(x)
  <2>1. Pending(x) = {} /\ Positions(queue, x) = {}
    BY DEF QueueInit, Pending, Holds, Positions
  <2>2. QED
    BY <1>1, <2>1, Counts, FS_EmptySet DEF Budget, Copies
<1>3. QED
  BY <1>1, <1>2 DEF BloatInv

\* What a step may take from Budget, and what it must give.
LEMMA BudgetKept ==
  ASSUME IsFiniteSet(Clients), TypeInv, TypeInv', NEW x \in Items, Budget(x),
         \/ Copies(x)' = Copies(x) /\ resent' = resent
         \/ Copies(x)' <= Copies(x) /\ resent' = resent + 1,
         x \in dedup => x \in dedup', Pending(x)' \subseteq Pending(x)
  PROVE  Budget(x)'
<1>1. Cardinality(Pending(x)') \in Nat /\ Cardinality(Pending(x)') <= Cardinality(Pending(x))
  <2>1. Pending(x)' \in SUBSET Pending(x)
    OBVIOUS
  <2>2. IsFiniteSet(Pending(x))
    BY Counts
  <2>3. QED
    BY <2>1, <2>2, FS_Subset, FS_CardinalityType
<1>2. Entry(x) \in Nat /\ Entry(x)' \in Nat /\ Entry(x) <= Entry(x)'
  BY DEF Entry
<1>3. /\ Copies(x)' \in Nat /\ resent' \in Nat /\ Slack' = Slack
  BY PositionsFinite, QueueAssumption DEF TypeInv, QueueTypeOK, Copies, Slack
<1>4. QED
  BY <1>1, <1>2, <1>3, Counts DEF Budget

\* A client that stops being pending pays for the entry that it removes.
LEMMA BudgetPaid ==
  ASSUME IsFiniteSet(Clients), TypeInv, TypeInv', NEW x \in Items, Budget(x),
         queue' = queue, resent' = resent,
         NEW p \in Pending(x), Pending(x)' \subseteq Pending(x) \ {p}
  PROVE  Budget(x)'
<1>1. Copies(x)' = Copies(x) /\ Slack' = Slack
  BY DEF Copies, Slack
<1>2. /\ Cardinality(Pending(x)') \in Nat
      /\ Cardinality(Pending(x)') <= Cardinality(Pending(x)) - 1
  <2>1. IsFiniteSet(Pending(x))
    BY Counts
  <2>2. /\ IsFiniteSet(Pending(x) \ {p})
        /\ Cardinality(Pending(x) \ {p}) = Cardinality(Pending(x)) - 1
    BY <2>1, FS_RemoveElement
  <2>3. Pending(x)' \in SUBSET (Pending(x) \ {p})
    OBVIOUS
  <2>4. QED
    BY <2>2, <2>3, FS_Subset, FS_CardinalityType
<1>3. Entry(x) \in {0, 1} /\ Entry(x)' \in {0, 1}
  BY DEF Entry
<1>4. QED
  BY <1>1, <1>2, <1>3, Counts DEF Budget

\* A lost reply pays for the copy that is added or for the entry that is removed.
LEMMA BudgetLost ==
  ASSUME IsFiniteSet(Clients), TypeInv, TypeInv', NEW x \in Items, Budget(x),
         resent' = resent + 1,
         \/ Copies(x)' = Copies(x) + 1 /\ dedup' = dedup
         \/ Copies(x)' = Copies(x),
         Pending(x)' = Pending(x)
  PROVE  Budget(x)'
<1>1. Entry(x) \in {0, 1} /\ Entry(x)' \in {0, 1} /\ (dedup' = dedup => Entry(x)' = Entry(x))
  BY DEF Entry
<1>2. Slack' = Slack
  BY DEF Slack
<1>3. QED
  BY <1>1, <1>2, Counts DEF Budget

-----------------------------------------------------------------------------
(* The steps.  Each lemma is about one item x and one kind of command. *)

\* What the lemmas below know of the client p of a step: its entries may change,
\* those of the others do not.
OnlyOf(p) == \A q \in Clients \ {p} :
                 pc'[q] = pc[q] /\ hand'[q] = hand[q] /\ seen'[q] = seen[q]

\* SADD, of a push or of a re-queue, sent the first time or again.
LEMMA SAddBudget ==
  ASSUME IsFiniteSet(Clients), TypeInv, TypeInv', NEW x \in Items, Budget(x),
         NEW p \in Clients, NEW y \in Items,
         PushSAdd(p, y) \/ RequeueSAdd(p, y) \/ (ResendSAdd(p) /\ y = hand[p])
  PROVE  Budget(x)'
<1>t. /\ pc \in [Clients -> Commands]
      /\ hand \in [Clients -> Items \cup {None}]
  BY DEF TypeInv, QueueTypeOK
<1>1. /\ Copies(x)' = Copies(x) /\ resent' = resent /\ Slack' = Slack
      /\ Copies(x) \in Nat /\ resent \in Nat
  BY Counts DEF PushSAdd, RequeueSAdd, ResendSAdd, Copies, Slack
<1>2. CASE y \in dedup
  <2>1. /\ dedup' = dedup
        /\ pc'[p] = pc[p] \/ pc'[p] \in {"idle", "requeue"}
        /\ pc'[p] = pc[p] => hand'[p] = hand[p]
        /\ OnlyOf(p) /\ seen' = seen
    BY <1>t, <1>2 DEF PushSAdd, RequeueSAdd, ResendSAdd, OnlyOf, Returns
  <2>2. Pending(x)' \subseteq Pending(x)
    BY <2>1 DEF Pending, Holds, OnlyOf
  <2>3. QED
    BY <1>1, <2>1, <2>2, BudgetKept
<1>3. CASE y \notin dedup
  <2>1. /\ dedup' = dedup \cup {y}
        /\ pc[p] \in {"idle", "requeue", "sadd"}
        /\ pc'[p] = "rpush" /\ hand'[p] = y
        /\ OnlyOf(p)
    BY <1>t, <1>3 DEF PushSAdd, RequeueSAdd, ResendSAdd, OnlyOf
  <2>2. CASE y = x
    <3>1. Pending(x)' = Pending(x) \cup {p} /\ p \notin Pending(x)
      BY <2>1, <2>2 DEF Pending, Holds, OnlyOf
    <3>2. Cardinality(Pending(x)') = Cardinality(Pending(x)) + 1
      BY <3>1, Counts, FS_AddElement
    <3>3. Entry(x) = 0 /\ Entry(x)' = 1
      BY <1>3, <2>1, <2>2 DEF Entry
    <3>4. QED
      BY <1>1, <3>2, <3>3, Counts DEF Budget
  <2>3. CASE y # x
    <3>1. Pending(x)' \subseteq Pending(x)
      BY <2>1, <2>3 DEF Pending, Holds, OnlyOf
    <3>2. QED
      BY <1>1, <2>1, <3>1, BudgetKept
  <2>4. QED
    BY <2>2, <2>3
<1>4. QED
  BY <1>2, <1>3

\* An SADD whose reply is lost.
LEMMA LoseSAddBudget ==
  ASSUME IsFiniteSet(Clients), TypeInv, TypeInv', NEW x \in Items, Budget(x),
         NEW p \in Clients, NEW y \in Items, LoseSAdd(p, y) \/ LoseRequeueSAdd(p, y)
  PROVE  Budget(x)'
<1>1. /\ dedup' = dedup \cup {y}
      /\ pc'[p] = "sadd"
      /\ OnlyOf(p)
      /\ queue' = queue /\ resent' = resent + 1
  BY DEF TypeInv, QueueTypeOK, LoseSAdd, LoseRequeueSAdd, ReplyLost, OnlyOf
<1>2. Pending(x)' \subseteq Pending(x)
  BY <1>1 DEF Pending, Holds, OnlyOf
<1>3. Copies(x)' <= Copies(x)
  BY <1>1, Counts DEF Copies
<1>4. QED
  BY <1>1, <1>2, <1>3, BudgetKept

\* A BLPOP whose reply is lost: the copy is gone for good.
LEMMA LoseBLPopBudget ==
  ASSUME IsFiniteSet(Clients), TypeInv, TypeInv', NEW x \in Items, Budget(x),
         NEW c \in Clients, LoseBLPop(c)
  PROVE  Budget(x)'
<1>1. /\ queue \in Seq(Items) /\ queue # <<>> /\ queue' = Tail(queue)
      /\ UNCHANGED <<dedup, pc, hand, seen>> /\ resent' = resent + 1
  BY DEF TypeInv, QueueTypeOK, LoseBLPop, ReplyLost
<1>2. Pending(x)' = Pending(x)
  BY <1>1 DEF Pending, Holds
<1>3. Copies(x)' <= Copies(x)
  <2>1. Copies(x) = Copies(x)' + (IF Head(queue) = x THEN 1 ELSE 0)
    BY <1>1, PositionsTail DEF Copies
  <2>2. Copies(x)' \in Nat
    BY <1>1, HeadTailProperties, PositionsFinite DEF Copies
  <2>3. QED
    BY <2>1, <2>2, Counts
<1>4. QED
  BY <1>1, <1>2, <1>3, BudgetKept

\* Any other command whose reply is lost, and which will be sent again.
LEMMA LoseReplyBudget ==
  ASSUME IsFiniteSet(Clients), TypeInv, TypeInv', NEW x \in Items, Budget(x),
         NEW p \in Clients, LoseReply(p)
  PROVE  Budget(x)'
<1>1. /\ resent' = resent + 1
      /\ UNCHANGED <<pc, hand, seen>>
      /\ pc[p] \in {"sadd", "rpush", "srem", "clean"}
  BY DEF TypeInv, NoClear, LoseReply, ReplyLost
<1>2. Pending(x)' = Pending(x)
  BY <1>1 DEF Pending, Holds
<1>3. CASE pc[p] = "rpush"
  <2>1. queue \in Seq(Items) /\ hand[p] \in Items
    BY <1>3 DEF TypeInv, QueueTypeOK, HandFull
  <2>2. queue' = Append(queue, hand[p]) /\ dedup' = dedup
    BY <1>3 DEF LoseReply
  <2>3. Copies(x)' = Copies(x) + 1 \/ Copies(x)' = Copies(x)
    BY <2>1, <2>2, PositionsAppend, Counts DEF Copies
  <2>4. QED
    BY <1>1, <1>2, <2>2, <2>3, BudgetLost
<1>4. CASE pc[p] # "rpush"
  <2>1. Copies(x)' = Copies(x)
    BY <1>1, <1>4 DEF LoseReply, Copies
  <2>2. QED
    BY <1>1, <1>2, <2>1, BudgetLost
<1>5. QED
  BY <1>3, <1>4

LEMMA RPushBudget ==
  ASSUME IsFiniteSet(Clients), TypeInv, TypeInv', NEW x \in Items, Budget(x),
         NEW p \in Clients, PushRPush(p)
  PROVE  Budget(x)'
<1>1. /\ queue \in Seq(Items)
      /\ hand[p] \in Items
      /\ queue' = Append(queue, hand[p])
      /\ dedup' = dedup
      /\ pc[p] = "rpush" /\ pc'[p] \in {"idle", "requeue"}
      /\ resent' = resent /\ Slack' = Slack
      /\ OnlyOf(p)
  BY DEF TypeInv, QueueTypeOK, HandFull, PushRPush, OnlyOf, Slack, Returns
<1>2. Copies(x)' = Copies(x) + (IF hand[p] = x THEN 1 ELSE 0)
  BY <1>1, PositionsAppend DEF Copies
<1>3. Entry(x)' = Entry(x)
  BY <1>1 DEF Entry
<1>4. CASE hand[p] = x
  <2>1. Pending(x)' = Pending(x) \ {p} /\ p \in Pending(x)
    BY <1>1, <1>4 DEF Pending, Holds, OnlyOf
  <2>2. Cardinality(Pending(x)') = Cardinality(Pending(x)) - 1
    BY <2>1, Counts, FS_RemoveElement
  <2>3. QED
    BY <1>1, <1>2, <1>3, <1>4, <2>2, Counts DEF Budget
<1>5. CASE hand[p] # x
  <2>1. Pending(x)' \subseteq Pending(x)
    BY <1>1, <1>5 DEF Pending, Holds, OnlyOf
  <2>2. Copies(x)' = Copies(x)
    BY <1>2, <1>5, Counts
  <2>3. QED
    BY <1>1, <2>1, <2>2, BudgetKept
<1>6. QED
  BY <1>4, <1>5

LEMMA BLPopBudget ==
  ASSUME IsFiniteSet(Clients), TypeInv, TypeInv', NEW x \in Items, Budget(x),
         NEW c \in Clients, PopBLPop(c)
  PROVE  Budget(x)'
<1>1. /\ queue \in Seq(Items)
      /\ queue # <<>>
      /\ queue' = Tail(queue)
      /\ dedup' = dedup
      /\ pc[c] = "idle" /\ pc'[c] = "srem" /\ hand'[c] = Head(queue)
      /\ resent' = resent /\ Slack' = Slack
      /\ OnlyOf(c)
  BY DEF TypeInv, QueueTypeOK, PopBLPop, OnlyOf, Slack
<1>2. Copies(x) = Copies(x)' + (IF Head(queue) = x THEN 1 ELSE 0)
  BY <1>1, PositionsTail DEF Copies
<1>3. Copies(x)' \in Nat
  BY <1>1, HeadTailProperties, PositionsFinite DEF Copies
<1>4. CASE Head(queue) = x
  <2>1. Pending(x)' = Pending(x) \cup {c} /\ c \notin Pending(x)
    BY <1>1, <1>4 DEF Pending, Holds, OnlyOf
  <2>2. Cardinality(Pending(x)') = Cardinality(Pending(x)) + 1
    BY <2>1, Counts, FS_AddElement
  <2>3. Entry(x)' = Entry(x)
    BY <1>1 DEF Entry
  <2>4. QED
    BY <1>1, <1>2, <1>3, <1>4, <2>2, <2>3, Counts DEF Budget
<1>5. CASE Head(queue) # x
  <2>1. Pending(x)' \subseteq Pending(x)
    BY <1>1, <1>5 DEF Pending, Holds, OnlyOf
  <2>2. Copies(x)' = Copies(x)
    BY <1>2, <1>3, <1>5
  <2>3. QED
    BY <1>1, <2>1, <2>2, BudgetKept
<1>6. QED
  BY <1>4, <1>5

\* SREM of one item, by a consumer.
LEMMA PopSRemBudget ==
  ASSUME IsFiniteSet(Clients), TypeInv, TypeInv', NEW x \in Items, Budget(x),
         NEW c \in Clients, PopSRem(c)
  PROVE  Budget(x)'
<1>1. /\ queue' = queue
      /\ dedup' = dedup \ {hand[c]}
      /\ pc[c] = "srem" /\ pc'[c] = "idle"
      /\ resent' = resent /\ Slack' = Slack
      /\ OnlyOf(c)
  BY DEF TypeInv, QueueTypeOK, PopSRem, OnlyOf, Slack
<1>2. CASE hand[c] = x
  <2>1. c \in Pending(x) /\ Pending(x)' \subseteq Pending(x) \ {c}
    BY <1>1, <1>2 DEF Pending, Holds, OnlyOf
  <2>2. QED
    BY <1>1, <2>1, BudgetPaid
<1>3. CASE hand[c] # x
  <2>1. Pending(x)' \subseteq Pending(x)
    BY <1>1, <1>3 DEF Pending, Holds, OnlyOf
  <2>2. Copies(x)' = Copies(x)
    BY <1>1 DEF Copies
  <2>3. QED
    BY <1>1, <1>3, <2>1, <2>2, BudgetKept
<1>4. QED
  BY <1>2, <1>3

\* LRANGE of a sweeper: an orphan is not on the list, so the sweeper may become
\* pending on it.
LEMMA LRangeBudget ==
  ASSUME IsFiniteSet(Clients), TypeInv, TypeInv', NEW x \in Items, Budget(x),
         NEW s \in Cleaners, CleanLRange(s)
  PROVE  Budget(x)'
<1> DEFINE orphans == seen[s] \ Range(queue)
<1>1. /\ queue' = queue
      /\ dedup' = dedup
      /\ pc[s] = "lrange" /\ pc'[s] \in {"clean", "requeue"}
      /\ seen'[s] = orphans
      /\ resent' = resent /\ Slack' = Cardinality(Clients)
      /\ OnlyOf(s)
  BY DEF TypeInv, QueueTypeOK, CleanLRange, OnlyOf, Listed, Slack, Clients
<1>2. Copies(x)' = Copies(x)
  BY <1>1 DEF Copies
<1>3. CASE x \in orphans
  <2>1. Positions(queue, x) = {}
    BY <1>3 DEF Positions, Range
  <2>2. Copies(x)' = 0
    BY <1>2, <2>1, FS_EmptySet DEF Copies
  <2>3. /\ Cardinality(Pending(x)') \in Nat
        /\ Cardinality(Pending(x)') <= Cardinality(Clients)
    <3>1. Pending(x)' \in SUBSET Clients
      BY DEF Pending
    <3>2. QED
      BY <3>1, FS_Subset, FS_CardinalityType
  <2>4. Entry(x)' \in {0, 1}
    BY DEF Entry
  <2>5. QED
    BY <1>1, <2>2, <2>3, <2>4, Counts DEF Budget
<1>4. CASE x \notin orphans
  <2>1. Pending(x)' \subseteq Pending(x)
    BY <1>1, <1>4 DEF Pending, Holds, OnlyOf
  <2>2. QED
    BY <1>1, <1>2, <2>1, BudgetKept
<1>5. QED
  BY <1>3, <1>4

\* SREM of a sweeper: it removes what it found missing, now or long ago.
LEMMA CleanSRemBudget ==
  ASSUME IsFiniteSet(Clients), TypeInv, TypeInv', NEW x \in Items, Budget(x),
         NEW s \in Clients, CleanSRem(s)
  PROVE  Budget(x)'
<1>1. /\ queue' = queue
      /\ dedup' = dedup \ seen[s]
      /\ pc[s] = "clean" /\ pc'[s] = "requeue"
      /\ resent' = resent /\ Slack' = Slack
      /\ OnlyOf(s)
  BY DEF TypeInv, QueueTypeOK, CleanSRem, OnlyOf, Slack
<1>2. CASE x \in seen[s]
  <2>1. s \in Pending(x) /\ Pending(x)' \subseteq Pending(x) \ {s}
    BY <1>1, <1>2 DEF Pending, Holds, OnlyOf
  <2>2. QED
    BY <1>1, <2>1, BudgetPaid
<1>3. CASE x \notin seen[s]
  <2>1. Pending(x)' \subseteq Pending(x)
    BY <1>1, <1>3 DEF Pending, Holds, OnlyOf
  <2>2. Copies(x)' = Copies(x)
    BY <1>1 DEF Copies
  <2>3. QED
    BY <1>1, <1>3, <2>1, <2>2, BudgetKept
<1>4. QED
  BY <1>2, <1>3

\* The other steps of a call, and the cut of one.
LEMMA QuietBudget ==
  ASSUME IsFiniteSet(Clients), TypeInv, TypeInv', NEW x \in Items, Budget(x),
         NEW p \in Clients,
         \/ \E ids \in SUBSET Items : CleanSMembers(p, ids)
         \/ RequeueDone(p)
         \/ Cut(p)
  PROVE  Budget(x)'
<1>1. /\ queue' = queue
      /\ dedup' = dedup
      /\ pc'[p] \in {"idle", "lrange"}
      /\ resent' = resent /\ Slack' = Slack
      /\ OnlyOf(p)
  BY DEF TypeInv, QueueTypeOK, CleanSMembers, RequeueDone, Cut, Abandon, OnlyOf, Slack
<1>2. Pending(x)' \subseteq Pending(x)
  BY <1>1 DEF Pending, Holds, OnlyOf
<1>3. Copies(x)' = Copies(x)
  BY <1>1 DEF Copies
<1>4. QED
  BY <1>1, <1>2, <1>3, BudgetKept

LEMMA StepBloat ==
  ASSUME Operators = {}, IsFiniteSet(Clients), BloatInv, [QueueNext]_queueVars
  PROVE  BloatInv'
<1>1. TypeInv /\ TypeInv'
  BY StepTyped DEF BloatInv
<1>2. ASSUME NEW x \in Items
      PROVE  Budget(x)'
  <2>1. Budget(x)
    BY DEF BloatInv
  <2>2. Poppers \subseteq Clients /\ Cleaners \subseteq Clients
    BY DEF Clients
  <2>3. ASSUME UNCHANGED queueVars
        PROVE  Budget(x)'
    BY <2>1, <2>3 DEF queueVars, Budget, Copies, Pending, Holds, Entry, Slack
  <2>4. ASSUME NEW p \in Clients, ResendSAdd(p)
        PROVE  Budget(x)'
    <3>1. hand[p] \in Items
      BY <1>1, <2>4 DEF TypeInv, HandFull, ResendSAdd
    <3>2. QED
      BY <1>1, <2>1, <2>4, <3>1, SAddBudget
  <2>5. ASSUME NEW p \in Clients, NEW y \in Items, PushSAdd(p, y) \/ RequeueSAdd(p, y)
        PROVE  Budget(x)'
    BY <1>1, <2>1, <2>5, SAddBudget, Zenon
  <2>6. ASSUME NEW p \in Clients,
               \/ PushRPush(p) \/ PopBLPop(p) \/ PopSRem(p) \/ CleanSRem(p)
               \/ LoseReply(p) \/ LoseBLPop(p)
        PROVE  Budget(x)'
    BY <1>1, <2>1, <2>6, RPushBudget, BLPopBudget, PopSRemBudget, CleanSRemBudget,
       LoseBLPopBudget, LoseReplyBudget, Zenon
  <2>7. ASSUME NEW p \in Clients,
               \/ \E ids \in SUBSET Items : CleanSMembers(p, ids)
               \/ RequeueDone(p) \/ Cut(p)
        PROVE  Budget(x)'
    BY <1>1, <2>1, <2>7, QuietBudget
  <2>8. ASSUME NEW p \in Clients, NEW y \in Items, LoseSAdd(p, y) \/ LoseRequeueSAdd(p, y)
        PROVE  Budget(x)'
    BY <1>1, <2>1, <2>8, LoseSAddBudget
  <2>9. ASSUME NEW s \in Cleaners, CleanLRange(s)
        PROVE  Budget(x)'
    BY <1>1, <2>1, <2>9, LRangeBudget
  <2>10. CASE QueueNext
    BY <2>2, <2>4, <2>5, <2>6, <2>7, <2>8, <2>9, <2>10, Steps, Zenon
  <2>11. QED
    BY <2>3, <2>10
<1>3. QED
  BY <1>1, <1>2 DEF BloatInv

\* With any number of pushers, consumers and sweepers, any of whose calls may be
\* cut, the list never holds more copies of an item than there are clients, plus
\* one, plus the replies that were lost.
THEOREM ListIsBounded ==
  ASSUME Operators = {}, IsFiniteSet(Clients)
  PROVE  QueueSpec => []BoundedBloat
<1>1. BloatInv /\ [QueueNext]_queueVars => BloatInv'
  BY StepBloat
<1>2. QueueInit => BloatInv
  BY InitBloat
<1>3. BloatInv => BoundedBloat
  <2>1. SUFFICES ASSUME BloatInv, NEW x \in Items
                 PROVE  Copies(x) <=
                          Cardinality(Clients) + Cardinality(Operators) + 1 + resent
    BY DEF BoundedBloat
  <2>2. Copies(x) + Cardinality(Pending(x)) <= Slack + resent + Entry(x)
    BY <2>1 DEF BloatInv, Budget
  <2>3. Entry(x) \in {0, 1}
    BY DEF Entry
  <2>4. TypeInv
    BY <2>1 DEF BloatInv
  <2>5. Cardinality(Operators) = 0
    BY FS_EmptySet
  <2>6. QED
    BY <2>1, <2>2, <2>3, <2>4, <2>5, Counts
<1>4. QED
  BY <1>1, <1>2, <1>3, PTL DEF QueueSpec

\* What lost replies can do to push and pop: each one adds one copy of an item to
\* the list at most, by an RPUSH that is executed twice or by an SREM whose second
\* execution lets in another push.  Calls that are cut add none.
THEOREM LostRepliesAddOneCopyEach ==
  ASSUME Operators = {}, Cleaners = {}, IsFiniteSet(Clients)
  PROVE  QueueSpec => [](\A x \in Items : Copies(x) <= 1 + resent)
<1>1. BloatInv /\ [QueueNext]_queueVars => BloatInv'
  BY StepBloat
<1>2. QueueInit => BloatInv
  BY InitBloat
<1>3. BloatInv => \A x \in Items : Copies(x) <= 1 + resent
  <2>1. SUFFICES ASSUME BloatInv, NEW x \in Items
                 PROVE  Copies(x) <= 1 + resent
    OBVIOUS
  <2>2. Copies(x) + Cardinality(Pending(x)) <= resent + Entry(x)
    <3>1. Copies(x) + Cardinality(Pending(x)) <= 0 + resent + Entry(x)
      BY <2>1 DEF BloatInv, Budget, Slack
    <3>2. TypeInv
      BY <2>1 DEF BloatInv
    <3>3. QED
      BY <3>1, <3>2, Counts
  <2>3. Entry(x) \in {0, 1}
    BY DEF Entry
  <2>4. TypeInv
    BY <2>1 DEF BloatInv
  <2>5. QED
    BY <2>1, <2>2, <2>3, <2>4, Counts
<1>4. QED
  BY <1>1, <1>2, <1>3, PTL DEF QueueSpec
=============================================================================
