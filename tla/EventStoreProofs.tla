--------------------------- MODULE EventStoreProofs ---------------------------
(***************************************************************************)
(* Theorems about the event store, for any sessions, pages, events and     *)
(* transcripts.  The argument: only the transaction that holds the row of  *)
(* an event changes its observations, so that each one knows what they     *)
(* will be when it commits (After).  Its count is theirs (Agrees), and its *)
(* search for contradictions has seen all of them (Looked); what is        *)
(* committed is in order by itself (Settled).                              *)
(***************************************************************************)
EXTENDS EventStore, FiniteSetTheorems, TLAPS

-----------------------------------------------------------------------------
(* Observations are counted as rows *)

\* What a row of by is.
LEMMA RowsMember ==
  ASSUME NEW by \in [Owners -> [Directions -> Nat]], NEW row
  PROVE  row \in Rows(by) <=>
           \E p \in Owners, d \in Directions, n \in Nat :
              row = <<p, d, n>> /\ 1 <= n /\ n <= by[p][d]
<1>1. \A p \in Owners, d \in Directions : by[p][d] \in Nat
  OBVIOUS
<1>2. ASSUME row \in Rows(by)
      PROVE  \E p \in Owners, d \in Directions, n \in Nat :
                row = <<p, d, n>> /\ 1 <= n /\ n <= by[p][d]
  <2>1. PICK p \in Owners, d \in Directions : row \in {<<p, d, n>> : n \in 1 .. by[p][d]}
    BY <1>2 DEF Rows
  <2>2. PICK n \in 1 .. by[p][d] : row = <<p, d, n>>
    BY <2>1
  <2> QED
    BY <1>1, <2>2
<1>3. ASSUME NEW p \in Owners, NEW d \in Directions, NEW n \in Nat,
             row = <<p, d, n>>, 1 <= n, n <= by[p][d]
      PROVE  row \in Rows(by)
  <2> DEFINE some == {<<p, d, m>> : m \in 1 .. by[p][d]}
  <2>1. row \in some
    BY <1>1, <1>3
  <2>2. some \in {{<<o, c, m>> : m \in 1 .. by[o][c]} : o \in Owners, c \in Directions}
    OBVIOUS
  <2> HIDE DEF some
  <2> QED
    BY <2>1, <2>2 DEF Rows
<1> QED
  BY <1>2, <1>3

\* more has one more observation than by, of page p and direction d.
OneMore(by, more, p, d) ==
    /\ more \in [Owners -> [Directions -> Nat]] /\ more[p][d] = by[p][d] + 1
    /\ \A o \in Owners, c \in Directions : (o # p \/ c # d) => more[o][c] = by[o][c]

\* One more observation is one more row.
LEMMA RowAdded ==
  ASSUME NEW by \in [Owners -> [Directions -> Nat]],
         NEW p \in Owners, NEW d \in Directions, NEW more, OneMore(by, more, p, d)
  PROVE  /\ Rows(more) = Rows(by) \cup {<<p, d, by[p][d] + 1>>}
         /\ <<p, d, by[p][d] + 1>> \notin Rows(by)
<1> DEFINE new == <<p, d, by[p][d] + 1>>
<1>1. by[p][d] \in Nat /\ by[p] \in [Directions -> Nat]
  OBVIOUS
<1>2. more \in [Owners -> [Directions -> Nat]]
  BY DEF OneMore
<1>3. /\ more[p][d] = by[p][d] + 1
      /\ \A o \in Owners, c \in Directions : (o # p \/ c # d) => more[o][c] = by[o][c]
  BY DEF OneMore
<1>4. ASSUME NEW row
      PROVE  row \in Rows(more) <=> row \in Rows(by) \cup {new}
  <2>1. ASSUME row \in Rows(more)
        PROVE  row \in Rows(by) \cup {new}
    <3>1. PICK o \in Owners, c \in Directions, n \in Nat :
             row = <<o, c, n>> /\ 1 <= n /\ n <= more[o][c]
      BY <1>2, <2>1, RowsMember
    <3>2. CASE o = p /\ c = d /\ n = by[p][d] + 1
      BY <3>1, <3>2
    <3>3. CASE o = p /\ c = d /\ n # by[p][d] + 1
      <4>0. o = p /\ c = d
        BY <3>3
      <4>1. n <= by[p][d] + 1 /\ n # by[p][d] + 1
        BY <1>3, <3>1, <3>3, <4>0
      <4>2. n <= by[p][d]
        BY <1>1, <4>1
      <4> QED
        BY <3>1, <4>0, <4>2, RowsMember
    <3>4. CASE o # p \/ c # d
      BY <1>3, <3>1, <3>4, RowsMember
    <3> QED
      BY <3>2, <3>3, <3>4
  <2>2. ASSUME row \in Rows(by)
        PROVE  row \in Rows(more)
    <3>1. PICK o \in Owners, c \in Directions, n \in Nat :
             row = <<o, c, n>> /\ 1 <= n /\ n <= by[o][c]
      BY <2>2, RowsMember
    <3>2. by[o][c] \in Nat /\ more[o][c] \in Nat /\ by[o][c] <= more[o][c]
      BY <1>1, <1>2, <1>3
    <3>3. n <= more[o][c]
      BY <3>1, <3>2
    <3> QED
      BY <1>2, <3>1, <3>3, RowsMember
  <2>3. new \in Rows(more)
    <3>1. by[p][d] + 1 \in Nat /\ 1 <= by[p][d] + 1 /\ by[p][d] + 1 <= more[p][d]
      BY <1>1, <1>3
    <3> QED
      BY <1>2, <3>1, RowsMember
  <2> QED
    BY <2>1, <2>2, <2>3
<1>5. new \notin Rows(by)
  <2> SUFFICES ASSUME new \in Rows(by)
               PROVE  FALSE
    OBVIOUS
  <2>1. PICK o \in Owners, c \in Directions, n \in Nat :
           new = <<o, c, n>> /\ n <= by[o][c]
    BY RowsMember
  <2>2. o = p /\ c = d /\ n = by[p][d] + 1
    BY <2>1
  <2> QED
    BY <1>1, <2>1, <2>2
<1>6. Rows(more) = Rows(by) \cup {new}
  BY <1>4
<1> QED
  BY <1>5, <1>6

\* There are finitely many observations.
Finite(by) == by \in [Owners -> [Directions -> Nat]] /\ IsFiniteSet(Rows(by))

\* One more observation raises the total by one.
LEMMA TotalAdded ==
  ASSUME NEW by, Finite(by), NEW p \in Owners, NEW d \in Directions,
         NEW more, OneMore(by, more, p, d)
  PROVE  Finite(more) /\ Total(by) \in Nat /\ Total(more) = Total(by) + 1
<1> DEFINE new == <<p, d, by[p][d] + 1>>
<1>1. by \in [Owners -> [Directions -> Nat]] /\ IsFiniteSet(Rows(by))
  BY DEF Finite
<1>2. Rows(more) = Rows(by) \cup {new} /\ new \notin Rows(by)
  BY <1>1, RowAdded
<1> HIDE DEF new
<1>3. /\ IsFiniteSet(Rows(by) \cup {new})
      /\ Cardinality(Rows(by) \cup {new}) = Cardinality(Rows(by)) + 1
  BY <1>1, <1>2, FS_AddElement
<1>4. Cardinality(Rows(by)) \in Nat
  BY <1>1, FS_CardinalityType
<1> QED
  BY <1>2, <1>3, <1>4 DEF Finite, Total, OneMore

\* An event that nobody has observed.
LEMMA NoRows ==
  /\ Finite([p \in Owners |-> Unseen]) /\ Total([p \in Owners |-> Unseen]) = 0
<1> DEFINE by == [p \in Owners |-> Unseen]
<1>1. by \in [Owners -> [Directions -> Nat]]
  BY DEF Unseen
<1>2. \A p \in Owners, d \in Directions : by[p][d] = 0
  BY DEF Unseen
<1>3. Rows(by) = {}
  BY <1>1, <1>2, RowsMember
<1> QED
  BY <1>1, <1>3, FS_EmptySet DEF Finite, Total

-----------------------------------------------------------------------------
(* The inductive invariant *)

\* What a transaction has written: a function on some of the events.
Writes(S) == UNION {[D -> S] : D \in SUBSET Events}

Transactions ==
    [pc : Steps, page : Owners, mentions : Seq(Mention), names : Seq(Keys),
     target : SUBSET Events, created : Writes(Keys), counts : Writes(Nat),
     noted : [Events -> [Directions -> Nat]], inserted : SUBSET Keys,
     found : SUBSET Events, flagged : SUBSET Events]

\* A transaction by itself: it observes no event whose row it does not hold.
Tidy(x) ==
    /\ x \in Transactions
    /\ x.pc = "idle" => x = NoSession
    /\ x.pc # "idle" => x.page \in Pages
    /\ x.pc = "count" => x.mentions # <<>>
    /\ x.pc # "commit" => x.flagged = {}
    /\ DOMAIN x.created \subseteq DOMAIN x.counts
    /\ \A e \in Events \ DOMAIN x.counts : x.noted[e] = Unseen

\* A transaction and what is committed: its new events are not there yet, and
\* those it updates are.
Standing(x) ==
    /\ \A e \in DOMAIN x.created : ~Exists(e)
    /\ \A e \in DOMAIN x.counts \cup x.target : Exists(e) \/ e \in DOMAIN x.created
    /\ \A e \in x.found \cup x.flagged : Exists(e)

\* The observations of e as they will be when the transaction commits.
After(x, e) ==
    [seen[e] EXCEPT ![x.page] = [d \in Directions |-> @[d] + x.noted[e][d]]]

\* The count of a row that a transaction holds is that of the observations.
Agrees(x) ==
    \A e \in DOMAIN x.counts : Finite(After(x, e)) /\ Total(After(x, e)) = x.counts[e] + 1

\* Once the contradictions have been looked for, none of an event that it holds
\* is missing.
Clash(by) == \E p, q \in Pages : Opinion(by, p, "positive") /\ Opinion(by, q, "negative")
Looked(x) ==
    \A e \in DOMAIN x.counts :
        Clash(After(x, e)) =>
            /\ x.pc = "flush" => e \in contested \cup overlooked \cup x.found
            /\ x.pc = "commit" => e \in contested \cup overlooked \cup x.flagged

\* Two transactions hold no row, and no unique key, in common.
Disjoint(x, y) ==
    /\ DOMAIN x.counts \cap DOMAIN y.counts = {}
    /\ x.inserted \cap y.inserted = {}
    /\ x.flagged \cap y.flagged = {}
Apart == \A s, t \in Sessions : s # t => Disjoint(session[s], session[t])

\* What is committed is in order by itself.
Settled(e) ==
    /\ event[e] = NoEvent \/ event[e] \in [key : Keys, count : Nat]
    /\ Finite(seen[e])
    /\ Exists(e) => Total(seen[e]) = event[e].count + 1
    /\ ~Exists(e) => seen[e] = [p \in Owners |-> Unseen]
    /\ Clash(seen[e]) => e \in contested \cup overlooked

Committed ==
    /\ \A e \in Events : Settled(e)
    /\ contested \cup overlooked \subseteq {e \in Events : Exists(e)}
    /\ entities \subseteq Keys /\ runs \in 0 .. MaxRuns

StoreInv ==
    /\ Committed /\ Apart
    /\ DOMAIN session = Sessions
    /\ \A s \in Sessions :
          /\ Tidy(session[s]) /\ Standing(session[s])
          /\ Agrees(session[s]) /\ Looked(session[s])

-----------------------------------------------------------------------------
(* Lemmas about transactions *)

LEMMA WritesMember ==
  ASSUME NEW S, NEW f \in Writes(S)
  PROVE  /\ DOMAIN f \subseteq Events /\ f \in [DOMAIN f -> S]
         /\ \A e \in DOMAIN f : e \in Events /\ f[e] \in S
<1>1. PICK D \in SUBSET Events : f \in [D -> S]
  BY DEF Writes
<1> QED
  BY <1>1

\* What a write is to do.
Written(S, f, e, v, g) ==
    /\ g \in Writes(S) /\ DOMAIN g = DOMAIN f \cup {e} /\ g[e] = v
    /\ \A c \in DOMAIN f : c # e => g[c] = f[c]

LEMMA WriteAdded ==
  ASSUME NEW S, NEW f \in Writes(S), NEW e \in Events, NEW v \in S
  PROVE  Written(S, f, e, v, Write(f, e, v))
<1> DEFINE D == DOMAIN f \cup {e}
           g == Write(f, e, v)
<1>1. D \in SUBSET Events /\ \A c \in DOMAIN f : f[c] \in S
  BY WritesMember
<1>2. g \in [D -> S]
  BY <1>1 DEF Write
<1>3. [D -> S] \in {[E -> S] : E \in SUBSET Events}
  BY <1>1
<1>4. g \in Writes(S)
  <2> DEFINE fs == [D -> S]
  <2>1. g \in fs /\ fs \in {[E -> S] : E \in SUBSET Events}
    BY <1>2, <1>3
  <2> HIDE DEF fs, g
  <2> QED
    BY <2>1 DEF Writes
<1> QED
  BY <1>4 DEF Write, Written

LEMMA CountWritten ==
  ASSUME NEW f \in Writes(Nat), NEW e \in Events, NEW v \in Nat
  PROVE  Written(Nat, f, e, v, Write(f, e, v))
<1> DEFINE S == Nat
<1>1. f \in Writes(S) /\ v \in S
  OBVIOUS
<1> HIDE DEF S
<1>2. Written(S, f, e, v, Write(f, e, v))
  BY <1>1, WriteAdded
<1> QED
  BY <1>2 DEF S

LEMMA EmptyWrites ==
  ASSUME NEW S, NEW v
  PROVE  [e \in {} |-> v] \in Writes(S)
<1>1. [e \in {} |-> v] \in [{} -> S]
  OBVIOUS
<1>2. {} \in SUBSET Events
  OBVIOUS
<1> DEFINE fs == [{} -> S]
           g == [e \in {} |-> v]
<1>3. g \in fs /\ fs \in {[E -> S] : E \in SUBSET Events}
  BY <1>1, <1>2
<1> HIDE DEF fs, g
<1> QED
  BY <1>3 DEF Writes, g

LEMMA UnseenType == Unseen \in [Directions -> Nat] /\ \A d \in Directions : Unseen[d] = 0
  BY DEF Unseen

\* A transaction that has not begun is in order.
LEMMA NoSessionIsSound ==
  /\ Tidy(NoSession) /\ Standing(NoSession) /\ Agrees(NoSession) /\ Looked(NoSession)
  /\ \A x : Disjoint(NoSession, x) /\ Disjoint(x, NoSession)
<1>1. /\ DOMAIN NoSession.counts = {} /\ DOMAIN NoSession.created = {}
      /\ NoSession.target = {} /\ NoSession.found = {} /\ NoSession.flagged = {}
      /\ NoSession.inserted = {} /\ NoSession.pc = "idle"
      /\ NoSession.noted = [e \in Events |-> Unseen]
  BY DEF NoSession
<1>2. NoSession \in Transactions
  <2>1. /\ NoSession.created \in Writes(Keys) /\ NoSession.counts \in Writes(Nat)
    BY EmptyWrites DEF NoSession
  <2>2. NoSession.noted \in [Events -> [Directions -> Nat]]
    BY UnseenType DEF NoSession
  <2>3. /\ NoSession.pc \in Steps /\ NoSession.page \in Owners
        /\ NoSession.mentions \in Seq(Mention) /\ NoSession.names \in Seq(Keys)
    BY DEF NoSession, Steps, Owners
  <2> QED
    BY <1>1, <2>1, <2>2, <2>3 DEF Transactions, NoSession
<1>3. Tidy(NoSession)
  BY <1>1, <1>2 DEF Tidy
<1> QED
  BY <1>1, <1>3 DEF Standing, Agrees, Looked, Disjoint

\* A session's own step: the others, and what is committed, stay as they are.
LEMMA OneTransaction ==
  ASSUME StoreInv, NEW s \in Sessions, NEW x,
         session' = [session EXCEPT ![s] = x],
         UNCHANGED <<event, seen, contested, overlooked, entities>>, runs' \in 0 .. MaxRuns,
         Tidy(x), Standing(x), Agrees(x), Looked(x),
         \A t \in Sessions \ {s} : Disjoint(x, session[t])
  PROVE  StoreInv'
<1>1. /\ DOMAIN session' = Sessions /\ session'[s] = x
      /\ \A t \in Sessions \ {s} : session'[t] = session[t]
  BY DEF StoreInv
<1>2. \A e : Exists(e)' <=> Exists(e)
  BY DEF Exists
<1>3. \A e \in Events : Settled(e) => Settled(e)'
  BY <1>2 DEF Settled
<1>4. Committed'
  BY <1>2, <1>3 DEF StoreInv, Committed
<1>5. Apart'
  BY <1>1 DEF StoreInv, Apart, Disjoint
<1>6. ASSUME NEW t \in Sessions
      PROVE  (Tidy(session[t]) /\ Standing(session[t])
                 /\ Agrees(session[t]) /\ Looked(session[t]))'
  <2>1. /\ Tidy(session'[t]) /\ Standing(session'[t])
        /\ Agrees(session'[t]) /\ Looked(session'[t])
    BY <1>1 DEF StoreInv
  <2>2. Standing(session[t])'
    BY <1>2, <2>1 DEF Standing
  <2>3. \A e : After(session[t], e)' = After(session'[t], e)
    BY DEF After
  <2>4. Agrees(session[t])' /\ Looked(session[t])'
    BY <2>1, <2>3 DEF Agrees, Looked
  <2> QED
    BY <2>1, <2>2, <2>4
<1> QED
  BY <1>1, <1>4, <1>5, <1>6 DEF StoreInv

\* What a transaction's fields are.
LEMMA Fields ==
  ASSUME NEW x \in Transactions
  PROVE  /\ x.pc \in Steps /\ x.page \in Owners
         /\ x.mentions \in Seq(Mention) /\ x.names \in Seq(Keys)
         /\ x.target \subseteq Events /\ x.inserted \subseteq Keys
         /\ x.found \subseteq Events /\ x.flagged \subseteq Events
         /\ x.created \in Writes(Keys) /\ x.counts \in Writes(Nat)
         /\ x.noted \in [Events -> [Directions -> Nat]]
         /\ DOMAIN x.created \subseteq Events /\ DOMAIN x.counts \subseteq Events
         /\ \A e \in DOMAIN x.created : x.created[e] \in Keys
         /\ \A e \in DOMAIN x.counts : x.counts[e] \in Nat
<1>1. /\ x.pc \in Steps /\ x.page \in Owners
      /\ x.mentions \in Seq(Mention) /\ x.names \in Seq(Keys)
      /\ x.target \subseteq Events /\ x.inserted \subseteq Keys
      /\ x.found \subseteq Events /\ x.flagged \subseteq Events
      /\ x.created \in Writes(Keys) /\ x.counts \in Writes(Nat)
      /\ x.noted \in [Events -> [Directions -> Nat]]
  BY DEF Transactions
<1> QED
  BY <1>1, WritesMember

\* What holds of a session, in one place.
LEMMA SessionFacts ==
  ASSUME StoreInv, NEW s \in Sessions
  PROVE  /\ session[s] \in Transactions
         /\ Tidy(session[s]) /\ Standing(session[s])
         /\ Agrees(session[s]) /\ Looked(session[s])
         /\ \A t \in Sessions \ {s} :
               Disjoint(session[s], session[t]) /\ Tidy(session[t])
BY DEF StoreInv, Apart, Tidy

\* An event of which the transaction has noted nothing is as it is committed.
LEMMA NothingNoted ==
  ASSUME NEW x, Tidy(x), NEW e \in Events, x.noted[e] = Unseen, Settled(e)
  PROVE  After(x, e) = seen[e]
<1>1. x.page \in Owners
  BY DEF Tidy, Transactions
<1>2. seen[e] \in [Owners -> [Directions -> Nat]]
  BY DEF Settled, Finite
<1>3. [d \in Directions |-> seen[e][x.page][d] + x.noted[e][d]] = seen[e][x.page]
  <2>1. \A d \in Directions : seen[e][x.page][d] + x.noted[e][d] = seen[e][x.page][d]
    BY <1>1, <1>2, UnseenType
  <2> QED
    BY <1>1, <1>2, <2>1
<1> QED
  BY <1>1, <1>2, <1>3 DEF After

\* Nor has it noted any of an event whose row it does not hold.
LEMMA NotHeld ==
  ASSUME NEW x, Tidy(x), NEW e \in Events, e \notin DOMAIN x.counts, Settled(e)
  PROVE  After(x, e) = seen[e]
BY NothingNoted DEF Tidy

\* after is by with the observations noted of page p.
Joined(by, p, noted, after) ==
    /\ after \in [Owners -> [Directions -> Nat]]
    /\ \A d \in Directions : after[p][d] = by[p][d] + noted[d]
    /\ \A o \in Owners \ {p} : after[o] = by[o]

LEMMA AfterValues ==
  ASSUME NEW e, seen[e] \in [Owners -> [Directions -> Nat]], NEW x,
         x.page \in Owners, x.noted[e] \in [Directions -> Nat]
  PROVE  Joined(seen[e], x.page, x.noted[e], After(x, e))
<1> DEFINE more == [d \in Directions |-> seen[e][x.page][d] + x.noted[e][d]]
<1>1. more \in [Directions -> Nat]
  OBVIOUS
<1>2. \A d \in Directions : more[d] = seen[e][x.page][d] + x.noted[e][d]
  OBVIOUS
<1>3. After(x, e) = [seen[e] EXCEPT ![x.page] = more]
  BY DEF After
<1> HIDE DEF more
<1> QED
  BY <1>1, <1>2, <1>3 DEF Joined

\* An observation is noted by the transaction that holds the row, and counted.
\* n is the count before it, that of a new event being 0.
LEMMA Observed ==
  ASSUME StoreInv, NEW s \in Sessions, Active(s), session[s].mentions # <<>>,
         session[s].pc # "commit", NEW e \in Events,
         Finite(After(session[s], e)), NEW n \in Nat, Total(After(session[s], e)) = n,
         NEW c \in Writes(Keys), DOMAIN c \subseteq DOMAIN session[s].counts \cup {e},
         \A o \in DOMAIN c : ~Exists(o),
         DOMAIN session[s].created \subseteq DOMAIN c, Exists(e) \/ e \in DOMAIN c,
         \A t \in Sessions \ {s} : ~Holds(t, e),
         session' = [session EXCEPT ![s] = [Noted(s, e) EXCEPT
                        !.created = c, !.counts = Write(@, e, n)]],
         UNCHANGED <<event, seen, contested, overlooked, entities, runs>>
  PROVE  StoreInv'
<1> DEFINE own == session[s]
           d == Head(own.mentions).direction
           x == [Noted(s, e) EXCEPT !.created = c, !.counts = Write(@, e, n)]
<1>1. own \in Transactions /\ Tidy(own) /\ Standing(own) /\ Agrees(own)
  BY SessionFacts
<1>2. own.mentions \in Seq(Mention) /\ own.mentions # <<>>
  BY <1>1, Fields
<1>3. Head(own.mentions) \in Mention /\ Tail(own.mentions) \in Seq(Mention)
  BY <1>2
<1>4. d \in Directions
  BY <1>3 DEF Mention
<1>5. own.noted \in [Events -> [Directions -> Nat]] /\ own.page \in Owners
  BY <1>1, Fields
<1> DEFINE noted == [own.noted EXCEPT ![e][d] = @ + 1]
           counts == Write(own.counts, e, n)
<1>6. x = [pc |-> "event", page |-> own.page, mentions |-> Tail(own.mentions),
           names |-> own.names, target |-> {}, created |-> c, counts |-> counts,
           noted |-> noted, inserted |-> own.inserted, found |-> own.found,
           flagged |-> own.flagged]
  <2>1. own = [pc |-> own.pc, page |-> own.page, mentions |-> own.mentions,
               names |-> own.names, target |-> own.target, created |-> own.created,
               counts |-> own.counts, noted |-> own.noted, inserted |-> own.inserted,
               found |-> own.found, flagged |-> own.flagged]
    BY <1>1 DEF Transactions
  <2>2. x = [own EXCEPT !.pc = "event", !.target = {}, !.mentions = Tail(own.mentions),
                        !.noted = noted, !.created = c, !.counts = counts]
    BY DEF Noted
  <2> HIDE DEF own, x, noted, counts
  <2> QED
    BY <2>1, <2>2
<1> HIDE DEF x
<1>7. /\ counts \in Writes(Nat) /\ DOMAIN counts = DOMAIN own.counts \cup {e}
      /\ counts[e] = n
      /\ \A o \in DOMAIN own.counts : o # e => counts[o] = own.counts[o]
  <2>1. own.counts \in Writes(Nat)
    BY <1>1, Fields
  <2> HIDE DEF own
  <2> QED
    <3>1. Written(Nat, own.counts, e, n, Write(own.counts, e, n))
      BY <2>1, CountWritten
    <3> QED
      BY <3>1 DEF Written
<1>8. /\ noted \in [Events -> [Directions -> Nat]]
      /\ noted[e][d] = own.noted[e][d] + 1
      /\ \A b \in Directions \ {d} : noted[e][b] = own.noted[e][b]
      /\ \A o \in Events \ {e} : noted[o] = own.noted[o]
  <2> DEFINE row == [own.noted[e] EXCEPT ![d] = @ + 1]
  <2> HIDE DEF own, d
  <2>1. /\ row \in [Directions -> Nat] /\ row[d] = own.noted[e][d] + 1
        /\ \A b \in Directions \ {d} : row[b] = own.noted[e][b]
    BY <1>4, <1>5
  <2>2. noted = [own.noted EXCEPT ![e] = row]
    OBVIOUS
  <2> HIDE DEF noted, row
  <2>3. /\ noted[e] = row /\ \A o \in Events \ {e} : noted[o] = own.noted[o]
        /\ noted \in [Events -> [Directions -> Nat]]
    BY <1>5, <2>1, <2>2
  <2> QED
    BY <2>1, <2>3
<1> HIDE DEF noted, counts
<1>9. /\ x.pc = "event" /\ x.page = own.page /\ x.target = {}
      /\ x.created = c /\ x.counts = counts /\ x.noted = noted
      /\ x.inserted = own.inserted /\ x.found = own.found /\ x.flagged = own.flagged
      /\ x \in Transactions
  <2>1. /\ "event" \in Steps /\ own.page \in Owners
        /\ Tail(own.mentions) \in Seq(Mention) /\ own.names \in Seq(Keys)
        /\ own.inserted \in SUBSET Keys /\ own.found \in SUBSET Events
        /\ own.flagged \in SUBSET Events
    BY <1>1, <1>3, Fields DEF Steps
  <2> HIDE DEF own
  <2> QED
    BY <1>6, <1>7, <1>8, <2>1 DEF Transactions
<1>10. own.pc # "idle" /\ own.flagged = {}
  BY <1>1 DEF Active, Tidy
<1>11. Tidy(x)
  <2>1. \A o \in Events \ DOMAIN x.counts : x.noted[o] = own.noted[o]
    BY <1>7, <1>8, <1>9
  <2> QED
    BY <1>1, <1>7, <1>9, <1>10, <2>1 DEF Tidy
<1>12. Standing(x)
  BY <1>1, <1>7, <1>9 DEF Standing
<1>found. Agrees(x)
  <2> SUFFICES ASSUME NEW o \in DOMAIN x.counts
               PROVE  Finite(After(x, o)) /\ Total(After(x, o)) = x.counts[o] + 1
    BY DEF Agrees
  <2>0. o \in Events
    BY <1>9, Fields
  <2>1. CASE o = e
    <3> DEFINE by == After(own, e)
    <3>1. seen[e] \in [Owners -> [Directions -> Nat]]
      BY DEF StoreInv, Committed, Settled, Finite
    <3>2. OneMore(by, After(x, e), own.page, d)
      <4>1. x.noted[e] \in [Directions -> Nat] /\ own.noted[e] \in [Directions -> Nat]
        BY <1>5, <1>8, <1>9
      <4>2. Joined(seen[e], own.page, noted[e], After(x, e))
        BY <1>5, <1>9, <3>1, <4>1, AfterValues
      <4>3. Joined(seen[e], own.page, own.noted[e], by)
        BY <1>5, <3>1, <4>1, AfterValues
      <4> HIDE DEF by, own, d
      <4>4. \A b \in Directions :
               seen[e][own.page][b] \in Nat /\ own.noted[e][b] \in Nat
        BY <1>5, <3>1, <4>1
      <4>5. After(x, e)[own.page][d] = by[own.page][d] + 1
        <5>1. /\ After(x, e)[own.page][d] = seen[e][own.page][d] + noted[e][d]
              /\ by[own.page][d] = seen[e][own.page][d] + own.noted[e][d]
          BY <1>4, <4>2, <4>3 DEF Joined
        <5>2. seen[e][own.page][d] \in Nat /\ own.noted[e][d] \in Nat
          BY <1>4, <4>4
        <5>3. noted[e][d] = own.noted[e][d] + 1
          BY <1>8
        <5> DEFINE a == seen[e][own.page][d]
                   b == own.noted[e][d]
        <5>4. /\ After(x, e)[own.page][d] = a + (b + 1) /\ by[own.page][d] = a + b
              /\ a \in Nat /\ b \in Nat
          BY <5>1, <5>2, <5>3
        <5> HIDE DEF a, b
        <5> QED
          BY <5>4
      <4>6. \A b \in Directions \ {d} : After(x, e)[own.page][b] = by[own.page][b]
        BY <1>8, <4>2, <4>3 DEF Joined
      <4>7. \A p \in Owners \ {own.page} : After(x, e)[p] = by[p]
        BY <4>2, <4>3 DEF Joined
      <4> QED
        BY <4>2, <4>5, <4>6, <4>7 DEF Joined, OneMore
    <3>3. Finite(by) /\ Total(by) = n
      OBVIOUS
    <3>4. Finite(After(x, e)) /\ Total(After(x, e)) = n + 1
      <4> HIDE DEF by, own, d
      <4> QED
        BY <1>4, <1>5, <3>2, <3>3, TotalAdded
    <3> QED
      BY <1>7, <1>9, <2>1, <3>4
  <2>2. CASE o # e
    <3>1. x.noted[o] = own.noted[o]
      BY <1>8, <1>9, <2>0, <2>2
    <3>2. After(x, o) = After(own, o)
      BY <1>9, <3>1 DEF After
    <3> QED
      BY <1>1, <1>7, <1>9, <2>2, <3>2 DEF Agrees
  <2> QED
    BY <2>1, <2>2
<1>14. Looked(x)
  BY <1>9 DEF Looked
<1>15. \A t \in Sessions \ {s} : Disjoint(x, session[t])
  BY <1>7, <1>9, SessionFacts DEF Disjoint, Holds
<1>16. session' = [session EXCEPT ![s] = x] /\ runs' \in 0 .. MaxRuns
  BY DEF x, StoreInv, Committed
<1> QED
  BY <1>11, <1>12, <1>found, <1>14, <1>15, <1>16, OneTransaction

\* A transaction that has written the same rows will leave the same observations.
LEMMA SameRows ==
  ASSUME NEW x, NEW y, y.page = x.page, y.noted = x.noted, y.counts = x.counts
  PROVE  /\ \A e : After(y, e) = After(x, e)
         /\ Agrees(x) => Agrees(y)
<1>1. \A e : After(y, e) = After(x, e)
  BY DEF After
<1> QED
  BY <1>1 DEF Agrees

-----------------------------------------------------------------------------
(* Each statement keeps the invariant *)

LEMMA AbortKeepsInv ==
  ASSUME StoreInv, NEW s \in Sessions, Abort(s)
  PROVE  StoreInv'
<1>1. /\ session' = [session EXCEPT ![s] = NoSession]
      /\ UNCHANGED <<event, seen, contested, overlooked, entities>> /\ runs' \in 0 .. MaxRuns
  BY DEF Abort, Becomes, StoreInv, Committed
<1>2. \A t \in Sessions \ {s} : Disjoint(NoSession, session[t])
  BY NoSessionIsSound
<1> QED
  BY <1>1, <1>2, NoSessionIsSound, OneTransaction

LEMMA ExtractKeepsInv ==
  ASSUME StoreInv, NEW s \in Sessions, NEW page \in Pages, Extract(s, page)
  PROVE  StoreInv'
<1>1. PICK y \in Yields :
         session' = [session EXCEPT ![s] =
             [NoSession EXCEPT !.pc = "event", !.page = page,
                               !.mentions = y[1], !.names = y[2]]]
  BY DEF Extract
<1> DEFINE x == [NoSession EXCEPT !.pc = "event", !.page = page,
                                  !.mentions = y[1], !.names = y[2]]
<1>2. y[1] \in Seq(Mention) /\ y[2] \in Seq(Keys)
  BY EventAssumption
<1>3. runs' \in 0 .. MaxRuns
  BY EventAssumption DEF Extract, StoreInv, Committed
<1>4. /\ NoSession \in Transactions /\ NoSession.noted = [e \in Events |-> Unseen]
      /\ DOMAIN NoSession.counts = {} /\ DOMAIN NoSession.created = {}
  BY NoSessionIsSound DEF Tidy, NoSession
<1>5. x = [pc |-> "event", page |-> page, mentions |-> y[1], names |-> y[2],
           target |-> {}, created |-> NoSession.created, counts |-> NoSession.counts,
           noted |-> NoSession.noted, inserted |-> {}, found |-> {}, flagged |-> {}]
  <2> DEFINE none == NoSession
  <2>1. /\ none.target = {} /\ none.inserted = {} /\ none.found = {} /\ none.flagged = {}
    BY DEF NoSession
  <2>2. none \in Transactions
    BY <1>4
  <2>3. x = [none EXCEPT !.pc = "event", !.page = page,
                         !.mentions = y[1], !.names = y[2]]
    OBVIOUS
  <2> HIDE DEF none, x
  <2>4. x = [none EXCEPT !.pc = "event", !.page = page,
                         !.mentions = y[1], !.names = y[2]]
    BY <2>3
  <2>5. x = [pc |-> "event", page |-> page, mentions |-> y[1], names |-> y[2],
             target |-> {}, created |-> none.created, counts |-> none.counts,
             noted |-> none.noted, inserted |-> {}, found |-> {}, flagged |-> {}]
    BY <2>1, <2>2, <2>4 DEF Transactions
  <2> QED
    BY <2>5 DEF none
<1>6. x \in Transactions
  <2>1. /\ NoSession.created \in Writes(Keys) /\ NoSession.counts \in Writes(Nat)
        /\ NoSession.noted \in [Events -> [Directions -> Nat]]
    BY <1>4, Fields
  <2> HIDE DEF x
  <2> QED
    BY <1>2, <1>5, <2>1 DEF Transactions, Steps, Owners
<1>7. /\ x.pc = "event" /\ x.page = page /\ x.target = {}
      /\ x.created = NoSession.created /\ x.counts = NoSession.counts
      /\ x.noted = NoSession.noted
      /\ x.inserted = {} /\ x.found = {} /\ x.flagged = {}
  <2> HIDE DEF x
  <2> QED
    BY <1>5
<1>8. /\ session' = [session EXCEPT ![s] = x]
      /\ UNCHANGED <<event, seen, contested, overlooked, entities>>
  BY <1>1 DEF Extract
<1> HIDE DEF x
<1>9. Tidy(x) /\ Standing(x) /\ Agrees(x) /\ Looked(x)
  BY <1>4, <1>6, <1>7 DEF Tidy, Standing, Agrees, Looked
<1>10. \A t \in Sessions \ {s} : Disjoint(x, session[t])
  BY <1>4, <1>7 DEF Disjoint
<1> QED
  BY <1>3, <1>8, <1>9, <1>10, OneTransaction

LEMMA MatchEventKeepsInv ==
  ASSUME StoreInv, NEW s \in Sessions, NEW e \in Events, MatchEvent(s, e)
  PROVE  StoreInv'
<1> DEFINE own == session[s]
           x == [own EXCEPT !.pc = "count", !.target = {e}]
<1>1. /\ own \in Transactions /\ Tidy(own) /\ Standing(own) /\ Agrees(own)
      /\ \A t \in Sessions \ {s} : Disjoint(own, session[t])
  BY SessionFacts
<1>2. /\ own.pc = "event" /\ own.mentions # <<>>
      /\ e \in DOMAIN own.created \/ Exists(e)
      /\ session' = [session EXCEPT ![s] = x]
      /\ UNCHANGED <<event, seen, contested, overlooked, entities>> /\ runs' \in 0 .. MaxRuns
  BY DEF MatchEvent, Becomes, Mine, StoreInv, Committed
<1>3. /\ x \in Transactions /\ x.pc = "count" /\ x.target = {e}
      /\ x.page = own.page /\ x.mentions = own.mentions /\ x.created = own.created
      /\ x.counts = own.counts /\ x.noted = own.noted /\ x.inserted = own.inserted
      /\ x.found = own.found /\ x.flagged = own.flagged
  BY <1>1 DEF Transactions, Steps
<1> HIDE DEF own, x
<1>4. Tidy(x)
  BY <1>1, <1>2, <1>3 DEF Tidy
<1>5. Standing(x)
  BY <1>1, <1>2, <1>3 DEF Standing
<1>6. Agrees(x)
  BY <1>1, <1>3, SameRows
<1>7. Looked(x)
  BY <1>3 DEF Looked
<1>8. \A t \in Sessions \ {s} : Disjoint(x, session[t])
  BY <1>1, <1>3 DEF Disjoint
<1> QED
  BY <1>2, <1>4, <1>5, <1>6, <1>7, <1>8, OneTransaction

\* A new event has no observations yet, committed or not.
LEMMA CreateCanonicalKeepsInv ==
  ASSUME StoreInv, NEW s \in Sessions, CreateCanonical(s)
  PROVE  StoreInv'
<1> DEFINE own == session[s]
           e == CHOOSE id \in Unused : TRUE
           key == Head(own.mentions).key
           c == Write(own.created, e, key)
<1>1. /\ own \in Transactions /\ Tidy(own) /\ Standing(own)
      /\ \A t \in Sessions \ {s} : Tidy(session[t]) /\ Standing(session[t])
  BY SessionFacts DEF StoreInv
<1>2. own.pc = "event" /\ own.mentions # <<>> /\ Unused # {}
  BY DEF CreateCanonical
<1>3. e \in Unused
  BY <1>2
<1> HIDE DEF e
<1>4. e \in Events /\ ~Exists(e) /\ \A t \in Sessions : e \notin DOMAIN session[t].created
  BY <1>3 DEF Unused, Mine
<1>5. \A t \in Sessions : e \notin DOMAIN session[t].counts
  BY <1>1, <1>4 DEF Standing
<1>6. After(own, e) = [p \in Owners |-> Unseen]
  <2>1. Settled(e) /\ seen[e] = [p \in Owners |-> Unseen]
    BY <1>4 DEF StoreInv, Committed, Settled
  <2> QED
    BY <1>1, <1>4, <1>5, <2>1, NotHeld
<1>7. Finite(After(own, e)) /\ Total(After(own, e)) = 0
  BY <1>6, NoRows
<1>8. key \in Keys
  <2>1. own.mentions \in Seq(Mention)
    BY <1>1, Fields
  <2>2. Head(own.mentions) \in Mention
    BY <1>2, <2>1
  <2> QED
    BY <2>2 DEF Mention
<1>9. Written(Keys, own.created, e, key, c)
  <2>1. own.created \in Writes(Keys)
    BY <1>1, Fields
  <2> QED
    BY <1>4, <1>8, <2>1, WriteAdded
<1>10. /\ c \in Writes(Keys) /\ DOMAIN c \subseteq DOMAIN own.counts \cup {e}
       /\ DOMAIN own.created \subseteq DOMAIN c /\ e \in DOMAIN c
       /\ \A o \in DOMAIN c : ~Exists(o)
  BY <1>1, <1>4, <1>9 DEF Written, Tidy, Standing
<1>11. /\ session' = [session EXCEPT ![s] = [Noted(s, e) EXCEPT
                        !.created = c, !.counts = Write(@, e, 0)]]
       /\ UNCHANGED <<event, seen, contested, overlooked, entities, runs>>
  <2>1. Noted(s, e).created = own.created
    BY <1>1 DEF Noted, Transactions
  <2> QED
    BY <2>1 DEF CreateCanonical, Becomes, e
<1>12. Active(s) /\ own.pc # "commit" /\ \A t \in Sessions \ {s} : ~Holds(t, e)
  BY <1>2, <1>5 DEF Active, Holds
<1> HIDE DEF c
<1> DEFINE n == 0
<1>found. n \in Nat /\ Total(After(own, e)) = n
       /\ session' = [session EXCEPT ![s] = [Noted(s, e) EXCEPT
                        !.created = c, !.counts = Write(@, e, n)]]
  BY <1>7, <1>11
<1> HIDE DEF n
<1> QED
  BY <1>found, <1>2, <1>4, <1>7, <1>10, <1>11, <1>12, Observed

\* It is the lock on the row that keeps the count: the other sessions leave it, and
\* with it the event's observations, alone.
LEMMA IncObservationCountKeepsInv ==
  ASSUME StoreInv, NEW s \in Sessions, NEW e \in Events, IncObservationCount(s, e)
  PROVE  StoreInv'
<1> DEFINE own == session[s]
           n == Counted(s, e) + 1
<1>1. own \in Transactions /\ Tidy(own) /\ Standing(own) /\ Agrees(own)
  BY SessionFacts
<1>2. /\ own.pc = "count" /\ e \in own.target /\ own.mentions # <<>>
      /\ \A t \in Sessions \ {s} : ~Holds(t, e)
  BY <1>1 DEF IncObservationCount, Tidy
<1>3. Exists(e) \/ e \in DOMAIN own.created
  BY <1>1, <1>2 DEF Standing
<1>4. Finite(After(own, e)) /\ n \in Nat /\ Total(After(own, e)) = n
  <2>1. CASE Holds(s, e)
    <3>1. e \in DOMAIN own.counts /\ Counted(s, e) = own.counts[e]
      BY <2>1 DEF Holds, Counted
    <3>2. own.counts[e] \in Nat
      BY <1>1, <3>1, Fields
    <3> QED
      BY <1>1, <3>1, <3>2 DEF Agrees
  <2>2. CASE ~Holds(s, e)
    <3>1. e \notin DOMAIN own.counts /\ Counted(s, e) = event[e].count
      BY <2>2 DEF Holds, Counted
    <3>2. Exists(e)
      BY <1>1, <1>3, <3>1 DEF Tidy
    <3>3. Settled(e)
      BY DEF StoreInv, Committed
    <3>4. After(own, e) = seen[e]
      BY <1>1, <3>1, <3>3, NotHeld
    <3>5. Finite(seen[e]) /\ event[e].count \in Nat /\ Total(seen[e]) = event[e].count + 1
      BY <3>2, <3>3 DEF Settled, Exists
    <3> QED
      BY <3>1, <3>4, <3>5
  <2> QED
    BY <2>1, <2>2
<1>5. /\ session' = [session EXCEPT ![s] = [Noted(s, e) EXCEPT !.counts = Write(@, e, n)]]
      /\ UNCHANGED <<event, seen, contested, overlooked, entities, runs>>
  BY DEF IncObservationCount, Becomes
<1> HIDE DEF n
<1> DEFINE c == own.created
<1>6. [Noted(s, e) EXCEPT !.counts = Write(@, e, n)] =
      [Noted(s, e) EXCEPT !.created = c, !.counts = Write(@, e, n)]
  <2> DEFINE noted == [own.noted EXCEPT ![e][Head(own.mentions).direction] = @ + 1]
             counts == Write(Noted(s, e).counts, e, n)
             x == [Noted(s, e) EXCEPT !.counts = counts]
             y == [Noted(s, e) EXCEPT !.created = c, !.counts = counts]
             z == [pc |-> "event", page |-> own.page, mentions |-> Tail(own.mentions),
                   names |-> own.names, target |-> {}, created |-> own.created,
                   counts |-> counts, noted |-> noted, inserted |-> own.inserted,
                   found |-> own.found, flagged |-> own.flagged]
  <2>1. /\ x = [own EXCEPT !.pc = "event", !.target = {}, !.mentions = Tail(own.mentions),
                           !.noted = noted, !.counts = counts]
        /\ y = [own EXCEPT !.pc = "event", !.target = {}, !.mentions = Tail(own.mentions),
                           !.noted = noted, !.created = own.created, !.counts = counts]
    BY DEF Noted
  <2> HIDE DEF own, noted, counts, x, y
  <2>2. x = z /\ y = z
    BY <1>1, <2>1 DEF Transactions
  <2> QED
    BY <2>2 DEF x, y, counts
<1>7. session' = [session EXCEPT ![s] = [Noted(s, e) EXCEPT
                     !.created = c, !.counts = Write(@, e, n)]]
  BY <1>5, <1>6
<1>8. c \in Writes(Keys) /\ DOMAIN c \subseteq DOMAIN own.counts \cup {e}
  BY <1>1, Fields DEF Tidy
<1>9. /\ \A o \in DOMAIN c : ~Exists(o)
      /\ Exists(e) \/ e \in DOMAIN c
      /\ Active(s) /\ own.pc # "commit"
  BY <1>1, <1>2, <1>3 DEF Standing, Active
<1>10. DOMAIN own.created \subseteq DOMAIN c
  OBVIOUS
<1> HIDE DEF c
<1> QED
  BY <1>2, <1>4, <1>5, <1>7, <1>8, <1>9, <1>10, Observed

LEMMA CutShortKeepsInv ==
  ASSUME StoreInv, NEW s \in Sessions, CutShort(s)
  PROVE  StoreInv'
<1> DEFINE own == session[s]
           x == [own EXCEPT !.pc = "cut", !.mentions = <<>>, !.names = <<>>]
<1>1. /\ own \in Transactions /\ Tidy(own) /\ Standing(own) /\ Agrees(own)
      /\ \A t \in Sessions \ {s} : Disjoint(own, session[t])
  BY SessionFacts
<1>2. /\ own.pc = "event" /\ session' = [session EXCEPT ![s] = x]
      /\ UNCHANGED <<event, seen, contested, overlooked, entities>>
      /\ runs' \in 0 .. MaxRuns
  BY DEF CutShort, Becomes, StoreInv, Committed
<1>3. /\ x \in Transactions /\ x.pc = "cut" /\ x.target = own.target
      /\ x.page = own.page /\ x.created = own.created
      /\ x.counts = own.counts /\ x.noted = own.noted /\ x.inserted = own.inserted
      /\ x.found = own.found /\ x.flagged = own.flagged
  <2>1. <<>> \in Seq(Mention) /\ <<>> \in Seq(Keys) /\ "cut" \in Steps
    BY DEF Steps
  <2> HIDE DEF own
  <2> QED
    BY <1>1, <2>1 DEF Transactions
<1> HIDE DEF own, x
<1>4. Tidy(x) /\ Standing(x) /\ Looked(x)
  BY <1>1, <1>2, <1>3 DEF Tidy, Standing, Looked
<1>5. Agrees(x)
  BY <1>1, <1>3, SameRows
<1>6. \A t \in Sessions \ {s} : Disjoint(x, session[t])
  BY <1>1, <1>3 DEF Disjoint
<1> QED
  BY <1>2, <1>4, <1>5, <1>6, OneTransaction

LEMMA LinkEntityKeepsInv ==
  ASSUME StoreInv, NEW s \in Sessions, LinkEntity(s)
  PROVE  StoreInv'
<1> DEFINE own == session[s]
           name == Head(own.names)
           inserted == IF name \in entities THEN own.inserted ELSE own.inserted \cup {name}
           x == [own EXCEPT !.names = Tail(own.names), !.inserted = inserted]
<1>1. /\ own \in Transactions /\ Tidy(own) /\ Standing(own) /\ Agrees(own)
      /\ \A t \in Sessions \ {s} : Disjoint(own, session[t])
  BY SessionFacts
<1>2. own.names \in Seq(Keys)
  BY <1>1, Fields
<1>3. /\ own.pc = "event" /\ own.names # <<>> /\ session' = [session EXCEPT ![s] = x]
      /\ \A t \in Sessions \ {s} : name \notin session[t].inserted
      /\ UNCHANGED <<event, seen, contested, overlooked, entities>> /\ runs' \in 0 .. MaxRuns
  BY DEF LinkEntity, Linking, Becomes, StoreInv, Committed
<1>4. name \in Keys /\ Tail(own.names) \in Seq(Keys)
  BY <1>2, <1>3
<1>5. inserted \in SUBSET Keys
  BY <1>1, <1>4, Fields
<1>6. \A t \in Sessions \ {s} : inserted \cap session[t].inserted = {}
  BY <1>1, <1>3 DEF Disjoint
<1> HIDE DEF inserted
<1>7. /\ x \in Transactions /\ x.pc = "event" /\ x.target = own.target
      /\ x.page = own.page /\ x.mentions = own.mentions /\ x.created = own.created
      /\ x.counts = own.counts /\ x.noted = own.noted /\ x.inserted = inserted
      /\ x.found = own.found /\ x.flagged = own.flagged
  BY <1>1, <1>3, <1>4, <1>5 DEF Transactions, Steps
<1> HIDE DEF own, x
<1>8. Tidy(x) /\ Standing(x) /\ Looked(x)
  BY <1>1, <1>3, <1>7 DEF Tidy, Standing, Looked
<1>9. Agrees(x)
  BY <1>1, <1>7, SameRows
<1>10. \A t \in Sessions \ {s} : Disjoint(x, session[t])
  BY <1>1, <1>6, <1>7 DEF Disjoint
<1> QED
  BY <1>3, <1>8, <1>9, <1>10, OneTransaction

LEMMA Opposites == Opposite("positive") = "negative" /\ Opposite("negative") = "positive"
  BY DEF Opposite

\* Two pages that clash are two pages; if it is the other one's opinion that is
\* opposed to ours, the search finds it, whatever observation of ours it takes.
LEMMA DetectFinds ==
  ASSUME StoreInv, NEW s \in Sessions, Active(s), NEW e \in Events,
         Clash(After(session[s], e)), e \notin contested \cup overlooked
  PROVE  /\ e \in Conflicting(s)
         /\ \A d \in Ours(s, e) : Opposite(d) \in Theirs(s, e)
<1> DEFINE own == session[s]
           P == own.page
           by == After(own, e)
<1>1. own \in Transactions /\ Tidy(own) /\ Settled(e) /\ P \in Pages /\ P \in Owners
  <2>1. own \in Transactions /\ Tidy(own)
    BY SessionFacts
  <2>2. P \in Pages
    BY <2>1 DEF Active, Tidy
  <2>3. Settled(e)
    BY DEF StoreInv, Committed
  <2> QED
    BY <2>1, <2>2, <2>3 DEF Owners
<1>2. seen[e] \in [Owners -> [Directions -> Nat]] /\ own.noted[e] \in [Directions -> Nat]
  <2>1. own.noted \in [Events -> [Directions -> Nat]]
    BY <1>1, Fields
  <2>2. own.noted[e] \in [Directions -> Nat]
    BY <2>1
  <2> QED
    BY <1>1, <2>2 DEF Settled, Finite
<1>3. Joined(seen[e], P, own.noted[e], by)
  BY <1>1, <1>2, AfterValues
<1>4. PICK p, q \in Pages : Opinion(by, p, "positive") /\ Opinion(by, q, "negative")
  BY DEF Clash
<1>5. /\ by[p]["positive"] > 0 /\ by[p]["negative"] = 0 /\ by[p]["none"] = 0
      /\ by[q]["negative"] > 0 /\ by[q]["positive"] = 0 /\ by[q]["none"] = 0
  BY <1>4, Opposites DEF Opinion
<1> HIDE DEF by
<1>6. /\ p # q /\ p \in Owners /\ q \in Owners
      /\ \A d \in Directions : d = "positive" \/ d = "negative" \/ d = "none"
      /\ "positive" \in Directions /\ "negative" \in Directions /\ "none" \in Directions
  BY <1>5 DEF Owners, Directions
<1>7. \A d \in Directions : d \in Ours(s, e) <=> by[P][d] > 0
  BY <1>1, <1>3 DEF Ours, Joined
<1>8. CASE p # P /\ q # P
  <2>1. by[p] = seen[e][p] /\ by[q] = seen[e][q]
    BY <1>3, <1>6, <1>8 DEF Joined
  <2>2. Clash(seen[e])
    BY <1>4, <2>1 DEF Clash, Opinion
  <2> QED
    BY <1>1, <2>2 DEF Settled
<1>9. CASE p = P
  <2>1. Ours(s, e) = {"positive"}
    BY <1>5, <1>6, <1>7, <1>9 DEF Ours
  <2>2. by[q] = seen[e][q]
    BY <1>3, <1>6, <1>9 DEF Joined
  <2>3. "negative" \in Theirs(s, e)
    BY <1>4, <1>5, <1>6, <1>9, <2>2 DEF Theirs
  <2> QED
    BY <2>1, <2>3, Opposites DEF Conflicting
<1>10. CASE q = P
  <2>1. Ours(s, e) = {"negative"}
    BY <1>5, <1>6, <1>7, <1>10 DEF Ours
  <2>2. by[p] = seen[e][p]
    BY <1>3, <1>6, <1>10 DEF Joined
  <2>3. "positive" \in Theirs(s, e)
    BY <1>4, <1>5, <1>6, <1>10, <2>2 DEF Theirs
  <2> QED
    BY <2>1, <2>3, Opposites DEF Conflicting
<1> QED
  BY <1>8, <1>9, <1>10

\* What is found is there: a committed observation is of a committed event.
LEMMA ConflictingExist ==
  ASSUME StoreInv, NEW s \in Sessions, NEW e \in Conflicting(s)
  PROVE  e \in Events /\ Exists(e)
<1>1. e \in Events /\ \E d : d \in Theirs(s, e)
  BY DEF Conflicting
<1>2. PICK d \in Directions, p \in Pages : seen[e][p][d] > 0
  BY <1>1 DEF Theirs
<1>3. Settled(e)
  BY <1>1 DEF StoreInv, Committed
<1>4. seen[e] # [o \in Owners |-> Unseen]
  <2> SUFFICES ASSUME seen[e] = [o \in Owners |-> Unseen]
               PROVE  FALSE
    OBVIOUS
  <2>1. p \in Owners
    BY DEF Owners
  <2>2. seen[e][p][d] = 0
    BY <2>1, UnseenType
  <2> QED
    BY <1>2, <2>2
<1> QED
  BY <1>1, <1>3, <1>4 DEF Settled

LEMMA DetectKeepsInv ==
  ASSUME StoreInv, NEW s \in Sessions, Detect(s)
  PROVE  StoreInv'
<1> DEFINE own == session[s]
           F(ours) == {e \in Conflicting(s) \ contested : Opposite(ours[e]) \in Theirs(s, e)}
<1>1. PICK ours \in [Conflicting(s) -> Directions] :
         /\ \A e \in Conflicting(s) : ours[e] \in Ours(s, e)
         /\ Becomes(s, [own EXCEPT !.pc = IF F(ours) = {} THEN "commit" ELSE "flush",
                                   !.found = F(ours)])
  BY DEF Detect
<1> DEFINE found == F(ours)
           pc == IF found = {} THEN "commit" ELSE "flush"
           x == [own EXCEPT !.pc = pc, !.found = found]
<1>2. /\ own \in Transactions /\ Tidy(own) /\ Standing(own) /\ Agrees(own)
      /\ \A t \in Sessions \ {s} : Disjoint(own, session[t])
  BY SessionFacts
<1>3. /\ own.pc = "event" /\ session' = [session EXCEPT ![s] = x]
      /\ UNCHANGED <<event, seen, contested, overlooked, entities>> /\ runs' \in 0 .. MaxRuns
  BY <1>1 DEF Detect, Linking, Becomes, StoreInv, Committed
<1>4. \A e \in found : e \in Events /\ Exists(e)
  BY ConflictingExist
<1>5. \A e \in DOMAIN own.counts : Clash(After(own, e)) =>
         e \in contested \cup overlooked \cup found
  <2> SUFFICES ASSUME NEW e \in DOMAIN own.counts, Clash(After(own, e)),
                      e \notin contested \cup overlooked
               PROVE  e \in found
    OBVIOUS
  <2>1. e \in Events
    BY <1>2, Fields
  <2>2. e \in Conflicting(s) /\ \A d \in Ours(s, e) : Opposite(d) \in Theirs(s, e)
    BY <1>3, <2>1, DetectFinds DEF Active
  <2> QED
    BY <1>1, <2>2
<1> HIDE DEF found
<1>6. /\ x \in Transactions /\ x.target = own.target
      /\ x.pc = "flush" \/ (x.pc = "commit" /\ found = {})
      /\ x.page = own.page /\ x.mentions = own.mentions /\ x.created = own.created
      /\ x.counts = own.counts /\ x.noted = own.noted /\ x.inserted = own.inserted
      /\ x.found = found /\ x.flagged = own.flagged
  BY <1>2, <1>4 DEF Transactions, Steps
<1> HIDE DEF own, x
<1>7. Tidy(x) /\ Standing(x)
  BY <1>2, <1>3, <1>4, <1>6 DEF Tidy, Standing
<1>8. Agrees(x)
  BY <1>2, <1>6, SameRows
<1>9. Looked(x)
  BY <1>5, <1>6, SameRows DEF Looked
<1>10. \A t \in Sessions \ {s} : Disjoint(x, session[t])
  BY <1>2, <1>6 DEF Disjoint
<1> QED
  BY <1>3, <1>7, <1>8, <1>9, <1>10, OneTransaction

LEMMA FlushLinksKeepsInv ==
  ASSUME StoreInv, NEW s \in Sessions, FlushLinks(s)
  PROVE  StoreInv'
<1> DEFINE own == session[s]
           x == [own EXCEPT !.pc = "commit", !.found = {}, !.flagged = own.found]
<1>1. /\ own \in Transactions /\ Tidy(own) /\ Standing(own) /\ Agrees(own) /\ Looked(own)
      /\ \A t \in Sessions \ {s} : Disjoint(own, session[t])
  BY SessionFacts
<1>2. /\ own.pc = "flush" /\ session' = [session EXCEPT ![s] = x]
      /\ \A t \in Sessions \ {s} : own.found \cap session[t].flagged = {}
      /\ UNCHANGED <<event, seen, contested, overlooked, entities>> /\ runs' \in 0 .. MaxRuns
  BY DEF FlushLinks, Becomes, StoreInv, Committed
<1>3. /\ x \in Transactions /\ x.pc = "commit" /\ x.target = own.target
      /\ x.page = own.page /\ x.mentions = own.mentions /\ x.created = own.created
      /\ x.counts = own.counts /\ x.noted = own.noted /\ x.inserted = own.inserted
      /\ x.found = {} /\ x.flagged = own.found
  BY <1>1 DEF Transactions, Steps
<1> HIDE DEF own, x
<1>4. Tidy(x) /\ Standing(x)
  BY <1>1, <1>2, <1>3 DEF Tidy, Standing
<1>5. Agrees(x)
  BY <1>1, <1>3, SameRows
<1>6. Looked(x)
  BY <1>1, <1>2, <1>3, SameRows DEF Looked
<1>7. \A t \in Sessions \ {s} : Disjoint(x, session[t])
  BY <1>1, <1>2, <1>3 DEF Disjoint
<1> QED
  BY <1>2, <1>4, <1>5, <1>6, <1>7, OneTransaction

LEMMA CommitKeepsInv ==
  ASSUME StoreInv, NEW s \in Sessions, Commit(s)
  PROVE  StoreInv'
<1> DEFINE own == session[s]
<1>1. /\ own \in Transactions /\ Tidy(own) /\ Standing(own) /\ Agrees(own) /\ Looked(own)
      /\ \A t \in Sessions \ {s} : Disjoint(own, session[t])
  BY SessionFacts
<1>2. /\ own.pc \in {"commit", "cut"}
      /\ \A e \in Events : event'[e] =
            IF Holds(s, e) THEN [key |-> KeyOf(s, e), count |-> own.counts[e]] ELSE event[e]
      /\ \A e \in Events : seen'[e] = After(own, e)
      /\ contested' = contested \cup own.flagged
      /\ overlooked' = IF own.pc = "cut" THEN overlooked \cup Unlooked(s) ELSE overlooked
      /\ entities' = entities \cup own.inserted
      /\ session' = [session EXCEPT ![s] = NoSession]
      /\ runs' \in 0 .. MaxRuns
  BY DEF Commit, After, StoreInv, Committed
<1>3. \A e \in Events : Settled(e)
  BY DEF StoreInv, Committed
<1>4. ASSUME NEW e \in Events, e \notin DOMAIN own.counts
      PROVE  event'[e] = event[e] /\ seen'[e] = seen[e]
  BY <1>1, <1>2, <1>3, <1>4, NotHeld DEF Holds
<1>5. ASSUME NEW e \in DOMAIN own.counts
      PROVE  /\ e \in Events /\ event'[e] \in [key : Keys, count : Nat]
             /\ event'[e] # NoEvent /\ event'[e].count = own.counts[e]
  <2>1. e \in Events /\ own.counts[e] \in Nat
    BY <1>1, Fields
  <2>2. KeyOf(s, e) \in Keys
    <3>1. CASE e \in DOMAIN own.created
      BY <1>1, <3>1, Fields DEF KeyOf, Mine
    <3>2. CASE e \notin DOMAIN own.created
      <4>1. Exists(e)
        BY <1>1, <3>2 DEF Standing
      <4>2. event[e] \in [key : Keys, count : Nat]
        BY <1>3, <2>1, <4>1 DEF Settled, Exists
      <4> QED
        BY <3>2, <4>2 DEF KeyOf, Mine
    <3> QED
      BY <3>1, <3>2
  <2>3. event'[e] = [key |-> KeyOf(s, e), count |-> own.counts[e]]
    BY <1>2, <2>1 DEF Holds
  <2>4. event'[e].key # NoEvent.key
    BY <2>2, <2>3, EventAssumption
  <2> QED
    BY <2>1, <2>2, <2>3, <2>4
<1>6. \A e \in Events : Exists(e)' <=> Exists(e) \/ e \in DOMAIN own.counts
  BY <1>4, <1>5 DEF Exists
<1>found. ASSUME NEW e \in DOMAIN own.counts, Clash(After(own, e))
       PROVE  e \in contested' \cup overlooked'
  <2>1. CASE own.pc = "commit"
    BY <1>1, <1>2, <1>found, <2>1 DEF Looked
  <2>2. CASE own.pc = "cut"
    <3>1. e \in Events /\ Settled(e)
      BY <1>3, <1>5
    <3>2. CASE own.noted[e] = Unseen
      <4>1. After(own, e) = seen[e]
        BY <1>1, <3>1, <3>2, NothingNoted
      <4> QED
        BY <1>2, <1>found, <3>1, <4>1 DEF Settled
    <3>3. CASE own.noted[e] # Unseen
      <4>1. e \in contested \cup overlooked \/ e \in Conflicting(s)
        BY <1>found, <2>2, <3>1, DetectFinds DEF Active
      <4>2. e \in contested \cup overlooked \/ e \in Unlooked(s)
        BY <3>3, <4>1 DEF Unlooked
      <4> QED
        BY <1>2, <2>2, <4>2
    <3> QED
      BY <3>2, <3>3
  <2> QED
    BY <1>2, <2>1, <2>2
<1>7. ASSUME NEW e \in Events
      PROVE  Settled(e)'
  <2>1. CASE e \in DOMAIN own.counts
    <3>1. Finite(seen'[e]) /\ Total(seen'[e]) = event'[e].count + 1
      BY <1>1, <1>2, <1>5, <2>1 DEF Agrees
    <3>2. Exists(e)' /\ event'[e] \in [key : Keys, count : Nat]
      BY <1>5, <1>6, <2>1
    <3>3. Clash(seen'[e]) => e \in contested' \cup overlooked'
      BY <1>2, <1>found, <2>1
    <3> QED
      BY <3>1, <3>2, <3>3 DEF Settled
  <2>2. CASE e \notin DOMAIN own.counts
    <3>1. event'[e] = event[e] /\ seen'[e] = seen[e] /\ (Exists(e)' <=> Exists(e))
      BY <1>4, <1>6, <2>2
    <3>2. Clash(seen[e]) => e \in contested' \cup overlooked'
      BY <1>2, <1>3 DEF Settled
    <3> QED
      BY <1>3, <3>1, <3>2 DEF Settled
  <2> QED
    BY <2>1, <2>2
<1>8. /\ contested' \cup overlooked' \subseteq {e \in Events : Exists(e)'}
      /\ entities' \subseteq Keys
  <2>1. own.flagged \subseteq Events /\ own.inserted \subseteq Keys
    BY <1>1, Fields
  <2>2. \A e \in own.flagged : Exists(e)
    BY <1>1 DEF Standing
  <2>3. \A e \in Unlooked(s) : e \in Events /\ Exists(e)
    BY ConflictingExist DEF Unlooked
  <2> QED
    BY <1>2, <1>6, <2>1, <2>2, <2>3 DEF StoreInv, Committed
<1>9. Committed'
  BY <1>2, <1>7, <1>8 DEF Committed
<1>10. /\ DOMAIN session' = Sessions /\ session'[s] = NoSession
       /\ \A t \in Sessions \ {s} : session'[t] = session[t]
  BY <1>2 DEF StoreInv
<1>11. Apart'
  BY <1>10, NoSessionIsSound DEF StoreInv, Apart
<1>12. ASSUME NEW t \in Sessions
       PROVE  /\ Tidy(session'[t]) /\ Standing(session[t])'
              /\ Agrees(session[t])' /\ Looked(session[t])'
  <2>1. CASE t = s
    <3>1. session'[t] = NoSession
      BY <1>10, <2>1
    <3>2. /\ DOMAIN session'[t].counts = {} /\ DOMAIN session'[t].created = {}
          /\ session'[t].target = {} /\ session'[t].found = {}
          /\ session'[t].flagged = {}
      BY <3>1 DEF NoSession
    <3> QED
      BY <3>1, <3>2, NoSessionIsSound DEF Standing, Agrees, Looked
  <2>2. CASE t # s
    <3> DEFINE x == session[t]
    <3>1. session'[t] = x /\ x \in Transactions /\ Disjoint(own, x)
      BY <1>1, <1>10, <2>2, SessionFacts
    <3>2. Tidy(x) /\ Standing(x) /\ Agrees(x) /\ Looked(x)
      BY SessionFacts
    <3>3. ASSUME NEW e \in DOMAIN x.counts
          PROVE  e \in Events /\ seen'[e] = seen[e] /\ (Exists(e)' <=> Exists(e))
      <4>1. e \in Events /\ e \notin DOMAIN own.counts
        BY <3>1, Fields DEF Disjoint
      <4> QED
        BY <1>4, <1>6, <4>1
    <3>4. \A e \in Events : Exists(e) => Exists(e)'
      BY <1>6
    <3>5. DOMAIN x.counts \cup x.target \cup x.found \cup x.flagged \subseteq Events
      BY <3>1, Fields
    <3> HIDE DEF x
    <3>6. Standing(session[t])'
      <4>1. \A e \in DOMAIN x.created : ~Exists(e)'
        BY <3>2, <3>3 DEF Tidy, Standing
      <4>2. \A e \in DOMAIN x.counts \cup x.target : Exists(e)' \/ e \in DOMAIN x.created
        BY <3>2, <3>4, <3>5 DEF Standing
      <4>3. \A e \in x.found \cup x.flagged : Exists(e)'
        BY <3>2, <3>4, <3>5 DEF Standing
      <4> QED
        BY <3>1, <4>1, <4>2, <4>3 DEF Standing
    <3>7. \A e \in DOMAIN x.counts : After(session[t], e)' = After(x, e)
      BY <3>1, <3>3 DEF After
    <3>8. Agrees(session[t])'
      BY <3>1, <3>2, <3>7 DEF Agrees
    <3>9. Looked(session[t])'
      BY <1>2, <3>1, <3>2, <3>7 DEF Looked
    <3> QED
      BY <3>1, <3>2, <3>6, <3>8, <3>9
  <2> QED
    BY <2>1, <2>2
<1> QED
  BY <1>9, <1>10, <1>11, <1>12 DEF StoreInv

-----------------------------------------------------------------------------
(* The invariant *)

LEMMA InitInv == StoreInit => StoreInv
<1> SUFFICES ASSUME StoreInit
             PROVE  StoreInv
  OBVIOUS
<1>1. ASSUME NEW e \in Events
      PROVE  Settled(e)
  <2>1. CASE e \in DOMAIN Prior
    <3> DEFINE by == PriorSeen[e]
    <3>1. /\ event[e] = [key |-> Prior[e], count |-> Total(by) - 1] /\ seen[e] = by
      BY <2>1 DEF StoreInit
    <3>2. /\ Prior[e] \in Keys /\ Rows(by) # {} /\ IsFiniteSet(Rows(by))
          /\ by \in [Owners -> [Directions -> Nat]]
          /\ ~Clash(by)
      BY <2>1, EventAssumption DEF Clash
    <3> HIDE DEF by
    <3>3. Total(by) \in Nat /\ Total(by) # 0
      BY <3>2, FS_CardinalityType, FS_EmptySet DEF Total
    <3>4. Total(by) - 1 \in Nat /\ Total(by) = (Total(by) - 1) + 1
      BY <3>3
    <3>5. event[e] \in [key : Keys, count : Nat] /\ event[e].count = Total(by) - 1
      BY <3>1, <3>2, <3>4
    <3>6. event[e].key # NoEvent.key
      BY <3>1, <3>2, EventAssumption
    <3>7. Exists(e)
      BY <3>6 DEF Exists
    <3> QED
      BY <3>1, <3>2, <3>4, <3>5, <3>7 DEF Settled, Finite
  <2>2. CASE e \notin DOMAIN Prior
    <3>1. event[e] = NoEvent /\ seen[e] = [p \in Owners |-> Unseen]
      BY <2>2 DEF StoreInit
    <3>2. ~Clash(seen[e])
      <4>1. \A p \in Pages : seen[e][p]["positive"] = 0
        BY <3>1 DEF Owners, Unseen, Directions
      <4> QED
        BY <4>1 DEF Clash, Opinion
    <3> QED
      BY <3>1, <3>2, NoRows DEF Settled, Exists
  <2> QED
    BY <2>1, <2>2
<1>2. entities \subseteq Keys
  BY EventAssumption DEF StoreInit
<1>3. runs \in 0 .. MaxRuns /\ contested = {} /\ overlooked = {}
  BY EventAssumption DEF StoreInit
<1>4. Committed
  BY <1>1, <1>2, <1>3 DEF Committed
<1>5. DOMAIN session = Sessions /\ \A s \in Sessions : session[s] = NoSession
  BY DEF StoreInit
<1>6. Apart
  BY <1>5, NoSessionIsSound DEF Apart
<1> QED
  BY <1>4, <1>5, <1>6, NoSessionIsSound DEF StoreInv

LEMMA StepInv == StoreInv /\ [StoreNext]_vars => StoreInv'
<1> SUFFICES ASSUME StoreInv, [StoreNext]_vars
             PROVE  StoreInv'
  OBVIOUS
<1>1. CASE UNCHANGED vars
  <2>1. UNCHANGED <<event, seen, contested, overlooked, entities, session, runs>>
    BY <1>1 DEF vars
  <2>2. /\ \A e \in Events : Settled(e) => Settled(e)'
        /\ \A s \in Sessions :
              /\ Standing(session[s]) => Standing(session[s])'
              /\ Agrees(session[s]) => Agrees(session[s])'
              /\ Looked(session[s]) => Looked(session[s])'
    BY <2>1 DEF Settled, Standing, Agrees, Looked, After, Exists
  <2> QED
    BY <2>1, <2>2 DEF StoreInv, Committed, Apart, Exists
<1>2. ASSUME NEW s \in Sessions, NEW e \in Events, MatchEvent(s, e)
      PROVE  StoreInv'
  BY <1>2, MatchEventKeepsInv
<1>3. ASSUME NEW s \in Sessions, NEW e \in Events, IncObservationCount(s, e)
      PROVE  StoreInv'
  BY <1>3, IncObservationCountKeepsInv
<1>4. ASSUME NEW s \in Sessions, CreateCanonical(s)
      PROVE  StoreInv'
  BY <1>4, CreateCanonicalKeepsInv
<1>5. ASSUME NEW s \in Sessions, CutShort(s)
      PROVE  StoreInv'
  BY <1>5, CutShortKeepsInv
<1>6. ASSUME NEW s \in Sessions, LinkEntity(s)
      PROVE  StoreInv'
  BY <1>6, LinkEntityKeepsInv
<1>7. ASSUME NEW s \in Sessions, Detect(s)
      PROVE  StoreInv'
  BY <1>7, DetectKeepsInv
<1>8. ASSUME NEW s \in Sessions, FlushLinks(s)
      PROVE  StoreInv'
  BY <1>8, FlushLinksKeepsInv
<1>9. ASSUME NEW s \in Sessions, Commit(s)
      PROVE  StoreInv'
  BY <1>9, CommitKeepsInv
<1>10. ASSUME NEW s \in Sessions, LinkExists(s) \/ DeadlockVictim(s) \/ Fails(s)
       PROVE  StoreInv'
  BY <1>10, AbortKeepsInv DEF LinkExists, DeadlockVictim, Fails
<1>11. ASSUME NEW s \in Sessions, NEW page \in Pages, Extract(s, page)
       PROVE  StoreInv'
  BY <1>11, ExtractKeepsInv
<1> QED
  BY <1>1, <1>2, <1>3, <1>4, <1>5, <1>6, <1>7, <1>8, <1>9, <1>10, <1>11
  DEF StoreNext, Advance

LEMMA InvHolds == StoreSpec => []StoreInv
  BY InitInv, StepInv, PTL DEF StoreSpec

-----------------------------------------------------------------------------
(* Theorems *)

LEMMA InvImpliesTypeOK == StoreInv => KnowledgeTypeOK
<1> SUFFICES ASSUME StoreInv
             PROVE  KnowledgeTypeOK
  OBVIOUS
<1>1. ASSUME NEW e \in Events
      PROVE  /\ event[e] = NoEvent \/ (event[e].key \in Keys /\ event[e].count \in Nat)
             /\ seen[e] \in [Owners -> [Directions -> Nat]]
  BY DEF StoreInv, Committed, Settled, Finite
<1>2. ASSUME NEW s \in Sessions
      PROVE  /\ session[s].pc \in Steps /\ session[s].page \in Owners
             /\ \A n \in DOMAIN session[s].mentions : session[s].mentions[n] \in Mention
             /\ session[s].pc = "idle" => session[s] = NoSession
             /\ \A t \in Sessions \ {s} :
                   /\ DOMAIN session[s].counts \cap DOMAIN session[t].counts = {}
                   /\ DOMAIN session[s].created \cap DOMAIN session[t].created = {}
                   /\ session[s].inserted \cap session[t].inserted = {}
                   /\ session[s].flagged \cap session[t].flagged = {}
  <2>1. session[s] \in Transactions /\ Tidy(session[s])
    BY SessionFacts
  <2>2. session[s].mentions \in Seq(Mention)
    BY <2>1, Fields
  <2>3. \A n \in DOMAIN session[s].mentions : session[s].mentions[n] \in Mention
    BY <2>2
  <2>4. /\ session[s].pc \in Steps /\ session[s].page \in Owners
        /\ session[s].pc = "idle" => session[s] = NoSession
    BY <2>1, Fields DEF Tidy
  <2>5. \A t \in Sessions \ {s} : Disjoint(session[s], session[t]) /\ Tidy(session[t])
    BY SessionFacts
  <2> QED
    BY <2>1, <2>3, <2>4, <2>5 DEF Disjoint, Tidy
<1>3. /\ contested \cup overlooked \subseteq {e \in Events : Exists(e)}
      /\ entities \subseteq Keys /\ runs \in 0 .. MaxRuns
  BY DEF StoreInv, Committed
<1> QED
  BY <1>1, <1>2, <1>3 DEF KnowledgeTypeOK

\* However many consumers write events at a time, what they have committed and
\* written is well formed, and no two of them ever hold the same row, the same new
\* event or the same key that is to be unique (event_extractor.py).
THEOREM KnowledgeIsTyped == StoreSpec => []KnowledgeTypeOK
  BY InvHolds, InvImpliesTypeOK, PTL

\* observation_count of an event is the number of the observations there are of it,
\* after the first: no increment is lost to another session's, and none outlives a
\* transaction that was rolled back (_inc_observation_count).
THEOREM EveryObservationCounts == StoreSpec => []CountsObservations
<1>1. StoreInv => CountsObservations
  BY DEF StoreInv, Committed, Settled, CountsObservations
<1> QED
  BY <1>1, InvHolds, PTL

\* Two pages that take opposite sides of an event are linked as soon as both are
\* committed, whatever the order of the statements of the sessions that wrote them,
\* unless an error that the integration swallows cut short the extraction of what
\* contradicted the rest, so that nothing looked for it (detect_contradictions,
\* wiki_integrator.py).
THEOREM NoContradictionIsMissed == StoreSpec => []ContradictionsAreFound
<1>1. StoreInv => ContradictionsAreFound
  BY DEF StoreInv, Committed, Settled, Clash, ContradictionsAreFound
<1> QED
  BY <1>1, InvHolds, PTL
===============================================================================
