----------------------------- MODULE EventStore -----------------------------
(***************************************************************************)
(* Events, their observations and their contradictions: the part of an     *)
(* integration that follows the page's, _handle_event_extraction, in as    *)
(* many sessions as there are consumers.  A session sees what others have  *)
(* committed and what it has written itself; an UPDATE holds the row, and  *)
(* an INSERT the unique key, until the transaction ends.  Each action is   *)
(* one statement.                                                          *)
(***************************************************************************)
EXTENDS Mentions, Integers, Sequences, FiniteSets

CONSTANTS
    Sessions, Pages,
    Category,          \* Category[k]: the category of an event of key k
    Yields,            \* what a transcript may yield: events and names of entities
    Prior, PriorSeen,  \* the events there are at first: keys, observations
    PriorNames,        \* what names of entities there may be at first
    MaxEvents,         \* bound: ids of rows of event_canonicals
    MaxRuns            \* bound

NoPage == "none"      \* also that of an observation whose page has been deleted
Owners == Pages \cup {NoPage}
NoEvent == [key |-> "none", count |-> 0]

\* The rows of event_observations of one event, of which it has by[p][d] with
\* page p and direction d.
Rows(by) ==
    UNION {{<<p, d, n>> : n \in 1 .. by[p][d]} : p \in Owners, d \in Directions}
Total(by) == Cardinality(Rows(by))

Opposite(d) == CASE d = "positive" -> "negative" [] d = "negative" -> "positive"
                 [] OTHER -> "negative"
\* The page has one opinion of an event.
Opinion(by, p, d) == by[p][d] > 0 /\ by[p][Opposite(d)] = 0 /\ by[p]["none"] = 0

\* Each event has been observed, and no contradiction was overlooked.
ASSUME EventAssumption ==
    /\ NoEvent.key \notin Keys
    /\ Yields \subseteq Seq(Mention) \X Seq(Keys)
    /\ MaxRuns \in Nat /\ MaxEvents \in Nat
    /\ DOMAIN Prior \subseteq 1 .. MaxEvents /\ PriorNames \subseteq SUBSET Keys
    /\ PriorSeen \in [DOMAIN Prior -> [Owners -> [Directions -> Nat]]]
    /\ \A e \in DOMAIN Prior :
          /\ Prior[e] \in Keys /\ Rows(PriorSeen[e]) # {} /\ IsFiniteSet(Rows(PriorSeen[e]))
          /\ \A p, q \in Pages : ~(/\ Opinion(PriorSeen[e], p, "positive")
                                   /\ Opinion(PriorSeen[e], q, "negative"))

VARIABLES
    event,     \* event[e]: the committed row, or NoEvent
    seen,      \* seen[e][p][d]: committed observations of e from page p
    contested, \* events with a committed link "contradicts" to themselves
    overlooked,\* events of which a contradiction was committed unlooked for
    entities,  \* committed names of entities
    session,   \* session[s]: see NoSession
    runs

vars == <<event, seen, contested, overlooked, entities, session, runs>>

Events == 1 .. MaxEvents
Unseen == [d \in Directions |-> 0]

\* What a session is about to do, and what its transaction has written.
NoSession ==
    [pc |-> "idle", page |-> NoPage,
     mentions |-> <<>>, names |-> <<>>,     \* still to be stored
     target |-> {},                         \* the event whose count it will raise
     created |-> [e \in {} |-> ""],         \* new events and their keys
     counts |-> [e \in {} |-> 0],           \* rows it has updated: the new counts
     noted |-> [e \in Events |-> Unseen],   \* observations
     inserted |-> {},                       \* entities
     found |-> {}, flagged |-> {}]          \* contradictions: seen, and inserted

Steps == {"idle", "event", "count", "flush", "commit", "cut"}

Active(s) == session[s].pc # "idle"
Exists(e) == event[e] # NoEvent

KnowledgeTypeOK ==
    /\ \A e \in Events :
          /\ event[e] = NoEvent \/ (event[e].key \in Keys /\ event[e].count \in Nat)
          /\ seen[e] \in [Owners -> [Directions -> Nat]]
    /\ contested \cup overlooked \subseteq {e \in Events : Exists(e)}
    /\ entities \subseteq Keys /\ runs \in 0 .. MaxRuns
    /\ \A s \in Sessions :
          /\ session[s].pc \in Steps /\ session[s].page \in Owners
          /\ \A n \in DOMAIN session[s].mentions : session[s].mentions[n] \in Mention
          /\ session[s].pc = "idle" => session[s] = NoSession
          \* A row, and a key that is to be unique, belongs to one transaction.
          /\ \A t \in Sessions \ {s} :
                /\ DOMAIN session[s].counts \cap DOMAIN session[t].counts = {}
                /\ DOMAIN session[s].created \cap DOMAIN session[t].created = {}
                /\ session[s].inserted \cap session[t].inserted = {}
                /\ session[s].flagged \cap session[t].flagged = {}

StoreInit ==
    /\ event = [e \in Events |->
          IF e \in DOMAIN Prior THEN [key |-> Prior[e], count |-> Total(PriorSeen[e]) - 1]
          ELSE NoEvent]
    /\ seen = [e \in Events |->
          IF e \in DOMAIN Prior THEN PriorSeen[e] ELSE [p \in Owners |-> Unseen]]
    /\ contested = {} /\ overlooked = {} /\ entities \in PriorNames
    /\ session = [s \in Sessions |-> NoSession]
    /\ runs = 0

-----------------------------------------------------------------------------
(* One transaction *)

Becomes(s, record) ==
    /\ session' = [session EXCEPT ![s] = record]
    /\ UNCHANGED <<event, seen, contested, overlooked, entities, runs>>

Mine(s) == DOMAIN session[s].created
Unused == {e \in Events : ~Exists(e) /\ \A t \in Sessions : e \notin Mine(t)}

\* If too many chunks fail, the consumer retries the item.
Extract(s, page) ==
    /\ ~Active(s) /\ runs < MaxRuns /\ runs' = runs + 1
    /\ \E x \in Yields :
          session' = [session EXCEPT ![s] =
             [NoSession EXCEPT !.pc = "event", !.page = page,
                               !.mentions = x[1], !.names = x[2]]]
    /\ UNCHANGED <<event, seen, contested, overlooked, entities>>

\* A row that a transaction writes.
Write(rows, e, value) ==
    [x \in DOMAIN rows \cup {e} |-> IF x = e THEN value ELSE rows[x]]

KeyOf(s, e) == IF e \in Mine(s) THEN session[s].created[e] ELSE event[e].key

\* The next event is noted as an observation of e.
Noted(s, e) ==
    LET own == session[s]
    IN  [own EXCEPT !.pc = "event", !.target = {}, !.mentions = Tail(@),
                    !.noted[e][Head(own.mentions).direction] = @ + 1]

\* _dedup_exact_key, then _dedup_vector, which goes by the words: a row of the
\* same category, with whatever date and entity.
MatchEvent(s, e) ==
    /\ session[s].pc = "event" /\ session[s].mentions # <<>>
    /\ e \in Mine(s) \/ Exists(e)
    /\ Category[KeyOf(s, e)] = Category[Head(session[s].mentions).key]
    /\ Becomes(s, [session[s] EXCEPT !.pc = "count", !.target = {e}])

\* _create_canonical.  Either search may miss what is there: the first one reads
\* five rows of the day, the second one asks for very similar words.
CreateCanonical(s) ==
    LET e == CHOOSE id \in Unused : TRUE
    IN  /\ session[s].pc = "event" /\ session[s].mentions # <<>> /\ Unused # {}
        /\ Becomes(s, [Noted(s, e) EXCEPT
                !.created = Write(@, e, Head(session[s].mentions).key),
                !.counts = Write(@, e, 0)])

\* _inc_observation_count: UPDATE ... SET observation_count = observation_count + 1
Holds(t, e) == e \in DOMAIN session[t].counts
Counted(s, e) == IF Holds(s, e) THEN session[s].counts[e] ELSE event[e].count
IncObservationCountAtOnce(s, e) ==                                 \* a mutant
    /\ session[s].pc = "count" /\ e \in session[s].target
    /\ Becomes(s, [Noted(s, e) EXCEPT !.counts = Write(@, e, Counted(s, e) + 1)])
IncObservationCount(s, e) ==
    /\ session[s].pc = "count" /\ e \in session[s].target
    /\ \A t \in Sessions \ {s} : ~Holds(t, e)
    /\ Becomes(s, [Noted(s, e) EXCEPT !.counts = Write(@, e, Counted(s, e) + 1)])

Linking(s) == session[s].pc = "event" /\ session[s].mentions = <<>>

\* _link_entities_to_event and _store_entity_relations: INSERT ... ON CONFLICT DO
\* NOTHING waits for a transaction that has inserted the same key.
LinkEntity(s) ==
    LET name == Head(session[s].names)
    IN  /\ Linking(s) /\ session[s].names # <<>>
        /\ \A t \in Sessions \ {s} : name \notin session[t].inserted
        /\ Becomes(s, [session[s] EXCEPT !.names = Tail(@),
                !.inserted = IF name \in entities THEN @ ELSE @ \cup {name}])

\* detect_contradictions: for each event with an observation of this page and an
\* opposite one of another, if one of ours, whichever the query returns, has an
\* opposite among the others'.
Ours(s, e) ==
    {d \in Directions : seen[e][session[s].page][d] + session[s].noted[e][d] > 0}
Theirs(s, e) == {d \in Directions : \E p \in Pages \ {session[s].page} : seen[e][p][d] > 0}
Conflicting(s) ==
    {e \in Events : \E d \in Ours(s, e) \ {"none"} : Opposite(d) \in Theirs(s, e)}
Detect(s) ==
    /\ Linking(s) /\ session[s].names = <<>>
    /\ \E ours \in [Conflicting(s) -> Directions] :
          /\ \A e \in Conflicting(s) : ours[e] \in Ours(s, e)
          /\ LET found == {e \in Conflicting(s) \ contested :
                              Opposite(ours[e]) \in Theirs(s, e)}
             IN  Becomes(s, [session[s] EXCEPT
                    !.pc = IF found = {} THEN "commit" ELSE "flush", !.found = found])

\* The flush of the new links, whose key is unique.
FlushLinks(s) ==
    LET found == session[s].found
    IN  /\ session[s].pc = "flush" /\ found \cap contested = {}
        /\ \A t \in Sessions \ {s} : found \cap session[t].flagged = {}
        /\ Becomes(s, [session[s] EXCEPT !.pc = "commit", !.found = {}, !.flagged = found])

\* An error in Python, or of a value that the driver cannot encode: an event or an
\* entity that is no such thing, a confidence in words.  No statement failed, and
\* the integration, for which the error is "non-fatal", goes on to its end, but
\* what is left of the extraction, the search for contradictions too, never runs.
CutShort(s) ==
    /\ session[s].pc = "event"
    /\ Becomes(s, [session[s] EXCEPT !.pc = "cut", !.mentions = <<>>, !.names = <<>>])

\* What the search would have looked at, of the events the transaction reports.
Unlooked(s) == {e \in Conflicting(s) : session[s].noted[e] # Unseen}

\* The end of process_wiki_job commits everything.
Commit(s) ==
    LET own == session[s]
    IN  /\ own.pc \in {"commit", "cut"}
        /\ event' = [e \in Events |->
              IF Holds(s, e) THEN [key |-> KeyOf(s, e), count |-> own.counts[e]] ELSE event[e]]
        /\ seen' = [e \in Events |-> [seen[e] EXCEPT ![own.page] =
              [d \in Directions |-> @[d] + own.noted[e][d]]]]
        /\ contested' = contested \cup own.flagged
        /\ overlooked' = IF own.pc = "cut" THEN overlooked \cup Unlooked(s) ELSE overlooked
        /\ entities' = entities \cup own.inserted
        /\ session' = [session EXCEPT ![s] = NoSession]
        /\ UNCHANGED runs

Abort(s) == Becomes(s, NoSession)

\* A row that another session has inserted meanwhile.
LinkExists(s) ==
    /\ session[s].pc = "flush" /\ session[s].found \cap contested # {}
    /\ Abort(s)

\* Two sessions that wait for one another: PostgreSQL ends one of them.  The
\* retry of _inc_observation_count fails, for its transaction is lost.
WaitsFor(s, t) ==
    \/ session[s].pc = "count" /\ \E e \in session[s].target : Holds(t, e)
    \/ /\ Linking(s) /\ session[s].names # <<>>
       /\ Head(session[s].names) \in session[t].inserted
    \/ session[s].pc = "flush" /\ session[s].found \cap session[t].flagged # {}
NoVictim(s) == FALSE                                               \* a mutant
DeadlockVictim(s) ==
    /\ \E t \in Sessions \ {s} : WaitsFor(s, t) /\ WaitsFor(t, s)
    /\ Abort(s)

\* Any other error of the database, or of a flush, which ends the transaction as
\* well, or a crash.
Fails(s) == Active(s) /\ Abort(s)

-----------------------------------------------------------------------------

Advance(s) ==
    \/ \E e \in Events : MatchEvent(s, e) \/ IncObservationCount(s, e)
    \/ CreateCanonical(s) \/ LinkEntity(s)
    \/ Detect(s) \/ FlushLinks(s) \/ Commit(s) \/ LinkExists(s) \/ DeadlockVictim(s)

StoreNext ==
    \E s \in Sessions :
        Advance(s) \/ CutShort(s) \/ Fails(s) \/ \E page \in Pages : Extract(s, page)

StoreSpec == StoreInit /\ [][StoreNext]_vars

\* A session goes on: each statement is answered, or waits for a lock.
FairStoreSpec == StoreSpec /\ \A s \in Sessions : WF_vars(Advance(s))

-----------------------------------------------------------------------------
(* Properties *)

\* "Increment observation_count atomically": an event that was created with its
\* first observation counts each one that follows, in whatever session, and
\* none that was rolled back.
CountsObservations == \A e \in Events : Exists(e) => Total(seen[e]) = event[e].count + 1

\* "Detect contradictory viewpoints on the same event": once both are
\* committed, a page that reports an event as good and another one that reports
\* it as bad are linked, although neither session saw the other's observation
\* when it began.  It is the row lock of the count, which the second one waits
\* for, that makes it see the first one's.  There are two exceptions.  Of a page
\* that says both, the one observation that is looked at may be the wrong one.
\* And an integration that contradicts what is committed, and whose extraction
\* was cut short by an error, commits its observations without having looked.
ContradictionsAreFound ==
    \A e \in Events : \A p, q \in Pages :
        Opinion(seen[e], p, "positive") /\ Opinion(seen[e], q, "negative") =>
            e \in contested \cup overlooked

\* No integration waits for ever, though sessions update events and insert
\* entities in the order of their transcripts.
EveryIntegrationEnds == \A s \in Sessions : Active(s) ~> ~Active(s)
=============================================================================
