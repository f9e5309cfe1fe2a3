----------------------------- MODULE FactMerger -----------------------------
(***************************************************************************)
(* What the chunks of a long transcript yield, and how it becomes one list *)
(* of events: _run_chunked_extraction and merge_chunk_facts, for the parts *)
(* of the facts that the event store goes by.                              *)
(***************************************************************************)
EXTENDS Mentions, Integers, Sequences, FiniteSets, SequencesExt

CONSTANTS
    ChunkFacts,    \* what one chunk may yield: a set of sequences of Mention
    Chunks         \* how many chunks a transcript has

ASSUME FactAssumption == ChunkFacts \subseteq Seq(Mention) /\ Chunks \in Nat \ {0}

\* "If more than half the chunks fail, the whole pass raises"; otherwise those
\* that failed twice are skipped.
TooManyFail(failures, chunks) == 2 * Cardinality(failures) > chunks

\* The events of the chunks that did not fail, in their order.
Reported(facts, failures) ==
    FlattenSeq([n \in DOMAIN facts |-> IF n \in failures THEN <<>> ELSE facts[n]])

\* The longer description takes its own fields with it: those that only the
\* shorter one had are lost, though an empty direction is filled in.
Merged(primary, other) ==
    LET richer == IF other.length > primary.length THEN other ELSE primary
    IN  [richer EXCEPT !.direction = IF @ = "none" THEN other.direction ELSE @]

\* Events of one key: one, if their descriptions are alike.
Reduced(group, alike) ==
    IF alike THEN <<FoldLeft(Merged, Head(group), Tail(group))>>
    ELSE Tail(group) \o <<Head(group)>>

\* The keys of the events, in the order in which they first occur.
KeysOf(events) ==
    LET Key(event) == event.key
    IN  FoldLeft(LAMBDA keys, event : IF Key(event) \in {keys[n] : n \in DOMAIN keys}
                                      THEN keys ELSE Append(keys, Key(event)),
                 <<>>, events)

DedupEvents(events, alike) ==
    LET keys == KeysOf(events)
        group(key) == SelectSeq(events, LAMBDA event : event.key = key)
    IN  FlattenSeq([n \in DOMAIN keys |-> Reduced(group(keys[n]), alike)])

\* What the extraction of a transcript may come to, chunk by chunk, or at once
\* for a short one: events to be stored, and names of entities.  An event of which
\* the embedding fails is left out; if none is stored, no entity is linked.
Transcripts ==
    {Reported(outcomes, failures) : outcomes \in [1 .. Chunks -> ChunkFacts],
        failures \in {f \in SUBSET (1 .. Chunks) : ~TooManyFail(f, Chunks)}} \ {<<>>}
Embedded(events, kept) ==
    LET positions == SetToSortSeq(kept, <) IN [n \in DOMAIN positions |-> events[positions[n]]]
Extractions ==
    UNION {LET events == DedupEvents(facts, alike)
           IN  {<<Embedded(events, kept), IF kept = {} THEN <<>> ELSE KeysOf(facts)>> :
                    kept \in SUBSET DOMAIN events} :
           facts \in Transcripts, alike \in BOOLEAN}
=============================================================================
