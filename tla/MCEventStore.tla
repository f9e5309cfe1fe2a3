---------------------------- MODULE MCEventStore ----------------------------
(* Facts for model checking: two events, good news and bad news. *)
EXTENDS EventStore, FactMerger

CONSTANTS k1, k2, p1, p2
Known == <<k1, k2>>

\* The page of the first event's observation has been rolled back.  Of the second
\* event, p2 has said one thing and p1 both; the contradiction was overlooked.
Counts(positive, negative, none) ==
    ("positive" :> positive) @@ ("negative" :> negative) @@ ("none" :> none)
KnownSeen ==
    <<(NoPage :> Counts(0, 0, 1)) @@ (p1 :> Unseen) @@ (p2 :> Unseen),
      (NoPage :> Unseen) @@ (p1 :> Counts(1, 1, 0)) @@ (p2 :> Counts(1, 0, 0))>>

\* All of it is news of one kind: words may tell more than the date.
OneCategory == (k1 :> "market") @@ (k2 :> "market")

\* No entity is known at first.
KnownNames == {{}}

\* Good news and bad news, which go by the same key, if the words differ enough
\* for them to be two events.
Facts ==
    {<<[key |-> k1, direction |-> "positive", length |-> 1]>>,
     <<[key |-> k1, direction |-> "negative", length |-> 2]>>}
=============================================================================
