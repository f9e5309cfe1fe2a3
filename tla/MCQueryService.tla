--------------------------- MODULE MCQueryService ---------------------------
(* A model-checking instance of QueryService. *)
EXTENDS QueryService

\* Every two questions are alike; the answer to one of them is kept longer.
Everything == Questions \X Questions
Times == [q \in Questions |-> IF q \in FollowUps THEN 2 ELSE 1]
\* Each kind of request meets each other one, and another scope of its own.
CONSTANTS r1, r2, q1, q2, s1, s2
Asked == [r \in Requests |->
    IF r = r1
    THEN {<<"ask", q1, s1, FALSE, "llm">>,
          <<"reflectStream", q2, s1, FALSE, "crossEncoder">>}
    ELSE {<<"stream", q2, s1, TRUE, "llm">>, <<"stream", q2, s1, FALSE, "unset">>,
          <<"reflect", q1, s2, TRUE, "llm">>}]
=============================================================================
