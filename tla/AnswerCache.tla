---------------------------- MODULE AnswerCache ----------------------------
(***************************************************************************)
(* The cache of answers in Redis: RedisCacheAdapter, and the keys and      *)
(* times that the query pipelines give it.  An answer is stored twice,     *)
(* under its exact key and as a hash with the question's vector; a look-up *)
(* by vector reads every hash.  The hash and its time to live are set by   *)
(* two commands.                                                           *)
(***************************************************************************)
EXTENDS Integers

CONSTANTS
    Questions,   \* normalised questions; also the vectors they embed to
    Scopes,      \* values of source_id, null included
    Near,        \* pairs of vectors at least as close as the threshold
    Ttl,         \* Ttl[q]: 1h or 24h, in units of Tick
    None

ASSUME CacheAssumption ==
    /\ Questions # {} /\ Scopes # {}
    /\ Near \subseteq Questions \X Questions
    /\ \A q \in Questions : <<q, q>> \in Near
    /\ Ttl \in [Questions -> Nat \ {0}]
    /\ None \notin Questions

VARIABLES
    exact,      \* exact[k]: the string at key k
    semantic    \* semantic[k]: the hash at "sem:" and k

cacheVars == <<exact, semantic>>

\* SHA256 of the normalised question, and ":src-" with the source.
KeyWithoutScope(question, scope) ==                                \* a mutant
    <<question, CHOOSE s \in Scopes : TRUE>>
KeyOf(question, scope) == <<question, scope>>
Keys == Questions \X Scopes

\* What an answer was computed for, and how it came about: by the LLM, or as
\* one of the two fixed texts of the pipelines, "no information found" and
\* "no answer could be generated, please try again".
Kinds == {"generated", "notFound", "apology"}
Answer == [of : Questions, scope : Scopes, kind : Kinds]

\* left: ticks until Redis removes the entry, 0 if there is none.
Forever == -1
Left == {Forever} \cup Nat
Nothing == [answer |-> None, left |-> 0]
NoHash == [vector |-> None, answer |-> None, left |-> 0]

CacheTypeOK ==
    /\ exact \in [Keys -> [answer : Answer \cup {None}, left : Nat]]
    /\ semantic \in [Keys -> [vector : Questions \cup {None},
                              answer : Answer \cup {None}, left : Left]]
    /\ \A k \in Keys :
          /\ exact[k].left # 0 => exact[k].answer \in Answer
          /\ semantic[k].left # 0 => semantic[k].answer \in Answer

CacheInit ==
    /\ exact = [k \in Keys |-> Nothing]
    /\ semantic = [k \in Keys |-> NoHash]

-----------------------------------------------------------------------------
(* Commands *)

\* get
Has(k) == exact[k].left # 0

\* set: SETEX
Set(k, answer) ==
    /\ exact' = [exact EXCEPT ![k] = [answer |-> answer, left |-> Ttl[k[1]]]]
    /\ UNCHANGED semantic

\* semantic_get: of the hashes that are close enough a closest one.  An equal
\* vector has similarity 1.
Close(v) == {k \in Keys : semantic[k].left # 0 /\ <<v, semantic[k].vector>> \in Near}
Closest(v) ==
    LET same == {k \in Close(v) : semantic[k].vector = v}
    IN  IF same # {} THEN same ELSE Close(v)

\* semantic_set, first command: HSET keeps the time to live of a hash that is
\* there, and makes one without if none is.
HashSet(k, v, answer) ==
    /\ semantic' = [semantic EXCEPT ![k] =
            [vector |-> v, answer |-> answer,
             left |-> IF @.left = 0 THEN Forever ELSE @.left]]
    /\ UNCHANGED exact

\* Second command: EXPIRE does nothing if there is no such hash.
ExpireWithoutTtl(k) == UNCHANGED cacheVars                         \* a mutant
Expire(k) ==
    /\ semantic' = [semantic EXCEPT ![k].left = IF @ = 0 THEN 0 ELSE Ttl[k[1]]]
    /\ UNCHANGED exact

\* Time passes for every entry.
Older(entry, empty) ==
    IF entry.left > 1 THEN [entry EXCEPT !.left = @ - 1]
    ELSE IF entry.left = 1 THEN empty ELSE entry
Tick ==
    /\ exact' = [k \in Keys |-> Older(exact[k], Nothing)]
    /\ semantic' = [k \in Keys |-> Older(semantic[k], NoHash)]
=============================================================================
