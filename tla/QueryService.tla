---------------------------- MODULE QueryService ----------------------------
(***************************************************************************)
(* Questions to the wiki.  A request runs one of two pipelines, the plain  *)
(* one (QueryPipeline) or the reflective one (SelfReflectiveRAGPipeline),  *)
(* and is answered at once or as a stream of events that ends with         *)
(* "complete".  Requests of all four kinds share the cache and nothing     *)
(* else.  Each action is one call of a service or one command to Redis.    *)
(***************************************************************************)
EXTENDS AnswerCache, FiniteSets

CONSTANTS
    Requests,     \* requests, each of which is made once
    Inputs,       \* Inputs[r]: what request r may be
    FollowUps,    \* questions that mean something only after a history
    MaxAttempts,  \* _MAX_ATTEMPTS
    MaxFaults     \* bound: failed calls and broken connections

Modes == {"ask", "stream", "reflect", "reflectStream"}

\* How the process that gets a request is set up: CROSS_ENCODER_ENABLED off or on.
\* If it is on, the route reads a setting that config.py does not define ("unset");
\* "crossEncoder" is a process that has it.
Rerankers == {"llm", "unset", "crossEncoder"}

ASSUME QueryAssumption ==
    /\ Inputs \in [Requests -> SUBSET (Modes \X Questions \X Scopes \X BOOLEAN
                                             \X Rerankers)]
    /\ FollowUps \subseteq Questions
    /\ MaxAttempts \in Nat \ {0} /\ MaxFaults \in Nat

VARIABLES req, faults

vars == <<exact, semantic, req, faults>>

Steps == {"idle", "lookup", "analyze", "embed", "semantic", "retrieve",
          "generate", "evaluate", "set", "hset", "expire", "reply", "ended"}
Outcomes == {"none", "hit", "answer", "rejected", "error", "gone", "refused"}
\* "other": whatever else the evaluator suggests; it is searched for as "default".
Strategies == {"default", "hyde", "decompose", "expand", "other"}

\* pc: the next call.  unfit: its range has a from_date and no to_date, or a date
\* without a time zone.  meant: the question after rewriting.  vector: its embedding.
\* context: whether retrieval found anything; fresh: not what the attempt before found.
\* completes: "complete" events sent.  broken: the services that failed it.
Request ==
    [pc : Steps, mode : Modes, asked : Questions, scope : Scopes,
     unfit : BOOLEAN, reranker : Rerankers,
     meant : Questions, vector : Questions \cup {None},
     attempt : 0 .. MaxAttempts, strategy : Strategies,
     context : BOOLEAN, fresh : BOOLEAN, answer : Answer \cup {None},
     outcome : Outcomes, completes : Nat,
     broken : SUBSET {"cache", "analyzer", "embedder", "llm", "evaluator", "reranker"}]

NewRequest(mode, q, s, unfit, reranker) ==
    [pc |-> "lookup", mode |-> mode, asked |-> q, scope |-> s, unfit |-> unfit,
     reranker |-> reranker, meant |-> q, vector |-> None, attempt |-> 0,
     strategy |-> "default", context |-> FALSE, fresh |-> FALSE,
     answer |-> None, outcome |-> "none", completes |-> 0, broken |-> {}]

Streams(x) == x.mode \in {"stream", "reflectStream"}
Reflects(x) == x.mode \in {"reflect", "reflectStream"}
Key(x) == KeyOf(x.asked, x.scope)

QueryTypeOK ==
    /\ CacheTypeOK
    /\ req \in [Requests -> Request]
    /\ faults \in 0 .. MaxFaults
    /\ \A r \in Requests :
          req[r].pc \in {"evaluate", "set", "hset", "expire", "reply"}
              => req[r].answer \in Answer

QueryInit ==
    /\ CacheInit
    /\ req \in [Requests ->
          {[NewRequest("ask", CHOOSE q \in Questions : TRUE,
                       CHOOSE s \in Scopes : TRUE, FALSE, "llm") EXCEPT !.pc = "idle"]}]
    /\ faults = 0

-----------------------------------------------------------------------------
(* Steps and ends of a request *)

Become(r, x) == req' = [req EXCEPT ![r] = x]
Works(r, x) == Become(r, x) /\ UNCHANGED faults
Fails(r, service, x) ==
    /\ faults < MaxFaults /\ faults' = faults + 1
    /\ Become(r, [x EXCEPT !.broken = @ \cup {service}])

At(r, step) == [req[r] EXCEPT !.pc = step]

\* The variables of a coroutine end with it.
Over(x) ==
    [NewRequest(x.mode, x.asked, x.scope, x.unfit, x.reranker) EXCEPT
        !.pc = "ended", !.outcome = x.outcome, !.completes = x.completes,
        !.broken = IF x.outcome = "error" THEN x.broken ELSE {}]

\* The response, or the last event of a stream.
Sent(x) == IF Streams(x) THEN x.completes + 1 ELSE x.completes
Ended(r, outcome) ==
    Over([req[r] EXCEPT !.outcome = outcome, !.completes = Sent(req[r])])

\* An exception leaves the pipeline.  A stream ends with a complete event all
\* the same, of which the answer is the error.
FailedSilently(r) == Over([req[r] EXCEPT !.outcome = "error"])     \* a mutant
Failed(r) == Ended(r, "error")

\* The route: the configuration selects the pipeline, the URL the kind.  Building
\* the pipeline raises if the setting is missing; then no stream begins either.
Refused(x) == Over([x EXCEPT !.outcome = "refused"])
Ask(r, mode, q, s, unfit, reranker) ==
    LET x == NewRequest(mode, q, s, unfit, reranker)
    IN  /\ req[r].pc = "idle"
        /\ Works(r, IF reranker = "unset" THEN Refused(x) ELSE x)
        /\ UNCHANGED cacheVars

\* A client that leaves ends its stream at whatever call it is; the process
\* may die.  No handler catches the cancellation.
Cut(r) ==
    /\ req[r].pc \notin {"idle", "ended"}
    /\ faults < MaxFaults /\ faults' = faults + 1
    /\ Become(r, Over([req[r] EXCEPT !.outcome = "gone"]))
    /\ UNCHANGED cacheVars

-----------------------------------------------------------------------------
(* Before retrieval *)

\* _try_exact_cache.  A broken cache is a miss (RedisCacheAdapter.get).
Hit(r) == Ended(r, "hit")
TryExactCache(r) ==
    LET k == Key(req[r])
    IN  /\ req[r].pc = "lookup"
        /\ \/ Has(k) /\ Works(r, Hit(r))
           \/ ~Has(k) /\ Works(r, At(r, "analyze"))
           \/ Fails(r, "cache", At(r, "analyze"))
        /\ UNCHANGED cacheVars

\* rewrite: what the history makes of the question; its failures give the
\* question itself.  Only the plain pipeline asks for it.
Rewritten(x) ==
    IF ~Reflects(x) /\ x.asked \in FollowUps THEN Questions ELSE {x.asked}

\* analyze: a question outside the domain is denied.  A failure allows it.
Allowed(r, question) == [At(r, "embed") EXCEPT !.meant = question]
Denied(r) == Ended(r, "rejected")
\* execute_stream of the reflective pipeline goes on without an embedding.
DeniedOnly(r) == At(r, "semantic")

AnalyzeOr(r, reject) ==
    /\ req[r].pc = "analyze"
    /\ \/ \E question \in Rewritten(req[r]) : Works(r, Allowed(r, question))
       \/ Works(r, reject)
       \/ \E question \in Rewritten(req[r]) : Fails(r, "analyzer", Allowed(r, question))
    /\ UNCHANGED cacheVars
AnalyzeFailing(r, reject) ==                                       \* a mutant
    /\ req[r].pc = "analyze"
    /\ \/ \E question \in Rewritten(req[r]) : Works(r, Allowed(r, question))
       \/ Works(r, reject)
       \/ Fails(r, "analyzer", Failed(r))
    /\ UNCHANGED cacheVars
Analyze(r, reject) == AnalyzeOr(r, reject)

\* embed
Embed(r, failure) ==
    /\ req[r].pc = "embed"
    /\ \/ Works(r, [At(r, "semantic") EXCEPT !.vector = req[r].meant])
       \/ Fails(r, "embedder", failure)
    /\ UNCHANGED cacheVars

\* _try_semantic_cache: any scope will do.
TrySemanticCache(r) ==
    LET v == req[r].vector
    IN  /\ req[r].pc = "semantic"
        /\ \/ v # None /\ Closest(v) # {} /\ Works(r, Hit(r))
           \/ (v = None \/ Closest(v) = {}) /\ Works(r, At(r, "retrieve"))
           \/ v # None /\ Fails(r, "cache", At(r, "retrieve"))
        /\ UNCHANGED cacheVars

-----------------------------------------------------------------------------
(* Retrieval and answer, plain *)

\* The streams that fail count as empty.  fresh: not the context of the
\* attempt before, which was not empty.
FoundUncounted(r, found, fresh) ==                                 \* a mutant
    [At(r, "generate") EXCEPT !.context = found, !.fresh = fresh]
Found(r, found, fresh) ==
    [At(r, "generate") EXCEPT !.context = found, !.fresh = fresh, !.attempt = @ + 1]
Search(r) ==
    \E found \in BOOLEAN, fresh \in BOOLEAN :
        /\ fresh \/ (found /\ req[r].attempt > 0)
        /\ Works(r, Found(r, found, fresh))

\* _enforce_time_boundary compares the date of a result, which has a time zone,
\* with the two ends of the range: with an unfit one that raises, if a result has a
\* date.
EnforceTimeBoundary(r) == req[r].unfit /\ Works(r, Failed(r))
RetrieveAndMerge(r) ==
    /\ req[r].pc = "retrieve"
    /\ Search(r) \/ EnforceTimeBoundary(r)
    /\ UNCHANGED cacheVars

Answered(r, kind, step) ==
    [At(r, step) EXCEPT
        !.answer = [of |-> req[r].meant, scope |-> req[r].scope, kind |-> kind]]

\* chat_completion_reasoning: without a context, too.
Synthesize(r) ==
    /\ req[r].pc = "generate"
    /\ \/ Works(r, Answered(r, "generated", "set"))
       \/ Fails(r, "llm", Failed(r))
    /\ UNCHANGED cacheVars

\* chat_completion_stream raises, or yields tokens, or yields none and a call
\* without streaming follows, a failure of which is answered with a text.
SynthesizeStream(r) ==
    /\ Synthesize(r) \/ /\ req[r].pc = "generate"
                        /\ Fails(r, "llm", Answered(r, "apology", "set"))
                        /\ UNCHANGED cacheVars

-----------------------------------------------------------------------------
(* Storing the answer *)

\* The key is that of the question as asked.  Whatever fails, the request goes
\* on.
SaveExact(r, end) ==
    LET next == IF req[r].vector = None THEN end ELSE At(r, "hset")
    IN  /\ req[r].pc = "set"
        /\ \/ Set(Key(req[r]), req[r].answer) /\ Works(r, next)
           \/ Fails(r, "cache", next) /\ UNCHANGED cacheVars

SaveHash(r, end) ==
    /\ req[r].pc = "hset"
    /\ \/ /\ HashSet(Key(req[r]), req[r].vector, req[r].answer)
          /\ Works(r, At(r, "expire"))
       \/ Fails(r, "cache", end) /\ UNCHANGED cacheVars

SaveTtl(r, end) ==
    /\ req[r].pc = "expire"
    /\ \/ Expire(Key(req[r])) /\ Works(r, end)
       \/ Fails(r, "cache", end) /\ UNCHANGED cacheVars

-----------------------------------------------------------------------------
(* The reflection loop *)

\* The reranking of what was found fails to the order it was given, but leaves
\* nothing if it scores nothing.  Only the loading of the cross-encoder is in no
\* try; each request has an adapter of its own, which loads it when it first has
\* more than five results, whichever attempt that is.
LoadModelFails(r) ==
    /\ req[r].reranker = "crossEncoder"
    /\ Fails(r, "reranker", Failed(r))
SearchAndRerank(r) == Search(r) \/ LoadModelFails(r)

\* The four streams of a search.  Without an embedding none is started.
DefaultRetrieval(r) ==
    \/ req[r].vector # None /\ (SearchAndRerank(r) \/ EnforceTimeBoundary(r))
    \/ req[r].vector = None /\ Works(r, Found(r, FALSE, TRUE))

\* The embedding of an invented answer; nothing catches its failure.
HydeRetrieval(r) ==
    SearchAndRerank(r) \/ EnforceTimeBoundary(r) \/ Fails(r, "embedder", Failed(r))

\* A search for each part of the question; what fails is left out.  If it has
\* no parts, the default.
DecomposeRetrieval(r) == SearchAndRerank(r) \/ DefaultRetrieval(r)

\* Other words for the keyword searches.
ExpandRetrieval(r) == DefaultRetrieval(r)

\* _retrieve_with_strategy, and the reranking.
RetrieveWithStrategy(r) ==
    /\ req[r].pc = "retrieve"
    /\ CASE req[r].strategy = "hyde" -> HydeRetrieval(r)
         [] req[r].strategy = "decompose" -> DecomposeRetrieval(r)
         [] req[r].strategy = "expand" -> ExpandRetrieval(r)
         [] OTHER -> DefaultRetrieval(r)
    /\ UNCHANGED cacheVars

\* _generate, and its counterpart in the stream's first attempt: no context
\* gives a fixed text, two failures another one.
Generate(r) ==
    LET x == req[r]
    IN  /\ x.pc = "generate"
        /\ \/ ~x.context /\ Works(r, Answered(r, "notFound", "evaluate"))
           \/ x.context /\ Works(r, Answered(r, "generated", "evaluate"))
           \/ x.context /\ Fails(r, "llm", Answered(r, "apology", "evaluate"))
        /\ UNCHANGED cacheVars

\* _next_strategy
NextStrategy == [s \in Strategies |->
    CASE s = "default" -> "hyde"
      [] s = "hyde" -> "decompose"
      [] s = "decompose" -> "expand"
      [] OTHER -> "default"]

\* What the evaluator suggests; never the same again.
Suggestion == Strategies \cup {"refine_query"}
Picked(x, suggestion) ==
    IF suggestion \in {"refine_query", x.strategy}
    THEN NextStrategy[x.strategy] ELSE suggestion

\* The embedding of a refined question takes the place of the question's,
\* unless it fails.
Refined(x, suggestion) ==
    IF suggestion = "refine_query" THEN {x.vector} \cup Questions ELSE {x.vector}

\* "Only send a new answer if it actually changed".
Replaces(x) == x.attempt > 1 \/ x.strategy # "default"

\* After the loop nothing is read but the answer and the vector.
AfterLoop(x, step) == [x EXCEPT !.pc = step, !.strategy = "default",
                           !.context = FALSE, !.fresh = FALSE]

\* Attempts left, or not: then the answer is the last one.
AgainForEver(r, suggestion, vector, done) ==                       \* a mutant
    [req[r] EXCEPT !.strategy = Picked(req[r], suggestion), !.vector = vector,
                   !.pc = "retrieve"]
Again(r, suggestion, vector, done) ==
    LET x == [req[r] EXCEPT !.strategy = Picked(req[r], suggestion), !.vector = vector]
    IN  IF x.attempt < MaxAttempts THEN [x EXCEPT !.pc = "retrieve"]
        ELSE AfterLoop(x, IF Streams(x) /\ ~Replaces(x) THEN "set" ELSE done)

\* _evaluate, and what follows.  Without a context, or if the evaluator fails,
\* the loop stops.  The evaluation of an unchanged context, which was not to
\* stop, is used again, except in one of the first sure attempts.
Evaluate(r, done, sure) ==
    LET x == req[r]
        asked == x.fresh \/ x.attempt <= sure
    IN  /\ x.pc = "evaluate"
        /\ \/ asked /\ Works(r, AfterLoop(x, done))
           \/ asked /\ x.context /\ Fails(r, "evaluator", AfterLoop(x, done))
           \/ /\ x.context
              /\ \E suggestion \in Suggestion :
                    \E vector \in Refined(x, suggestion) :
                        Works(r, Again(r, suggestion, vector, done))
        /\ UNCHANGED cacheVars

\* _build_stream_complete; the answer is stored after it.
SendComplete(r) ==
    /\ req[r].pc = "reply"
    /\ Works(r, [At(r, "set") EXCEPT !.outcome = "answer", !.completes = @ + 1])
    /\ UNCHANGED cacheVars

-----------------------------------------------------------------------------
(* The four kinds of request *)

Save(r, end) == SaveExact(r, end) \/ SaveHash(r, end) \/ SaveTtl(r, end)

\* QueryPipeline.execute, to the semantic cache and from there.
AskBefore(r) ==
    TryExactCache(r) \/ Analyze(r, Denied(r)) \/ Embed(r, Failed(r)) \/ TrySemanticCache(r)
AskAfter(r) == RetrieveAndMerge(r) \/ Synthesize(r) \/ Save(r, Ended(r, "answer"))

\* QueryPipeline.execute_stream.
StreamBefore(r) ==
    TryExactCache(r) \/ Analyze(r, Denied(r)) \/ Embed(r, Failed(r)) \/ TrySemanticCache(r)
StreamAfter(r) ==
    RetrieveAndMerge(r) \/ SynthesizeStream(r) \/ Save(r, Ended(r, "answer"))

\* SelfReflectiveRAGPipeline.execute.  _pre_process suppresses what fails.
PreProcess(r, reject) == Analyze(r, reject) \/ Embed(r, At(r, "semantic"))
ReflectBefore(r) == TryExactCache(r) \/ PreProcess(r, Denied(r)) \/ TrySemanticCache(r)
ReflectAttempt(r) == RetrieveWithStrategy(r) \/ Generate(r) \/ Evaluate(r, "set", 1)
ReflectAfter(r) == Save(r, Ended(r, "answer"))

\* SelfReflectiveRAGPipeline.execute_stream.
StreamReflectBefore(r) ==
    TryExactCache(r) \/ PreProcess(r, DeniedOnly(r)) \/ TrySemanticCache(r)
StreamReflectAttempt(r) == RetrieveWithStrategy(r) \/ Generate(r) \/ Evaluate(r, "reply", 2)
StreamReflectAfter(r) ==
    SendComplete(r) \/ Save(r, Over(req[r]))

Advance(r) ==
    \/ req[r].mode = "ask" /\ (AskBefore(r) \/ AskAfter(r))
    \/ req[r].mode = "stream" /\ (StreamBefore(r) \/ StreamAfter(r))
    \/ /\ req[r].mode = "reflect"
       /\ ReflectBefore(r) \/ ReflectAttempt(r) \/ ReflectAfter(r)
    \/ /\ req[r].mode = "reflectStream"
       /\ StreamReflectBefore(r) \/ StreamReflectAttempt(r) \/ StreamReflectAfter(r)

Pass == (exact # [k \in Keys |-> Nothing] \/ semantic # [k \in Keys |-> NoHash])
            /\ Tick /\ UNCHANGED <<req, faults>>

QueryNext ==
    \/ \E r \in Requests : Advance(r) \/ Cut(r)
    \/ \E r \in Requests : \E input \in Inputs[r] :
          Ask(r, input[1], input[2], input[3], input[4], input[5])
    \/ Pass

QuerySpec == QueryInit /\ [][QueryNext]_vars

\* A request is a coroutine each of whose calls has a timeout.
FairQuerySpec == QuerySpec /\ \A r \in Requests : WF_vars(Advance(r))

-----------------------------------------------------------------------------
(* Properties *)

\* "Always yield a 'complete' event so the frontend stops the loading
\* indicator" (execute_stream): whatever fails and in whichever order the
\* answer is stored and sent, a stream that begins has one complete event at its
\* end, and never a second one, unless it is cut.
OneComplete ==
    \A r \in Requests : Streams(req[r]) =>
        /\ req[r].completes <= 1
        /\ req[r].pc = "ended" /\ req[r].outcome \notin {"gone", "refused"}
              => req[r].completes = 1

\* "queries scoped to different sources never share a cache entry"
\* (_cache_key): whatever was stored at an exact key was computed for a
\* question and a scope that have this key.  (What a follow-up means depends on a
\* history, which is not in the key.)
ExactEntriesFit ==
    \A q \in Questions, s \in Scopes :
        LET entry == exact[KeyOf(q, s)]
        IN  entry.left # 0 => /\ entry.answer.scope = s
                              /\ q \notin FollowUps => entry.answer.of = q

\* "Cache failures degrade gracefully" (README), "analysis is a quality
\* improvement, not a hard dependency" (the analyzer), "Evaluation failure ->
\* stop": an error is the embedder's or the LLM's, that of a range without an end
\* or a time zone, or that of a cross-encoder that has no setting or no model.
DegradesGracefully ==
    \A r \in Requests : req[r].outcome \in {"error", "refused"} =>
        \/ req[r].unfit
        \/ req[r].broken \cap {"embedder", "llm"} # {}
        \/ req[r].reranker = "unset"
        \/ req[r].reranker = "crossEncoder" /\ "reranker" \in req[r].broken

\* A hash without a time to live is about to be given one, or its writer was
\* cut or failed between the two commands.  Two writers of one key, with
\* the hash expiring between their commands, leave none.
NoHashLastsForEver ==
    \A k \in Keys : semantic[k].left = Forever =>
        \/ \E r \in Requests : req[r].pc = "expire" /\ Key(req[r]) = k
        \/ faults > 0

\* Every request comes to its end: the reflection loop has a budget.
EveryRequestEnds == \A r \in Requests : req[r].pc = "lookup" ~> req[r].pc = "ended"
=============================================================================
