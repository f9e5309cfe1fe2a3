------------------------- MODULE QueryServiceProofs -------------------------
(***************************************************************************)
(* The safety properties of QueryService and of its cache, for any         *)
(* requests, questions and scopes, any budget of attempts and any number   *)
(* of failures.                                                            *)
(*                                                                         *)
(* Requests meet in the cache only.  What is true of one request (Sound)   *)
(* is therefore kept by its own steps, and the cache by the three commands *)
(* that write it.                                                          *)
(***************************************************************************)
EXTENDS QueryService, TLAPS

-----------------------------------------------------------------------------
(* One request *)

\* Attempts are counted before their answers, and the first one is made with
\* the default strategy.
Staged(x) ==
    /\ x.pc \in {"idle", "lookup", "analyze", "embed", "semantic"} =>
          x.attempt = 0 /\ x.strategy = "default"
    /\ x.pc = "retrieve" =>
          x.attempt < MaxAttempts /\ (x.attempt = 0 => x.strategy = "default")
    /\ x.pc \in {"generate", "evaluate"} =>
          x.attempt > 0 /\ (x.attempt = 1 => x.strategy = "default")

\* The answer is one to what was asked, unless the history made something else
\* of it, in the scope that was asked for.
Answering(x) ==
    /\ x.asked \notin FollowUps => x.meant = x.asked
    /\ x.pc \in {"evaluate", "set", "hset", "expire", "reply"} =>
          /\ x.answer \in Answer /\ x.answer.scope = x.scope
          /\ x.asked \notin FollowUps => x.answer.of = x.asked

\* The reflective stream sends its answer before it stores it.
SentBefore(x) == x.mode = "reflectStream" /\ x.pc \in {"set", "hset", "expire"}
Sending(x) ==
    /\ x.completes <= 1
    /\ x.pc = "ended" /\ Streams(x) /\ x.outcome \notin {"gone", "refused"}
          => x.completes = 1
    /\ x.pc # "ended" /\ SentBefore(x) => x.completes = 1 /\ x.outcome = "answer"
    /\ x.pc # "ended" /\ ~SentBefore(x) => x.completes = 0 /\ x.outcome = "none"

\* What may fail a request: its range, the embedder, the LLM, and the cross-encoder.
Excused(x) ==
    \/ x.unfit
    \/ x.broken \cap {"embedder", "llm"} # {}
    \/ x.reranker = "crossEncoder" /\ "reranker" \in x.broken
Failing(x) ==
    /\ x.outcome = "error" => Excused(x)
    /\ x.outcome = "refused" => x.reranker = "unset"

Sound(x) == x \in Request /\ Staged(x) /\ Answering(x) /\ Sending(x) /\ Failing(x)

Services == {"cache", "analyzer", "embedder", "llm", "evaluator", "reranker"}

\* r goes on as a sound request.
GoesOn(r) == \E x : Sound(x) /\ Become(r, x)

LEMMA BrokenSound ==
  ASSUME NEW x, Sound(x), NEW service \in Services
  PROVE  Sound([x EXCEPT !.broken = @ \cup {service}])
<1> DEFINE y == [x EXCEPT !.broken = @ \cup {service}]
<1>1. y \in Request
  BY DEF Sound, Request, Services
<1>2. /\ y.pc = x.pc /\ y.attempt = x.attempt /\ y.strategy = x.strategy
      /\ y.asked = x.asked /\ y.meant = x.meant /\ y.answer = x.answer
      /\ y.scope = x.scope /\ y.mode = x.mode /\ y.completes = x.completes
      /\ y.outcome = x.outcome /\ y.unfit = x.unfit /\ y.reranker = x.reranker
      /\ y.broken = x.broken \cup {service}
  BY DEF Sound, Request
<1>3. Excused(x) => Excused(y)
  BY <1>2 DEF Excused
<1> HIDE DEF y
<1> QED
  BY <1>1, <1>2, <1>3
  DEF Sound, Staged, Answering, SentBefore, Sending, Failing, Streams, y

LEMMA NewTyped ==
  ASSUME QueryAssumption, NEW mode \in Modes, NEW q \in Questions, NEW s \in Scopes,
         NEW unfit \in BOOLEAN, NEW reranker \in Rerankers
  PROVE  NewRequest(mode, q, s, unfit, reranker) \in Request
BY DEF QueryAssumption, NewRequest, Request, Steps, Outcomes, Strategies, Modes

LEMMA NewSound ==
  ASSUME QueryAssumption, NEW mode \in Modes, NEW q \in Questions, NEW s \in Scopes,
         NEW unfit \in BOOLEAN, NEW reranker \in Rerankers
  PROVE  Sound(NewRequest(mode, q, s, unfit, reranker))
BY NewTyped
DEF Sound, NewRequest, Staged, Answering, SentBefore, Sending, Failing, Streams,
    QueryAssumption

LEMMA EndTyped ==
  ASSUME NEW x \in Request, NEW outcome \in Outcomes, NEW completes \in Nat
  PROVE  [x EXCEPT !.outcome = outcome, !.completes = completes] \in Request
BY DEF Request

\* The end of a request, whatever it was about.
LEMMA OverSound ==
  ASSUME QueryAssumption, NEW x \in Request, x.completes <= 1,
         Streams(x) /\ x.outcome \notin {"gone", "refused"} => x.completes = 1,
         Failing(x),
         x.asked \notin FollowUps => x.meant = x.asked
  PROVE  Sound(Over(x))
<1> DEFINE y == Over(x)
<1>1. y \in Request
  <2> DEFINE n == NewRequest(x.mode, x.asked, x.scope, x.unfit, x.reranker)
             broken == IF x.outcome = "error" THEN x.broken ELSE {}
  <2>1. n \in Request
    BY NewTyped DEF Request
  <2>2. /\ x.outcome \in Outcomes /\ x.completes \in Nat
        /\ broken \in SUBSET Services
    BY DEF Request, Services
  <2> HIDE DEF n, broken
  <2>3. [n EXCEPT !.pc = "ended", !.outcome = x.outcome, !.completes = x.completes,
                  !.broken = broken] \in Request
    BY <2>1, <2>2 DEF Request, Steps, Services
  <2> QED
    BY <2>3 DEF Over, n, broken
<1>2. /\ y.pc = "ended" /\ y.asked = x.asked /\ y.meant = x.asked
      /\ y.mode = x.mode /\ y.completes = x.completes /\ y.outcome = x.outcome
      /\ y.unfit = x.unfit /\ y.reranker = x.reranker
      /\ x.outcome = "error" => y.broken = x.broken
  BY DEF Over, NewRequest, Request
<1>3. Failing(y)
  BY <1>2 DEF Failing, Excused
<1> HIDE DEF y
<1> QED
  BY <1>1, <1>2, <1>3 DEF Sound, Staged, Answering, SentBefore, Sending, Streams, Modes, y

LEMMA WorksOn ==
  ASSUME NEW r, NEW x, Sound(x), Works(r, x)
  PROVE  GoesOn(r)
BY DEF Works, GoesOn

LEMMA FailsOn ==
  ASSUME NEW r, NEW x, Sound(x), NEW service \in Services, Fails(r, service, x)
  PROVE  GoesOn(r)
<1>1. Sound([x EXCEPT !.broken = @ \cup {service}])
  BY BrokenSound
<1> QED
  BY <1>1 DEF Fails, GoesOn

-----------------------------------------------------------------------------
(* Ends *)

LEMMA EndedSound ==
  ASSUME QueryAssumption, NEW r \in Requests, Sound(req[r]),
         req[r].pc # "ended", ~SentBefore(req[r]),
         NEW outcome \in {"hit", "answer", "rejected"}
  PROVE  Sound(Ended(r, outcome))
<1> DEFINE x == [req[r] EXCEPT !.outcome = outcome, !.completes = Sent(req[r])]
<1>1. req[r] \in Request /\ req[r].completes = 0
  BY DEF Sound, Sending
<1>2. Sent(req[r]) \in {0, 1} /\ (Streams(req[r]) => Sent(req[r]) = 1)
  BY <1>1 DEF Sent
<1>3. x \in Request
  <2>1. outcome \in Outcomes /\ Sent(req[r]) \in Nat
    BY <1>2 DEF Outcomes
  <2> QED
    BY <1>1, <2>1, EndTyped
<1>4. /\ x.mode = req[r].mode /\ x.completes = Sent(req[r]) /\ x.outcome = outcome
      /\ x.asked = req[r].asked /\ x.meant = req[r].meant
  BY <1>1 DEF Request
<1> HIDE DEF x
<1>5. Sound(Over(x))
  BY <1>2, <1>3, <1>4, OverSound DEF Streams, Sound, Answering, Failing
<1> QED
  BY <1>5 DEF Ended, x

LEMMA FailedSound ==
  ASSUME QueryAssumption, NEW r \in Requests, Sound(req[r]),
         req[r].pc # "ended", ~SentBefore(req[r])
  PROVE  /\ req[r].unfit => Sound(Failed(r))
         /\ \A service \in {"embedder", "llm"} :
               Sound([Failed(r) EXCEPT !.broken = @ \cup {service}])
         /\ req[r].reranker = "crossEncoder"
               => Sound([Failed(r) EXCEPT !.broken = @ \cup {"reranker"}])
<1> DEFINE x == [req[r] EXCEPT !.outcome = "error", !.completes = Sent(req[r])]
<1>1. req[r] \in Request /\ req[r].completes = 0
  BY DEF Sound, Sending
<1>2. Sent(req[r]) \in {0, 1} /\ (Streams(req[r]) => Sent(req[r]) = 1)
  BY <1>1 DEF Sent
<1>3. x \in Request
  <2>1. "error" \in Outcomes /\ Sent(req[r]) \in Nat
    BY <1>2 DEF Outcomes
  <2> QED
    BY <1>1, <2>1, EndTyped
<1>4. /\ x.mode = req[r].mode /\ x.completes = Sent(req[r]) /\ x.outcome = "error"
      /\ x.asked = req[r].asked /\ x.meant = req[r].meant /\ x.unfit = req[r].unfit
      /\ x.reranker = req[r].reranker /\ x.broken = req[r].broken
  BY <1>1 DEF Request
<1>5. req[r].asked \notin FollowUps => req[r].meant = req[r].asked
  BY DEF Sound, Answering
<1> HIDE DEF x
<1>6. Failed(r) = Over(x)
  BY DEF Failed, Ended, x
<1>7. ASSUME req[r].unfit
      PROVE  Sound(Failed(r))
  <2>1. Failing(x)
    BY <1>4, <1>7 DEF Failing, Excused
  <2>2. Sound(Over(x))
    BY <1>2, <1>3, <1>4, <1>5, <2>1, OverSound DEF Streams
  <2> QED
    BY <1>6, <2>2
<1>8. ASSUME NEW service \in {"embedder", "llm", "reranker"},
             service = "reranker" => req[r].reranker = "crossEncoder"
      PROVE  Sound([Failed(r) EXCEPT !.broken = @ \cup {service}])
  <2> DEFINE y == [x EXCEPT !.broken = @ \cup {service}]
  <2>1. y \in Request
    BY <1>3 DEF Request
  <2>2. /\ y.mode = x.mode /\ y.completes = x.completes /\ y.outcome = x.outcome
        /\ y.asked = x.asked /\ y.meant = x.meant /\ y.unfit = x.unfit
        /\ y.reranker = x.reranker /\ y.scope = x.scope /\ service \in y.broken
    BY <1>3 DEF Request
  <2> HIDE DEF y
  <2>6. Failing(y)
    BY <1>4, <1>8, <2>2 DEF Failing, Excused
  <2>3. Sound(Over(y))
    BY <1>2, <1>4, <1>5, <2>1, <2>2, <2>6, OverSound DEF Streams
  <2>4. y.broken = x.broken \cup {service} /\ Over(x).broken = x.broken
    BY <1>3, <1>4 DEF y, Request, Over, NewRequest
  <2>5. [Over(x) EXCEPT !.broken = @ \cup {service}] = Over(y)
    <3> DEFINE new == NewRequest(x.mode, x.asked, x.scope, x.unfit, x.reranker)
    <3>1. /\ Over(x) = [new EXCEPT !.pc = "ended", !.outcome = "error",
                                   !.completes = x.completes, !.broken = x.broken]
          /\ Over(y) = [new EXCEPT !.pc = "ended", !.outcome = "error",
                                   !.completes = x.completes, !.broken = y.broken]
      BY <1>4, <2>2 DEF Over
    <3>2. DOMAIN new = {"pc", "mode", "asked", "scope", "unfit", "reranker", "meant",
                        "vector", "attempt", "strategy", "context", "fresh", "answer", "outcome",
                        "completes", "broken"}
      BY DEF NewRequest
    <3> HIDE DEF new
    <3> QED
      BY <2>4, <3>1, <3>2
  <2> QED
    BY <1>6, <2>3, <2>5
<1> QED
  BY <1>7, <1>8

\* A client that leaves.
LEMMA CutSound ==
  ASSUME QueryAssumption, NEW r \in Requests, Sound(req[r]), Cut(r)
  PROVE  GoesOn(r)
<1> DEFINE x == [req[r] EXCEPT !.outcome = "gone"]
<1>1. x \in Request
  BY DEF Sound, Request, Outcomes
<1>2. x.completes = req[r].completes /\ x.outcome = "gone"
      /\ x.asked = req[r].asked /\ x.meant = req[r].meant
  BY DEF Sound, Request
<1> HIDE DEF x
<1>3. Sound(Over(x))
  BY <1>1, <1>2, OverSound DEF Sound, Sending, Answering, Failing
<1> QED
  BY <1>3 DEF Cut, GoesOn, x

-----------------------------------------------------------------------------
(* Before retrieval *)

Early == {"lookup", "analyze", "embed", "semantic"}

LEMMA EarlySound ==
  ASSUME QueryAssumption, NEW x, Sound(x), x.pc \in Early,
         NEW step \in Early \cup {"retrieve"}
  PROVE  Sound([x EXCEPT !.pc = step])
<1> DEFINE y == [x EXCEPT !.pc = step]
<1>1. y \in Request
  BY DEF Sound, Request, Steps, Early
<1>2. /\ y.pc = step /\ y.attempt = x.attempt /\ y.strategy = x.strategy
      /\ y.asked = x.asked /\ y.meant = x.meant /\ y.mode = x.mode
      /\ y.completes = x.completes /\ y.outcome = x.outcome
  BY DEF Sound, Request
<1> HIDE DEF y
<1> QED
  BY <1>1, <1>2
  DEF Sound, Staged, Answering, SentBefore, Sending, Failing, Early, QueryAssumption, y

LEMMA MeantSound ==
  ASSUME NEW x, Sound(x), x.pc \in Early, NEW question \in Rewritten(x)
  PROVE  Sound([x EXCEPT !.meant = question])
<1> DEFINE y == [x EXCEPT !.meant = question]
<1>1. question \in Questions /\ (x.asked \notin FollowUps => question = x.asked)
  BY DEF Rewritten, Sound, Request
<1>2. y \in Request
  BY <1>1 DEF Sound, Request
<1>3. /\ y.pc = x.pc /\ y.attempt = x.attempt /\ y.strategy = x.strategy
      /\ y.asked = x.asked /\ y.meant = question /\ y.mode = x.mode
      /\ y.completes = x.completes /\ y.outcome = x.outcome
  BY DEF Sound, Request
<1> HIDE DEF y
<1> QED
  BY <1>1, <1>2, <1>3
  DEF Sound, Staged, Answering, SentBefore, Sending, Failing, Early, y

LEMMA VectorSound ==
  ASSUME NEW x, Sound(x), NEW v \in Questions \cup {None}
  PROVE  Sound([x EXCEPT !.vector = v])
<1> DEFINE y == [x EXCEPT !.vector = v]
<1>1. y \in Request
  BY DEF Sound, Request
<1>2. /\ y.pc = x.pc /\ y.attempt = x.attempt /\ y.strategy = x.strategy
      /\ y.asked = x.asked /\ y.meant = x.meant /\ y.mode = x.mode
      /\ y.completes = x.completes /\ y.outcome = x.outcome /\ y.unfit = x.unfit
      /\ y.reranker = x.reranker /\ y.broken = x.broken /\ y.answer = x.answer
      /\ y.scope = x.scope
  BY DEF Sound, Request
<1> HIDE DEF y
<1>3. Failing(y)
  BY <1>2 DEF Sound, Failing, Excused
<1> QED
  BY <1>1, <1>2, <1>3 DEF Sound, Staged, Answering, SentBefore, Sending, Streams, y

LEMMA AtEarly ==
  ASSUME QueryAssumption, NEW r \in Requests, Sound(req[r]), req[r].pc \in Early,
         NEW step \in Early \cup {"retrieve"}
  PROVE  /\ Sound(At(r, step))
         /\ req[r].pc # "ended" /\ ~SentBefore(req[r])
BY EarlySound DEF At, Early, SentBefore

LEMMA TryExactCacheSound ==
  ASSUME QueryAssumption, NEW r \in Requests, Sound(req[r]), TryExactCache(r)
  PROVE  GoesOn(r)
<1>1. req[r].pc \in Early
  BY DEF TryExactCache, Early
<1>2. Sound(Hit(r)) /\ Sound(At(r, "analyze"))
  BY <1>1, AtEarly, EndedSound DEF Hit, Early
<1> QED
  BY <1>2, WorksOn, FailsOn DEF TryExactCache, Services

LEMMA AnalyzeSound ==
  ASSUME QueryAssumption, NEW r \in Requests, Sound(req[r]), 
         NEW reject \in {Denied(r), DeniedOnly(r)}, Analyze(r, reject)
  PROVE  GoesOn(r)
<1>1. req[r].pc \in Early
  BY DEF Analyze, AnalyzeOr, Early
<1>2. Sound(Denied(r)) /\ Sound(DeniedOnly(r))
  BY <1>1, AtEarly, EndedSound DEF Denied, DeniedOnly, Early
<1>3. ASSUME NEW question \in Rewritten(req[r])
      PROVE  Sound(Allowed(r, question))
  <2>1. Sound([req[r] EXCEPT !.meant = question])
    BY <1>1, MeantSound
  <2>2. [req[r] EXCEPT !.meant = question].pc \in Early
    BY <1>1 DEF Sound, Request
  <2>3. Sound([[req[r] EXCEPT !.meant = question] EXCEPT !.pc = "embed"])
    BY <2>1, <2>2, EarlySound DEF Early
  <2>4. [At(r, "embed") EXCEPT !.meant = question]
          = [[req[r] EXCEPT !.meant = question] EXCEPT !.pc = "embed"]
    BY DEF At, Sound, Request
  <2> QED
    BY <2>3, <2>4 DEF Allowed
<1> QED
  BY <1>2, <1>3, WorksOn, FailsOn DEF Analyze, AnalyzeOr, Services

LEMMA EmbedSound ==
  ASSUME QueryAssumption, NEW r \in Requests, Sound(req[r]), 
         Embed(r, Failed(r)) \/ Embed(r, At(r, "semantic"))
  PROVE  GoesOn(r)
<1>1. req[r].pc \in Early
  BY DEF Embed, Early
<1>2. Sound(At(r, "semantic"))
  BY <1>1, AtEarly DEF Early
<1>3. Sound([At(r, "semantic") EXCEPT !.vector = req[r].meant])
  BY <1>2, VectorSound DEF Sound, Request
<1>4. Sound([Failed(r) EXCEPT !.broken = @ \cup {"embedder"}])
  BY <1>1, FailedSound DEF Early, SentBefore
<1> QED
  BY <1>2, <1>3, <1>4, WorksOn, FailsOn DEF Embed, Services, Fails, GoesOn

LEMMA TrySemanticCacheSound ==
  ASSUME QueryAssumption, NEW r \in Requests, Sound(req[r]), TrySemanticCache(r)
  PROVE  GoesOn(r)
<1>1. req[r].pc \in Early
  BY DEF TrySemanticCache, Early
<1>2. Sound(Hit(r)) /\ Sound(At(r, "retrieve"))
  BY <1>1, AtEarly, EndedSound DEF Hit, Early
<1> QED
  BY <1>2, WorksOn, FailsOn DEF TrySemanticCache, Services

-----------------------------------------------------------------------------
(* Retrieval and answer *)

LEMMA FoundSound ==
  ASSUME QueryAssumption, NEW r \in Requests, Sound(req[r]), req[r].pc = "retrieve",
         NEW found \in BOOLEAN, NEW fresh \in BOOLEAN
  PROVE  Sound(Found(r, found, fresh))
<1> DEFINE x == req[r]
           y == Found(r, found, fresh)
<1>1. x \in Request /\ x.attempt \in Nat /\ x.attempt < MaxAttempts /\ MaxAttempts \in Nat
  BY DEF Sound, Staged, Request, QueryAssumption
<1>2. y = [x EXCEPT !.pc = "generate", !.context = found, !.fresh = fresh,
                    !.attempt = x.attempt + 1]
  BY <1>1 DEF Found, At, Request
<1>3. x.attempt + 1 \in 0 .. MaxAttempts
  BY <1>1
<1> HIDE DEF x, y
<1>4. "generate" \in Steps
  BY DEF Steps
<1>5. y \in Request
  BY <1>1, <1>2, <1>3, <1>4 DEF Request
<1>6. /\ y.pc = "generate" /\ y.attempt = x.attempt + 1 /\ y.strategy = x.strategy
      /\ y.asked = x.asked /\ y.meant = x.meant /\ y.mode = x.mode
      /\ y.completes = x.completes /\ y.outcome = x.outcome
  BY <1>1, <1>2 DEF Request
<1>7. Staged(y)
  BY <1>1, <1>6 DEF Sound, Staged, x
<1>8. Answering(y) /\ Sending(y) /\ Failing(y)
  BY <1>1, <1>6 DEF Sound, Answering, SentBefore, Sending, Failing, x
<1> QED
  BY <1>5, <1>7, <1>8 DEF Sound, y

LEMMA SearchSound ==
  ASSUME QueryAssumption, NEW r \in Requests, Sound(req[r]), req[r].pc = "retrieve",
         \/ SearchAndRerank(r) \/ EnforceTimeBoundary(r)
         \/ DefaultRetrieval(r) \/ HydeRetrieval(r)
  PROVE  GoesOn(r)
<1>1. \A found, fresh \in BOOLEAN : Sound(Found(r, found, fresh))
  BY FoundSound
<1>2. CASE Search(r)
  BY <1>1, <1>2, WorksOn DEF Search
<1>3. req[r].pc # "ended" /\ ~SentBefore(req[r])
  BY DEF SentBefore
<1>4. CASE EnforceTimeBoundary(r)
  <2>1. Sound(Failed(r))
    BY <1>3, <1>4, FailedSound DEF EnforceTimeBoundary
  <2> QED
    BY <1>4, <2>1, WorksOn DEF EnforceTimeBoundary
<1>5. CASE Works(r, Found(r, FALSE, TRUE))
  BY <1>1, <1>5, WorksOn
<1>6. CASE Fails(r, "embedder", Failed(r))
  BY <1>3, <1>6, FailedSound DEF Fails, GoesOn
<1>7. CASE LoadModelFails(r)
  BY <1>3, <1>7, FailedSound DEF LoadModelFails, Fails, GoesOn
<1> QED
  BY <1>2, <1>4, <1>5, <1>6, <1>7 DEF SearchAndRerank, DefaultRetrieval, HydeRetrieval

LEMMA RetrievalSound ==
  ASSUME QueryAssumption, NEW r \in Requests, Sound(req[r]),
         RetrieveAndMerge(r) \/ RetrieveWithStrategy(r)
  PROVE  GoesOn(r)
<1>1. req[r].pc = "retrieve"
  BY DEF RetrieveAndMerge, RetrieveWithStrategy
<1>2. \/ SearchAndRerank(r) \/ EnforceTimeBoundary(r)
      \/ DefaultRetrieval(r) \/ HydeRetrieval(r)
  BY DEF RetrieveAndMerge, RetrieveWithStrategy, SearchAndRerank, DecomposeRetrieval,
         ExpandRetrieval
<1> QED
  BY <1>1, <1>2, SearchSound

LEMMA AnsweredSound ==
  ASSUME NEW r \in Requests, Sound(req[r]), req[r].pc = "generate", NEW kind \in Kinds,
         NEW step \in {"set", "evaluate"},
         step = "set" => req[r].mode # "reflectStream"
  PROVE  Sound(Answered(r, kind, step))
<1> DEFINE x == req[r]
           y == Answered(r, kind, step)
           answer == [of |-> x.meant, scope |-> x.scope, kind |-> kind]
<1>1. x \in Request
  BY DEF Sound
<1>2. /\ answer \in Answer /\ answer.scope = x.scope
      /\ x.asked \notin FollowUps => answer.of = x.asked
  BY <1>1 DEF Answer, Request, Sound, Answering
<1> HIDE DEF answer
<1>3. y = [x EXCEPT !.pc = step, !.answer = answer]
  BY <1>1 DEF Answered, At, Request, answer
<1>4. y \in Request
  <2>1. step \in Steps
    BY DEF Steps
  <2> HIDE DEF x, y
  <2> QED
    BY <1>1, <1>2, <1>3, <2>1 DEF Request
<1>5. /\ y.pc = step /\ y.attempt = x.attempt /\ y.strategy = x.strategy
      /\ y.asked = x.asked /\ y.meant = x.meant /\ y.mode = x.mode
      /\ y.completes = x.completes /\ y.outcome = x.outcome
      /\ y.answer = answer /\ y.scope = x.scope
  BY <1>1, <1>3 DEF Request
<1> HIDE DEF y
<1>6. Staged(y) /\ Answering(y)
  BY <1>2, <1>5 DEF Sound, Staged, Answering
<1>7. Sending(y) /\ Failing(y)
  BY <1>1, <1>5 DEF Sound, SentBefore, Sending, Failing
<1> QED
  BY <1>4, <1>6, <1>7 DEF Sound, y

LEMMA SynthesizeSound ==
  ASSUME QueryAssumption, NEW r \in Requests, Sound(req[r]),
         SynthesizeStream(r), req[r].mode # "reflectStream"
  PROVE  GoesOn(r)
<1>1. req[r].pc = "generate"
  BY DEF SynthesizeStream, Synthesize
<1>2. Sound(Answered(r, "generated", "set")) /\ Sound(Answered(r, "apology", "set"))
  BY <1>1, AnsweredSound DEF Kinds
<1>3. Sound([Failed(r) EXCEPT !.broken = @ \cup {"llm"}])
  BY <1>1, FailedSound DEF SentBefore
<1> QED
  BY <1>2, <1>3, WorksOn, FailsOn
  DEF SynthesizeStream, Synthesize, Services, Fails, GoesOn

LEMMA GenerateSound ==
  ASSUME QueryAssumption, NEW r \in Requests, Sound(req[r]), Generate(r)
  PROVE  GoesOn(r)
<1>1. req[r].pc = "generate"
  BY DEF Generate
<1>2. \A kind \in Kinds : Sound(Answered(r, kind, "evaluate"))
  BY <1>1, AnsweredSound
<1> QED
  BY <1>2, WorksOn, FailsOn DEF Generate, Services, Kinds

-----------------------------------------------------------------------------
(* The end of the reflection loop *)

LEMMA PickedStrategy ==
  ASSUME NEW x, x.strategy \in Strategies, NEW suggestion \in Suggestion
  PROVE  /\ Picked(x, suggestion) \in Strategies
         /\ x.strategy = "default" => Picked(x, suggestion) # "default"
BY DEF Picked, Strategies, Suggestion, NextStrategy

LEMMA AfterLoopSound ==
  ASSUME QueryAssumption, NEW x, Sound(x), x.pc = "evaluate", NEW step \in {"set", "reply"},
         step = "set" => x.mode # "reflectStream"
  PROVE  Sound(AfterLoop(x, step))
<1> DEFINE y == AfterLoop(x, step)
<1>1. x \in Request
  BY DEF Sound
<1>2. y \in Request
  BY <1>1 DEF AfterLoop, Request, Steps, Strategies
<1>3. /\ y.pc = step /\ y.asked = x.asked /\ y.meant = x.meant /\ y.mode = x.mode
      /\ y.completes = x.completes /\ y.outcome = x.outcome
      /\ y.answer = x.answer /\ y.scope = x.scope
  BY <1>1 DEF AfterLoop, Request
<1> HIDE DEF y
<1>4. Staged(y) /\ Answering(y)
  BY <1>3 DEF Sound, Staged, Answering
<1>5. Sending(y) /\ Failing(y)
  BY <1>1, <1>3 DEF Sound, SentBefore, Sending, Failing
<1> QED
  BY <1>2, <1>4, <1>5 DEF Sound, y

\* Another attempt, or none: an answer that is not the first one, or not by the
\* default strategy, replaces the one before.
LEMMA AgainSound ==
  ASSUME QueryAssumption, NEW r \in Requests, Sound(req[r]), req[r].pc = "evaluate",
         NEW suggestion \in Suggestion, NEW vector \in Questions \cup {None},
         NEW done \in {"set", "reply"}, done = "set" => req[r].mode # "reflectStream"
  PROVE  Sound(Again(r, suggestion, vector, done))
<1> DEFINE strategy == Picked(req[r], suggestion)
           x == [req[r] EXCEPT !.strategy = strategy, !.vector = vector]
<1>1. req[r] \in Request /\ req[r].attempt \in Nat /\ req[r].strategy \in Strategies
  BY DEF Sound, Request
<1>2. strategy \in Strategies /\ (req[r].strategy = "default" => strategy # "default")
  BY <1>1, PickedStrategy
<1>3. req[r].attempt > 0 /\ (req[r].attempt = 1 => req[r].strategy = "default")
  BY DEF Sound, Staged
<1> HIDE DEF strategy
<1>4. x \in Request
  BY <1>1, <1>2 DEF Request
<1>5. /\ x.attempt = req[r].attempt /\ x.strategy = strategy
      /\ x.asked = req[r].asked /\ x.meant = req[r].meant /\ x.mode = req[r].mode
      /\ x.completes = req[r].completes /\ x.outcome = req[r].outcome
      /\ x.pc = req[r].pc
  BY <1>1 DEF Request
<1>6. Replaces(x)
  BY <1>1, <1>2, <1>3, <1>5 DEF Replaces
<1>7. Again(r, suggestion, vector, done) =
        IF x.attempt < MaxAttempts THEN [x EXCEPT !.pc = "retrieve"]
        ELSE AfterLoop(x, done)
  BY <1>6 DEF Again, strategy
<1>8. CASE x.attempt < MaxAttempts
  <2> DEFINE y == [x EXCEPT !.pc = "retrieve"]
  <2>1. y \in Request
    BY <1>4 DEF Request, Steps
  <2>2. /\ y.pc = "retrieve" /\ y.attempt = x.attempt
        /\ y.asked = x.asked /\ y.meant = x.meant /\ y.mode = x.mode
        /\ y.completes = x.completes /\ y.outcome = x.outcome
    BY <1>4 DEF Request
  <2> HIDE DEF x, y
  <2>3. Staged(y) /\ Answering(y)
    BY <1>1, <1>3, <1>5, <1>8, <2>2 DEF Sound, Staged, Answering
  <2>4. Sending(y) /\ Failing(y)
    BY <1>1, <1>5, <2>2 DEF Sound, SentBefore, Sending, Failing
  <2> QED
    BY <1>7, <1>8, <2>1, <2>3, <2>4 DEF Sound, y
<1>9. CASE ~(x.attempt < MaxAttempts)
  <2>1. Sound(AfterLoop(req[r], done))
    BY AfterLoopSound
  <2>2. Sound([AfterLoop(req[r], done) EXCEPT !.vector = vector])
    BY <2>1, VectorSound
  <2>3. [AfterLoop(req[r], done) EXCEPT !.vector = vector] = AfterLoop(x, done)
    BY <1>1 DEF AfterLoop, Request
  <2> QED
    BY <1>7, <1>9, <2>2, <2>3
<1> QED
  BY <1>8, <1>9

LEMMA EvaluateSound ==
  ASSUME QueryAssumption, NEW r \in Requests, Sound(req[r]),
         NEW done \in {"set", "reply"}, done = "set" => req[r].mode # "reflectStream",
         NEW sure, Evaluate(r, done, sure)
  PROVE  GoesOn(r)
<1>1. req[r].pc = "evaluate" /\ req[r].vector \in Questions \cup {None}
  BY DEF Evaluate, Sound, Request
<1>2. Sound(AfterLoop(req[r], done))
  BY <1>1, AfterLoopSound
<1>3. ASSUME NEW suggestion \in Suggestion, NEW vector \in Refined(req[r], suggestion)
      PROVE  Sound(Again(r, suggestion, vector, done))
  BY <1>1, AgainSound DEF Refined
<1> QED
  BY <1>2, <1>3, WorksOn, FailsOn DEF Evaluate, Services

LEMMA SendCompleteSound ==
  ASSUME NEW r \in Requests, Sound(req[r]), SendComplete(r),
         req[r].mode = "reflectStream"
  PROVE  GoesOn(r)
<1> DEFINE x == req[r]
           y == [At(r, "set") EXCEPT !.outcome = "answer", !.completes = @ + 1]
<1>1. x \in Request /\ x.pc = "reply" /\ x.completes = 0
  BY DEF SendComplete, Sound, Sending, SentBefore
<1>2. At(r, "set") = [x EXCEPT !.pc = "set"] /\ At(r, "set").completes + 1 = 1
  BY <1>1 DEF At, Request
<1>3. y \in Request
  <2>1. At(r, "set") \in Request
    BY <1>1, <1>2 DEF Request, Steps
  <2> QED
    BY <1>2, <2>1, EndTyped DEF Outcomes
<1>4. /\ y.pc = "set" /\ y.asked = x.asked /\ y.meant = x.meant /\ y.mode = x.mode
      /\ y.completes = 1 /\ y.outcome = "answer" /\ y.answer = x.answer
      /\ y.scope = x.scope
  BY <1>1, <1>2 DEF Request
<1> HIDE DEF y
<1>5. Staged(y) /\ Answering(y)
  BY <1>1, <1>4 DEF Sound, Staged, Answering
<1>6. Sending(y) /\ Failing(y)
  BY <1>4 DEF SentBefore, Sending, Failing
<1>7. Sound(y)
  BY <1>3, <1>5, <1>6 DEF Sound
<1> QED
  BY <1>7, WorksOn DEF SendComplete, y

-----------------------------------------------------------------------------
(* Storing the answer *)

Saving == {"set", "hset", "expire"}

\* How a request ends after it has stored its answer.
EndOf(r) == IF req[r].mode = "reflectStream" THEN Over(req[r]) ELSE Ended(r, "answer")

LEMMA EndOfSound ==
  ASSUME QueryAssumption, NEW r \in Requests, Sound(req[r]), req[r].pc \in Saving
  PROVE  Sound(EndOf(r))
<1>1. CASE req[r].mode = "reflectStream"
  <2>1. SentBefore(req[r]) /\ req[r].pc # "ended"
    BY <1>1 DEF SentBefore, Saving
  <2>2. Sound(Over(req[r]))
    BY <2>1, OverSound DEF Sound, Sending, Answering
  <2> QED
    BY <1>1, <2>2 DEF EndOf
<1>2. CASE req[r].mode # "reflectStream"
  <2>1. req[r].pc # "ended" /\ ~SentBefore(req[r])
    BY <1>2 DEF SentBefore, Saving
  <2> QED
    BY <1>2, <2>1, EndedSound DEF EndOf
<1> QED
  BY <1>1, <1>2

LEMMA SavingSound ==
  ASSUME NEW x, Sound(x), x.pc \in Saving, NEW step \in Saving
  PROVE  Sound([x EXCEPT !.pc = step])
<1> DEFINE y == [x EXCEPT !.pc = step]
<1>1. y \in Request
  BY DEF Sound, Request, Steps, Saving
<1>2. /\ y.pc = step /\ y.asked = x.asked /\ y.meant = x.meant /\ y.mode = x.mode
      /\ y.completes = x.completes /\ y.outcome = x.outcome
      /\ y.answer = x.answer /\ y.scope = x.scope
  BY DEF Sound, Request
<1> HIDE DEF y
<1>3. Staged(y) /\ Answering(y)
  BY <1>2 DEF Sound, Staged, Answering, Saving
<1>4. Sending(y) /\ Failing(y)
  BY <1>2 DEF Sound, SentBefore, Sending, Failing, Saving
<1> QED
  BY <1>1, <1>3, <1>4 DEF Sound, y

LEMMA SaveSound ==
  ASSUME QueryAssumption, NEW r \in Requests, Sound(req[r]), Save(r, EndOf(r))
  PROVE  GoesOn(r)
<1>1. req[r].pc \in Saving
  BY DEF Save, SaveExact, SaveHash, SaveTtl, Saving
<1>2. Sound(EndOf(r)) /\ Sound(At(r, "hset")) /\ Sound(At(r, "expire"))
  BY <1>1, EndOfSound, SavingSound DEF At, Saving
<1> QED
  BY <1>2, WorksOn, FailsOn DEF Save, SaveExact, SaveHash, SaveTtl, Services

-----------------------------------------------------------------------------
(* Every step of a request *)

\* The calls of the four pipelines, for a request at r.
Calls(r) ==
    \/ TryExactCache(r) \/ Analyze(r, Denied(r)) \/ Analyze(r, DeniedOnly(r))
    \/ Embed(r, Failed(r)) \/ Embed(r, At(r, "semantic")) \/ TrySemanticCache(r)
    \/ RetrieveAndMerge(r) \/ RetrieveWithStrategy(r)
    \/ req[r].mode # "reflectStream" /\ SynthesizeStream(r)
    \/ Generate(r)
    \/ req[r].mode # "reflectStream" /\ Evaluate(r, "set", 1)
    \/ Evaluate(r, "reply", 2)
    \/ req[r].mode = "reflectStream" /\ SendComplete(r)

LEMMA Pipelines ==
  ASSUME NEW r, Advance(r)
  PROVE  Calls(r) \/ Save(r, EndOf(r))
<1>1. CASE req[r].mode = "ask" /\ (AskBefore(r) \/ AskAfter(r))
  BY <1>1 DEF AskBefore, AskAfter, Calls, EndOf, SynthesizeStream
<1>2. CASE req[r].mode = "stream" /\ (StreamBefore(r) \/ StreamAfter(r))
  BY <1>2 DEF StreamBefore, StreamAfter, Calls, EndOf
<1>3. CASE req[r].mode = "reflect" /\ (ReflectBefore(r) \/ ReflectAttempt(r) \/ ReflectAfter(r))
  BY <1>3 DEF ReflectBefore, PreProcess, ReflectAttempt, ReflectAfter, Calls, EndOf
<1>4. CASE /\ req[r].mode = "reflectStream"
           /\ StreamReflectBefore(r) \/ StreamReflectAttempt(r) \/ StreamReflectAfter(r)
  BY <1>4
  DEF StreamReflectBefore, PreProcess, StreamReflectAttempt, StreamReflectAfter, Calls, EndOf
<1> QED
  BY <1>1, <1>2, <1>3, <1>4 DEF Advance

LEMMA AdvanceSound ==
  ASSUME QueryAssumption, NEW r \in Requests, Sound(req[r]), Advance(r)
  PROVE  GoesOn(r)
<1>1. CASE Save(r, EndOf(r))
  BY <1>1, SaveSound
<1>2. CASE \/ TryExactCache(r) \/ Analyze(r, Denied(r)) \/ Analyze(r, DeniedOnly(r))
           \/ Embed(r, Failed(r)) \/ Embed(r, At(r, "semantic")) \/ TrySemanticCache(r)
  BY <1>2, TryExactCacheSound, AnalyzeSound, EmbedSound, TrySemanticCacheSound
<1>3. CASE \/ RetrieveAndMerge(r) \/ RetrieveWithStrategy(r) \/ Generate(r)
           \/ req[r].mode # "reflectStream" /\ SynthesizeStream(r)
  BY <1>3, RetrievalSound, GenerateSound, SynthesizeSound
<1>4. CASE \/ req[r].mode # "reflectStream" /\ Evaluate(r, "set", 1)
           \/ Evaluate(r, "reply", 2)
           \/ req[r].mode = "reflectStream" /\ SendComplete(r)
  BY <1>4, EvaluateSound, SendCompleteSound
<1> QED
  BY <1>1, <1>2, <1>3, <1>4, Pipelines DEF Calls

AllSound == req = [r \in Requests |-> req[r]] /\ \A r \in Requests : Sound(req[r])

LEMMA GoesOnKeeps ==
  ASSUME AllSound, NEW r \in Requests, GoesOn(r)
  PROVE  AllSound'
BY DEF AllSound, GoesOn, Become

LEMMA StepSound ==
  ASSUME QueryAssumption, AllSound, [QueryNext]_vars
  PROVE  AllSound'
<1>1. ASSUME NEW r \in Requests, Advance(r) \/ Cut(r)
      PROVE  AllSound'
  BY <1>1, AdvanceSound, CutSound, GoesOnKeeps DEF AllSound
<1>2. ASSUME NEW r \in Requests, NEW input \in Inputs[r],
             Ask(r, input[1], input[2], input[3], input[4], input[5])
      PROVE  AllSound'
  <2>1. /\ input[1] \in Modes /\ input[2] \in Questions
        /\ input[3] \in Scopes /\ input[4] \in BOOLEAN /\ input[5] \in Rerankers
    BY <1>2 DEF QueryAssumption
  <2> DEFINE x == NewRequest(input[1], input[2], input[3], input[4], input[5])
  <2>2. Sound(x) /\ x.reranker = input[5]
    BY <2>1, NewSound DEF NewRequest
  <2> HIDE DEF x
  <2>3. ASSUME input[5] = "unset"
        PROVE  Sound(Refused(x))
    <3> DEFINE y == [x EXCEPT !.outcome = "refused"]
    <3>1. y \in Request
      BY <2>2 DEF Sound, Request, Outcomes
    <3>2. /\ y.mode = x.mode /\ y.completes = x.completes /\ y.outcome = "refused"
          /\ y.asked = x.asked /\ y.meant = x.meant /\ y.reranker = "unset"
      BY <2>2, <2>3 DEF Sound, Request
    <3> HIDE DEF y
    <3>3. Sound(Over(y))
      BY <2>2, <3>1, <3>2, OverSound DEF Sound, Sending, Answering, Failing
    <3> QED
      BY <3>3 DEF Refused, y
  <2>4. (Works(r, Refused(x)) /\ input[5] = "unset") \/ Works(r, x)
    BY <1>2 DEF Ask, x
  <2> QED
    BY <2>2, <2>3, <2>4, WorksOn, GoesOnKeeps
<1>3. CASE Pass \/ UNCHANGED vars
  BY <1>3 DEF Pass, vars, AllSound
<1> QED
  BY <1>1, <1>2, <1>3 DEF QueryNext

-----------------------------------------------------------------------------
(* What a step does to the cache and to the count of faults *)

Saves(r) ==
    \/ Set(Key(req[r]), req[r].answer) /\ req[r].pc = "set"
    \/ /\ HashSet(Key(req[r]), req[r].vector, req[r].answer)
       /\ req[r].pc = "hset" /\ Works(r, At(r, "expire"))
    \/ Expire(Key(req[r])) /\ req[r].pc = "expire"

LEMMA CallsOnly ==
  ASSUME NEW r \in Requests, Calls(r)
  PROVE  /\ UNCHANGED cacheVars /\ req[r].pc \notin Saving
         /\ \/ UNCHANGED faults
            \/ faults < MaxFaults /\ faults' = faults + 1
<1>1. CASE \/ TryExactCache(r) \/ Analyze(r, Denied(r)) \/ Analyze(r, DeniedOnly(r))
           \/ Embed(r, Failed(r)) \/ Embed(r, At(r, "semantic")) \/ TrySemanticCache(r)
  BY <1>1
  DEF TryExactCache, Analyze, AnalyzeOr, Embed, TrySemanticCache, Works, Fails, Saving
<1>2. CASE RetrieveAndMerge(r) \/ RetrieveWithStrategy(r)
  <2>1. /\ UNCHANGED cacheVars /\ req[r].pc = "retrieve"
        /\ \/ SearchAndRerank(r) \/ EnforceTimeBoundary(r)
           \/ DefaultRetrieval(r) \/ HydeRetrieval(r)
    BY <1>2
    DEF RetrieveAndMerge, RetrieveWithStrategy, SearchAndRerank, DecomposeRetrieval,
        ExpandRetrieval
  <2> QED
    BY <2>1
    DEF SearchAndRerank, Search, LoadModelFails, EnforceTimeBoundary, DefaultRetrieval,
        HydeRetrieval, Works, Fails, Saving
<1>3. CASE SynthesizeStream(r) \/ Generate(r) \/ SendComplete(r)
  BY <1>3 DEF SynthesizeStream, Synthesize, Generate, SendComplete, Works, Fails, Saving
<1>4. CASE Evaluate(r, "set", 1) \/ Evaluate(r, "reply", 2)
  BY <1>4 DEF Evaluate, Works, Fails, Saving
<1> QED
  BY <1>1, <1>2, <1>3, <1>4 DEF Calls

LEMMA SaveOnly ==
  ASSUME NEW r \in Requests, faults \in Nat, Save(r, EndOf(r))
  PROVE  /\ Saves(r) \/ UNCHANGED cacheVars
         /\ \/ UNCHANGED faults /\ Saves(r)
            \/ faults < MaxFaults /\ faults' = faults + 1
BY DEF Save, SaveExact, SaveHash, SaveTtl, Saves, Works, Fails

LEMMA StepOnly ==
  ASSUME NEW r \in Requests, faults \in Nat, Advance(r) \/ Cut(r)
  PROVE  /\ Saves(r) \/ UNCHANGED cacheVars
         /\ \/ UNCHANGED faults /\ (Saves(r) \/ req[r].pc \notin Saving)
            \/ faults < MaxFaults /\ faults' = faults + 1
BY Pipelines, CallsOnly, SaveOnly DEF Cut

-----------------------------------------------------------------------------
(* The cache *)

CacheInv == CacheTypeOK /\ ExactEntriesFit

LEMMA SaveKeepsCache ==
  ASSUME CacheAssumption, CacheInv, NEW r \in Requests, Sound(req[r]), Saves(r)
  PROVE  CacheInv'
<1> DEFINE x == req[r]
<1>1. x \in Request /\ x.asked \in Questions /\ x.scope \in Scopes
      /\ x.vector \in Questions \cup {None}
  BY DEF Sound, Request
<1>2. /\ x.answer \in Answer /\ x.answer.scope = x.scope
      /\ x.asked \notin FollowUps => x.answer.of = x.asked
  BY DEF Saves, Sound, Answering
<1>3. Key(x) \in Keys /\ Key(x)[1] = x.asked /\ Key(x) = <<x.asked, x.scope>>
  BY <1>1 DEF Key, KeyOf, Keys
<1>4. Ttl[x.asked] \in Nat \ {0}
  BY <1>1 DEF CacheAssumption
<1>5. CASE Set(Key(x), x.answer)
  <2>1. exact' = [exact EXCEPT ![Key(x)] = [answer |-> x.answer, left |-> Ttl[x.asked]]]
        /\ semantic' = semantic
    BY <1>3, <1>5 DEF Set
  <2>2. CacheTypeOK'
    BY <1>2, <1>3, <1>4, <2>1 DEF CacheInv, CacheTypeOK
  <2>3. ExactEntriesFit'
    BY <1>2, <1>3, <1>4, <2>1 DEF CacheInv, CacheTypeOK, ExactEntriesFit, KeyOf, Keys
  <2> QED
    BY <2>2, <2>3 DEF CacheInv
<1>6. CASE HashSet(Key(x), x.vector, x.answer) \/ Expire(Key(x))
  <2>1. exact' = exact
    BY <1>6 DEF HashSet, Expire
  <2>2. \E hash : /\ hash \in [vector : Questions \cup {None},
                               answer : Answer \cup {None}, left : Left]
                  /\ hash.left # 0 => hash.answer \in Answer
                  /\ semantic' = [semantic EXCEPT ![Key(x)] = hash]
    <3> DEFINE old == semantic[Key(x)]
    <3>1. /\ old \in [vector : Questions \cup {None}, answer : Answer \cup {None}, left : Left]
          /\ old.left # 0 => old.answer \in Answer
      BY <1>3 DEF CacheInv, CacheTypeOK
    <3>2. CASE HashSet(Key(x), x.vector, x.answer)
      <4> DEFINE left == IF old.left = 0 THEN Forever ELSE old.left
      <4>1. left \in Left
        BY <3>1 DEF Left, Forever
      <4>2. semantic' = [semantic EXCEPT ![Key(x)] =
                            [vector |-> x.vector, answer |-> x.answer, left |-> left]]
        BY <1>3, <3>2 DEF HashSet, CacheInv, CacheTypeOK
      <4> HIDE DEF left
      <4> QED
        BY <1>1, <1>2, <4>1, <4>2
    <3>3. CASE Expire(Key(x))
      <4> DEFINE left == IF old.left = 0 THEN 0 ELSE Ttl[x.asked]
      <4>1. left \in Left /\ (left # 0 => old.left # 0)
        BY <1>4, <3>1 DEF Left
      <4>2. semantic' = [semantic EXCEPT ![Key(x)] = [old EXCEPT !.left = left]]
        BY <1>3, <3>3 DEF Expire, CacheInv, CacheTypeOK
      <4> HIDE DEF left
      <4>3. /\ [old EXCEPT !.left = left]
                 \in [vector : Questions \cup {None}, answer : Answer \cup {None}, left : Left]
            /\ [old EXCEPT !.left = left].left = left
            /\ [old EXCEPT !.left = left].answer = old.answer
        BY <3>1, <4>1
      <4> QED
        BY <3>1, <4>1, <4>2, <4>3
    <3> QED
      BY <1>6, <3>2, <3>3
  <2>3. CacheTypeOK'
    BY <1>3, <2>1, <2>2 DEF CacheInv, CacheTypeOK
  <2> QED
    BY <2>1, <2>3 DEF CacheInv, ExactEntriesFit
<1> QED
  BY <1>5, <1>6 DEF Saves

LEMMA TickKeepsCache ==
  ASSUME CacheInv, Tick
  PROVE  CacheInv'
<1>1. ASSUME NEW k \in Keys
      PROVE  /\ exact'[k] \in [answer : Answer \cup {None}, left : Nat]
             /\ exact'[k].left # 0 => exact[k].left # 0 /\ exact'[k].answer = exact[k].answer
  <2>1. exact[k] \in [answer : Answer \cup {None}, left : Nat]
    BY DEF CacheInv, CacheTypeOK
  <2>2. exact'[k] = Older(exact[k], Nothing)
    BY DEF Tick
  <2> QED
    BY <2>1, <2>2 DEF Older, Nothing
<1>2. ASSUME NEW k \in Keys
      PROVE  /\ semantic'[k] \in [vector : Questions \cup {None},
                                  answer : Answer \cup {None}, left : Left]
             /\ semantic'[k].left # 0 =>
                   semantic[k].left # 0 /\ semantic'[k].answer = semantic[k].answer
  <2>1. semantic[k] \in [vector : Questions \cup {None},
                         answer : Answer \cup {None}, left : Left]
    BY DEF CacheInv, CacheTypeOK
  <2>2. semantic'[k] = Older(semantic[k], NoHash)
    BY DEF Tick
  <2>3. CASE semantic[k].left > 1
    <3>1. semantic[k].left - 1 \in Left /\ semantic[k].left # 0
      BY <2>1, <2>3 DEF Left, Forever
    <3>2. semantic'[k] = [semantic[k] EXCEPT !.left = semantic[k].left - 1]
      BY <2>2, <2>3 DEF Older
    <3> QED
      BY <2>1, <3>1, <3>2
  <2>4. CASE semantic[k].left = 1
    BY <2>1, <2>2, <2>4 DEF Older, NoHash, Left
  <2>5. CASE ~(semantic[k].left > 1) /\ semantic[k].left # 1
    BY <2>1, <2>2, <2>5 DEF Older
  <2> QED
    BY <2>3, <2>4, <2>5
<1>3. CacheTypeOK'
  BY <1>1, <1>2 DEF CacheInv, CacheTypeOK, Tick
<1>4. ExactEntriesFit'
  BY <1>1 DEF CacheInv, ExactEntriesFit, KeyOf, Keys
<1> QED
  BY <1>3, <1>4 DEF CacheInv

LEMMA StepKeepsCache ==
  ASSUME CacheAssumption, CacheInv, AllSound, faults \in Nat, [QueryNext]_vars
  PROVE  CacheInv'
<1>1. UNCHANGED cacheVars => CacheInv'
  BY DEF cacheVars, CacheInv, CacheTypeOK, ExactEntriesFit
<1>2. ASSUME NEW r \in Requests, Advance(r) \/ Cut(r)
      PROVE  CacheInv'
  BY <1>1, <1>2, StepOnly, SaveKeepsCache DEF AllSound
<1>3. CASE Pass
  BY <1>3, TickKeepsCache DEF Pass
<1> QED
  BY <1>1, <1>2, <1>3 DEF QueryNext, Ask, vars, cacheVars

-----------------------------------------------------------------------------
(* Hashes without a time to live *)

Timing(k) == \E r \in Requests : req[r].pc = "expire" /\ Key(req[r]) = k

LEMMA SaveKeepsTimes ==
  ASSUME CacheAssumption, CacheTypeOK, NoHashLastsForEver, AllSound,
         NEW r \in Requests, Saves(r), Advance(r), faults = 0, faults' = 0
  PROVE  NoHashLastsForEver'
<1> DEFINE key == Key(req[r])
<1>1. /\ req[r] \in Request /\ Sound(req[r])
      /\ key \in Keys /\ key[1] = req[r].asked /\ Ttl[req[r].asked] \in Nat \ {0}
  BY DEF AllSound, Sound, Request, Key, KeyOf, Keys, CacheAssumption
<1>2. \A k \in Keys : semantic[k].left = Forever => Timing(k)
  BY DEF NoHashLastsForEver, Timing
<1>3. \E x : Become(r, x)
  BY <1>1, AdvanceSound, QueryAssumption DEF GoesOn
<1>4. \A u \in Requests \ {r} : req'[u] = req[u]
  BY <1>3 DEF Become, AllSound
<1> SUFFICES ASSUME NEW k \in Keys, semantic'[k].left = Forever
             PROVE  Timing(k)'
  BY DEF NoHashLastsForEver, Timing
<1>5. CASE Set(key, req[r].answer) /\ req[r].pc = "set"
  <2>1. PICK u \in Requests : req[u].pc = "expire" /\ Key(req[u]) = k
    BY <1>2, <1>5 DEF Set, Timing
  <2> QED
    BY <1>4, <1>5, <2>1 DEF Timing
<1>6. CASE /\ HashSet(key, req[r].vector, req[r].answer)
           /\ req[r].pc = "hset" /\ Works(r, At(r, "expire"))
  <2>1. CASE k = key
    <3>1. req'[r] = [req[r] EXCEPT !.pc = "expire"]
      BY <1>6 DEF Works, Become, At, AllSound
    <3>2. req'[r].pc = "expire" /\ Key(req'[r]) = key
      BY <1>1, <3>1 DEF Request, Key
    <3> QED
      BY <2>1, <3>2 DEF Timing
  <2>2. CASE k # key
    <3>1. semantic[k].left = Forever
      BY <1>6, <2>2 DEF HashSet, CacheTypeOK
    <3>2. PICK u \in Requests : req[u].pc = "expire" /\ Key(req[u]) = k
      BY <1>2, <3>1 DEF Timing
    <3> QED
      BY <1>4, <1>6, <3>2 DEF Timing
  <2> QED
    BY <2>1, <2>2
<1>7. CASE Expire(key) /\ req[r].pc = "expire"
  <2>1. k # key /\ semantic[k].left = Forever
    BY <1>1, <1>7 DEF Expire, CacheTypeOK, Forever
  <2>2. PICK u \in Requests : req[u].pc = "expire" /\ Key(req[u]) = k
    BY <1>2, <2>1 DEF Timing
  <2> QED
    BY <1>4, <2>1, <2>2 DEF Timing
<1> QED
  BY <1>5, <1>6, <1>7 DEF Saves

LEMMA StepKeepsTimes ==
  ASSUME CacheAssumption, CacheTypeOK, NoHashLastsForEver, AllSound,
         faults \in 0 .. MaxFaults, [QueryNext]_vars
  PROVE  NoHashLastsForEver'
<1>0. QueryAssumption /\ MaxFaults \in Nat /\ faults \in Nat
  BY QueryAssumption DEF QueryAssumption
<1>1. ASSUME NEW r \in Requests, Advance(r) \/ Cut(r)
      PROVE  NoHashLastsForEver'
  <2>1. CASE faults' > 0
    BY <2>1 DEF NoHashLastsForEver
  <2>2. CASE ~(faults' > 0)
    <3>1. faults = 0 /\ faults' = 0 /\ (Saves(r) \/ req[r].pc \notin Saving)
      BY <1>0, <1>1, <2>2, StepOnly
    <3>2. Advance(r)
      BY <1>0, <1>1, <3>1 DEF Cut
    <3>3. CASE Saves(r)
      BY <3>1, <3>2, <3>3, SaveKeepsTimes
    <3>4. CASE req[r].pc \notin Saving
      <4>1. UNCHANGED cacheVars
        BY <1>0, <1>1, <3>4, StepOnly DEF Saves, Saving
      <4>2. \E x : Become(r, x)
        BY <1>0, <3>2, AdvanceSound DEF GoesOn, AllSound
      <4>3. \A u \in Requests \ {r} : req'[u] = req[u]
        BY <4>2 DEF Become, AllSound
      <4> QED
        BY <3>1, <3>4, <4>1, <4>3 DEF NoHashLastsForEver, cacheVars, Saving
    <3> QED
      BY <3>1, <3>3, <3>4
  <2> QED
    BY <2>1, <2>2
<1>2. ASSUME NEW r \in Requests, NEW input \in Inputs[r],
             Ask(r, input[1], input[2], input[3], input[4], input[5])
      PROVE  NoHashLastsForEver'
  <2>1. req[r].pc = "idle" /\ UNCHANGED <<exact, semantic, faults>>
    BY <1>2 DEF Ask, Works, cacheVars
  <2>2. \A u \in Requests \ {r} : req'[u] = req[u]
    BY <1>2 DEF Ask, Works, Become, AllSound
  <2> QED
    BY <2>1, <2>2 DEF NoHashLastsForEver
<1>3. CASE Pass
  <2>1. \A k \in Keys : semantic'[k].left = Forever => semantic[k].left = Forever
    <3> SUFFICES ASSUME NEW k \in Keys, semantic'[k].left = Forever
                 PROVE  semantic[k].left = Forever
      OBVIOUS
    <3>1. semantic'[k] = Older(semantic[k], NoHash)
      BY <1>3 DEF Pass, Tick
    <3>2. semantic[k] \in [vector : Questions \cup {None},
                           answer : Answer \cup {None}, left : Left]
      BY DEF CacheTypeOK
    <3> QED
      BY <3>1, <3>2 DEF Older, NoHash, Left, Forever
  <2> QED
    BY <1>3, <2>1 DEF Pass, NoHashLastsForEver
<1>4. CASE UNCHANGED vars
  BY <1>4 DEF vars, NoHashLastsForEver
<1> QED
  BY <1>1, <1>2, <1>3, <1>4 DEF QueryNext

-----------------------------------------------------------------------------
(* Theorems *)

QueryInv ==
    AllSound /\ CacheInv /\ NoHashLastsForEver /\ faults \in 0 .. MaxFaults

LEMMA InitQuery ==
  ASSUME QueryInit
  PROVE  QueryInv
<1> DEFINE q == CHOOSE q \in Questions : TRUE
           s == CHOOSE s \in Scopes : TRUE
           x == NewRequest("ask", q, s, FALSE, "llm")
<1>1. q \in Questions /\ s \in Scopes
  BY CacheAssumption DEF CacheAssumption
<1> HIDE DEF q, s
<1>2. Sound(x)
  BY <1>1, QueryAssumption, NewSound DEF Modes, Rerankers
<1>3. x.pc = "lookup"
  BY DEF NewRequest
<1> HIDE DEF x
<1>4. Sound([x EXCEPT !.pc = "idle"])
  <2> DEFINE y == [x EXCEPT !.pc = "idle"]
  <2>1. y \in Request
    BY <1>2 DEF Sound, Request, Steps
  <2>2. /\ y.pc = "idle" /\ y.attempt = x.attempt /\ y.strategy = x.strategy
        /\ y.asked = x.asked /\ y.meant = x.meant /\ y.mode = x.mode
        /\ y.completes = x.completes /\ y.outcome = x.outcome
    BY <1>2 DEF Sound, Request
  <2> HIDE DEF y
  <2> QED
    BY <1>2, <1>3, <2>1, <2>2
    DEF Sound, Staged, Answering, SentBefore, Sending, Failing, y
<1>5. AllSound
  BY <1>4 DEF QueryInit, AllSound, q, s, x
<1>6. /\ exact = [k \in Keys |-> Nothing] /\ Nothing \in [answer : Answer \cup {None}, left : Nat]
      /\ semantic = [k \in Keys |-> NoHash]
      /\ NoHash \in [vector : Questions \cup {None}, answer : Answer \cup {None}, left : Left]
      /\ Nothing.left = 0 /\ NoHash.left = 0
  BY DEF QueryInit, CacheInit, Nothing, NoHash, Left
<1>7. CacheInv
  BY <1>6 DEF CacheInv, CacheTypeOK, ExactEntriesFit, KeyOf, Keys
<1>8. NoHashLastsForEver
  BY <1>6 DEF NoHashLastsForEver, Forever
<1>9. faults \in 0 .. MaxFaults
  <2>1. faults = 0 /\ MaxFaults \in Nat
    BY QueryAssumption DEF QueryInit, QueryAssumption
  <2> QED
    BY <2>1
<1> QED
  BY <1>5, <1>7, <1>8, <1>9 DEF QueryInv

LEMMA StepQuery ==
  ASSUME QueryInv, [QueryNext]_vars
  PROVE  QueryInv'
<1>1. AllSound'
  BY QueryAssumption, StepSound DEF QueryInv
<1>2. faults \in Nat /\ MaxFaults \in Nat
  BY QueryAssumption DEF QueryInv, QueryAssumption
<1>3. CacheInv'
  BY <1>2, CacheAssumption, StepKeepsCache DEF QueryInv
<1>4. NoHashLastsForEver'
  BY CacheAssumption, StepKeepsTimes DEF QueryInv, CacheInv
<1>5. faults' \in 0 .. MaxFaults
  <2>1. faults' = faults \/ (faults < MaxFaults /\ faults' = faults + 1)
    BY <1>2, StepOnly DEF QueryNext, Ask, Works, Pass, vars
  <2> QED
    BY <1>2, <2>1 DEF QueryInv
<1> QED
  BY <1>1, <1>3, <1>4, <1>5 DEF QueryInv

LEMMA AlwaysQueryInv == QuerySpec => []QueryInv
  BY InitQuery, StepQuery, PTL DEF QuerySpec

\* Types of requests and entries; a request never makes more attempts than its
\* budget, and has an answer when it stores or sends one.
THEOREM QueryTypeCorrect == QuerySpec => []QueryTypeOK
<1>1. QueryInv => QueryTypeOK
  BY DEF QueryInv, AllSound, Sound, Answering, CacheInv, QueryTypeOK
<1> QED
  BY <1>1, AlwaysQueryInv, PTL

\* Whatever fails, every stream that begins and is not cut has exactly one complete event
\* (execute_stream of both pipelines).
THEOREM StreamsComplete == QuerySpec => []OneComplete
<1>1. QueryInv => OneComplete
  BY DEF QueryInv, AllSound, Sound, Sending, OneComplete
<1> QED
  BY <1>1, AlwaysQueryInv, PTL

\* An error is the fault of the embedder, of the LLM, of a range without an end or
\* a time zone, or of a cross-encoder without a setting or a model: the cache, the
\* analyzer, the evaluator and the search may fail at any time (the try blocks of
\* the pipelines).
THEOREM CausesOfErrors == QuerySpec => []DegradesGracefully
<1>1. QueryInv => DegradesGracefully
  BY DEF QueryInv, AllSound, Sound, Failing, Excused, DegradesGracefully
<1> QED
  BY <1>1, AlwaysQueryInv, PTL

\* Whatever requests overlap, the answer at an exact key was computed for the
\* question and the scope of the key (_cache_key, RedisCacheAdapter.set).
THEOREM KeysTellScopes == QuerySpec => []ExactEntriesFit
<1>1. QueryInv => ExactEntriesFit
  BY DEF QueryInv, CacheInv
<1> QED
  BY <1>1, AlwaysQueryInv, PTL

\* Without a fault, however HSETs, EXPIREs and the expiry of hashes interleave,
\* a hash without a time to live has a writer that is about to set it
\* (semantic_set).
THEOREM HashesExpire == QuerySpec => []NoHashLastsForEver
<1>1. QueryInv => NoHashLastsForEver
  BY DEF QueryInv
<1> QED
  BY <1>1, AlwaysQueryInv, PTL

=============================================================================
