----------------------------- MODULE Extractor -----------------------------
(***************************************************************************)
(* How a CPU worker gets the transcript of a video: extract_transcript,    *)
(* which calls yt-dlp once for the metadata, once for subtitles and, if    *)
(* there are none, once for the audio, which Whisper then transcribes; the *)
(* classification of its errors; and the cooldown file, through which all  *)
(* workers keep away from YouTube after a 429.                             *)
(*                                                                         *)
(* Each action is one outcome of a call, or one access to the file.  Time  *)
(* is counted in the shortest cooldown, two minutes.                       *)
(***************************************************************************)
EXTENDS Integers, Sequences, FiniteSets

CONSTANTS Workers, Videos,
          Kinds          \* the videos there may be, a set of VideoKind

VARIABLES
    video,     \* video[v]: see VideoKind
    status,    \* status[v]: of its row, as far as the extraction decides it
    pc, job,   \* of each worker
    stage,     \* stage[w]: what its present call of yt-dlp is for
    wait,      \* wait[w]: how long it is still going to sleep
    level,     \* level[w]: the level that it is about to write
    cooldown,  \* the file: time left and backoff level, or NoFile
    defied     \* calls begun in the cooldown that the file now shows

workerVars == <<pc, job, stage, wait, level>>
vars == <<video, status, workerVars, cooldown, defied>>

\* [2, 4, 8, 10] minutes, and up to two minutes of jitter.
Backoff == <<1, 2, 4, 5>>
TopLevel == Len(Backoff) - 1
Jitter == 0 .. 1

VideoKind ==
    [access : {"public", "members", "private", "upcoming"}, captions : BOOLEAN,
     content : {"speech", "silent", "short"}]

Nothing == "none"

ASSUME ExtractAssumption ==
    /\ Kinds \subseteq VideoKind /\ Nothing \notin Videos
    /\ IsFiniteSet(Workers) /\ Workers # {}

NoFile == [left |-> 0, level |-> -1]
Given == {"unavailable", "requires_membership", "no_captions", "transcribed"}

ExtractTypeOK ==
    /\ video \in [Videos -> VideoKind]
    /\ status \in [Videos -> {"pending", "extracting"} \cup Given]
    /\ pc \in [Workers -> {"idle", "check", "asleep", "call", "limited", "whisper"}]
    /\ job \in [Workers -> Videos \cup {Nothing}]
    /\ stage \in [Workers -> {"metadata", "subs", "audio"}]
    /\ wait \in [Workers -> 0 .. Backoff[Len(Backoff)] + 1]
    /\ level \in [Workers -> 0 .. TopLevel]
    /\ cooldown.level \in -1 .. TopLevel
    /\ cooldown.left \in 0 .. IF cooldown.level = -1 THEN 0 ELSE Backoff[cooldown.level + 1]
    /\ defied \in Nat
    \* Only a public video with captions or speech gets as far as a second call.
    /\ \A w \in Workers :
          /\ pc[w] = "idle" <=> job[w] = Nothing
          /\ stage[w] # "metadata" /\ job[w] # Nothing =>
                video[job[w]].access = "public" /\ video[job[w]].content # "short"

ExtractInit ==
    /\ video \in [Videos -> Kinds]
    /\ status = [v \in Videos |-> "pending"]
    /\ pc = [w \in Workers |-> "idle"] /\ job = [w \in Workers |-> Nothing]
    /\ stage = [w \in Workers |-> "metadata"]
    /\ wait = [w \in Workers |-> 0] /\ level = [w \in Workers |-> 0]
    /\ cooldown = NoFile
    /\ defied = 0

-----------------------------------------------------------------------------
(* Outcomes *)

Goto(w, step) == pc' = [pc EXCEPT ![w] = step]

\* The job is over; its row gets this status.
Finish(w, result) ==
    /\ status' = [status EXCEPT ![job[w]] = result]
    /\ pc' = [pc EXCEPT ![w] = "idle"]
    /\ job' = [job EXCEPT ![w] = Nothing]
    /\ stage' = [stage EXCEPT ![w] = "metadata"]
    /\ wait' = [wait EXCEPT ![w] = 0] /\ level' = [level EXCEPT ![w] = 0]
    /\ UNCHANGED video

\* _classify_video_error, on the words of an error that it looks for: those for
\* a members' video, for one that is gone, and for one that is yet to come.
Transient == "transient"
ClassifyVideoError(words) ==
    IF "members" \in words THEN "requires_membership"
    ELSE IF "gone" \in words THEN "unavailable"
    ELSE IF "premiere" \in words THEN "scheduled"
    ELSE Transient

\* extract_transcript says "Video permanently unavailable: <status>" of all three
\* kinds alike, and it is this text that the worker classifies: a members' video
\* and a premiere that yt-dlp fails to describe both end as unavailable.
Wrapped(words) == IF ClassifyVideoError(words) = Transient THEN words ELSE {"gone"}

\* process_job: a video that is yet to come is tried again in twelve hours, a
\* transient error after a backoff.
Resulting(words) ==
    IF ClassifyVideoError(words) \in {"scheduled", Transient} THEN "pending"
    ELSE ClassifyVideoError(words)
Raise(w, words) == Finish(w, Resulting(words))

\* What yt-dlp says when it fails.  The words for a video that is gone are those of
\* an HTTP error that will pass, too ("Service Unavailable", "Not Found").
Complaints(v) ==
    {{}, {"gone"}} \cup CASE video[v].access = "members" -> {{"members"}}
                         [] video[v].access = "upcoming" -> {{"premiere"}}
                         [] OTHER -> {}

\* The next call of yt-dlp of the same job.
Call(w, what) ==
    /\ Goto(w, "check")
    /\ stage' = [stage EXCEPT ![w] = what]
    /\ UNCHANGED <<video, status, job, wait, level>>

\* A call without a result.  Failing to get subtitles is not an error.
FailureIsSilence(w, words) ==                                      \* a mutant
    IF stage[w] = "subs" THEN Finish(w, "no_captions") ELSE Raise(w, Wrapped(words))
Failure(w, words) ==
    IF stage[w] = "subs" THEN Call(w, "audio") ELSE Raise(w, Wrapped(words))

-----------------------------------------------------------------------------
(* The cooldown file *)

InForce == cooldown.left > 0

\* _wait_yt_cooldown looks at the file once, before it sleeps.
WaitWhileFresh(w) ==                                               \* a mutant
    /\ pc[w] = "check"
    /\ IF InForce /\ cooldown.level = 0
       THEN \E jitter \in Jitter :
               wait' = [wait EXCEPT ![w] = cooldown.left + jitter] /\ Goto(w, "asleep")
       ELSE Goto(w, "call") /\ UNCHANGED wait
    /\ defied' = IF InForce /\ cooldown.level # 0 THEN defied + 1 ELSE defied
    /\ UNCHANGED <<video, status, job, stage, level, cooldown>>
WaitYtCooldown(w) ==
    /\ pc[w] = "check"
    /\ IF InForce
       THEN \E jitter \in Jitter :
               wait' = [wait EXCEPT ![w] = cooldown.left + jitter] /\ Goto(w, "asleep")
       ELSE Goto(w, "call") /\ UNCHANGED wait
    /\ UNCHANGED <<video, status, job, stage, level, cooldown, defied>>

WakeUp(w) ==
    /\ pc[w] = "asleep" /\ wait[w] = 0
    /\ Goto(w, "call")
    /\ defied' = IF InForce THEN defied + 1 ELSE defied
    /\ UNCHANGED <<video, status, job, stage, wait, level, cooldown>>

\* _clear_yt_cooldown, after every call that succeeds
ClearYtCooldown == cooldown' = NoFile /\ defied' = 0

\* _set_yt_cooldown reads the level that the file shows, and writes it later.
NextLevelUncapped == cooldown.level + 1                            \* a mutant
NextLevel == IF cooldown.level = TopLevel THEN TopLevel ELSE cooldown.level + 1
TooManyRequests(w) ==
    /\ pc[w] = "call" /\ Goto(w, "limited")
    /\ level' = [level EXCEPT ![w] = NextLevel]
    /\ UNCHANGED <<video, status, job, stage, wait, cooldown, defied>>
SetYtCooldown(w) ==
    /\ pc[w] = "limited"
    /\ cooldown' = [left |-> Backoff[level[w] + 1], level |-> level[w]]
    /\ defied' = 0
    /\ Failure(w, {})

\* Time passes for the file and for those who sleep.
Tick ==
    /\ InForce \/ \E w \in Workers : wait[w] > 0
    /\ cooldown' = IF InForce THEN [cooldown EXCEPT !.left = @ - 1] ELSE cooldown
    /\ wait' = [w \in Workers |-> IF wait[w] > 0 THEN wait[w] - 1 ELSE 0]
    /\ defied' = IF cooldown'.left = 0 THEN 0 ELSE defied
    /\ UNCHANGED <<video, status, pc, job, stage, level>>

-----------------------------------------------------------------------------
(* The calls *)

\* A worker has claimed the row.
Begin(w, v) ==
    /\ pc[w] = "idle" /\ status[v] = "pending"
    /\ status' = [status EXCEPT ![v] = "extracting"]
    /\ Goto(w, "check") /\ job' = [job EXCEPT ![w] = v]
    /\ UNCHANGED <<video, stage, wait, level, cooldown, defied>>

Succeeds(w, what) == pc[w] = "call" /\ stage[w] = what /\ ClearYtCooldown

\* The availability is not "public": of a video of another kind, and of any that
\* yt-dlp prints as null because it did not learn it.
DescribedInaccessible(w) == Succeeds(w, "metadata") /\ Raise(w, {"gone"})

\* live_status
DescribedUpcoming(w) ==
    /\ Succeeds(w, "metadata")
    /\ video[job[w]].access = "upcoming"
    /\ Raise(w, {"premiere"})

Described(w) ==
    LET v == video[job[w]]
    IN  /\ Succeeds(w, "metadata") /\ v.access = "public"
        /\ IF v.content = "short" THEN Finish(w, "no_captions")
           ELSE Call(w, IF v.captions THEN "subs" ELSE "audio")

\* parse_vtt keeps the cues that have a text: whether any is left.
Parsed(v) == IF video[v].content = "speech" THEN BOOLEAN ELSE {FALSE}
Downloaded(w) ==
    /\ Succeeds(w, "subs")
    /\ \E text \in Parsed(job[w]) :
          IF text THEN Finish(w, "transcribed") ELSE Call(w, "audio")

AudioDownloaded(w) ==
    /\ Succeeds(w, "audio")
    /\ Goto(w, "whisper")
    /\ UNCHANGED <<video, status, job, stage, wait, level>>

\* Whisper hears the audio in overlapping pieces, which are merged.
Heard(v) == video[v].content = "speech"
Transcribe(w) ==
    /\ pc[w] = "whisper"
    /\ Finish(w, IF Heard(job[w]) THEN "transcribed" ELSE "no_captions")
    /\ UNCHANGED <<cooldown, defied>>

\* yt-dlp exits with an error: the network's, or the video's.
Fails(w) ==
    /\ pc[w] = "call"
    /\ \E words \in Complaints(job[w]) : Failure(w, words)
    /\ UNCHANGED <<cooldown, defied>>

\* The timeout of a call; the process is killed.
NeverTimesOut(w) == FALSE                                          \* a mutant
TimesOut(w) ==
    /\ pc[w] = "call" /\ Failure(w, {})
    /\ UNCHANGED <<cooldown, defied>>

\* Whisper fails, in any words, or the timeout of the whole stage strikes.
StageFails(w) ==
    /\ pc[w] \in {"asleep", "call", "whisper"}
    /\ \E words \in IF pc[w] = "whisper" THEN {{}, {"gone"}} ELSE {{}} : Raise(w, words)
    /\ UNCHANGED <<cooldown, defied>>

\* The premiere is over.
Premiere(v) ==
    /\ video[v].access = "upcoming"
    /\ video' = [video EXCEPT ![v].access = "public"]
    /\ UNCHANGED <<status, workerVars, cooldown, defied>>

-----------------------------------------------------------------------------

Answer(w) ==
    \/ DescribedInaccessible(w) \/ DescribedUpcoming(w) \/ Described(w) \/ Downloaded(w)
    \/ AudioDownloaded(w) \/ TooManyRequests(w) \/ Fails(w)

\* What a worker does by itself.
Proceed(w) ==
    \/ WaitYtCooldown(w) \/ WakeUp(w) \/ SetYtCooldown(w) \/ TimesOut(w)
    \/ pc[w] = "whisper" /\ (Transcribe(w) \/ StageFails(w))

ExtractNext ==
    \/ Tick
    \/ \E w \in Workers : Answer(w) \/ Proceed(w) \/ StageFails(w)
    \/ \E w \in Workers, v \in Videos : Begin(w, v)
    \/ \E v \in Videos : Premiere(v)

ExtractSpec == ExtractInit /\ [][ExtractNext]_vars

\* YouTube need not answer, which is what the timeouts are for.
FairExtractSpec ==
    /\ ExtractSpec
    /\ WF_vars(Tick)
    /\ \A w \in Workers : WF_vars(Proceed(w))

-----------------------------------------------------------------------------
(* Properties *)

\* "If any worker hit a YouTube rate limit recently, sleep until cooldown
\* expires" (_wait_yt_cooldown).  The file is not looked at again after a sleep,
\* another worker's success removes it and two workers may write it at once; but
\* no worker but those who slept or called when it was written calls during a
\* cooldown, and each only once.
FewDefyACooldown == defied < Cardinality(Workers)

\* A video is without captions only if there is nothing to hear in it, or it is
\* too short: no failure, timeout or rate limit is taken for silence.
SpeechIsNotSkipped ==
    \A v \in Videos : status[v] = "no_captions" => video[v].content # "speech"

\* Every extraction ends, although YouTube may not answer and workers extend
\* each other's cooldowns.
EveryExtractionEnds == \A w \in Workers : pc[w] # "idle" ~> pc[w] = "idle"
=============================================================================
