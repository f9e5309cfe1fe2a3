--------------------------- MODULE ExtractorProofs ---------------------------
(***************************************************************************)
(* The safety properties of Extractor for any finite number of workers and *)
(* any videos.                                                             *)
(***************************************************************************)
EXTENDS Extractor, FiniteSetTheorems, TLAPS

-----------------------------------------------------------------------------
(* Jobs and results *)

Statuses == {"pending", "extracting"} \cup Given

\* The part of ExtractTypeOK that is not about the file.
JobsTyped ==
    /\ video \in [Videos -> VideoKind]
    /\ status \in [Videos -> Statuses]
    /\ pc \in [Workers -> {"idle", "check", "asleep", "call", "limited", "whisper"}]
    /\ job \in [Workers -> Videos \cup {Nothing}]
    /\ stage \in [Workers -> {"metadata", "subs", "audio"}]
    /\ wait \in [Workers -> 0 .. 6]
    /\ level \in [Workers -> 0 .. 3]

\* A worker without a job starts with the metadata, and only a public video gets
\* as far as a second call.
JobsStaged ==
    \A w \in Workers :
        /\ pc[w] = "idle" <=> job[w] = Nothing
        /\ pc[w] = "idle" => stage[w] = "metadata"
        /\ stage[w] # "metadata" /\ job[w] # Nothing =>
              video[job[w]].access = "public" /\ video[job[w]].content # "short"

Jobs == JobsTyped /\ JobsStaged /\ SpeechIsNotSkipped

FileTyped ==
    /\ cooldown \in [left : 0 .. 5, level : -1 .. 3]
    /\ cooldown.level = -1 => cooldown.left = 0
    /\ cooldown.level # -1 => cooldown.left <= Backoff[cooldown.level + 1]
    /\ defied \in Nat

LEMMA Levels ==
  /\ TopLevel = 3 /\ Backoff[Len(Backoff)] = 5
  /\ \A l \in 0 .. 3 : Backoff[l + 1] \in 1 .. 5
<1>1. Len(Backoff) = 4
  BY DEF Backoff
<1>2. Backoff[1] = 1 /\ Backoff[2] = 2 /\ Backoff[3] = 4 /\ Backoff[4] = 5
  BY DEF Backoff
<1>3. \A l \in 0 .. 3 : l = 0 \/ l = 1 \/ l = 2 \/ l = 3
  OBVIOUS
<1> QED
  BY <1>1, <1>2, <1>3 DEF TopLevel

LEMMA TypeParts ==
  /\ Jobs /\ FileTyped => ExtractTypeOK
BY Levels DEF Jobs, JobsTyped, JobsStaged, FileTyped, ExtractTypeOK, Statuses

\* The end of a job, with a status that is not silence, or rightly so.
LEMMA FinishKeepsJobs ==
  ASSUME Jobs, NEW w \in Workers, pc[w] # "idle", NEW result \in Statuses,
         result = "no_captions" => video[job[w]].content # "speech",
         Finish(w, result)
  PROVE  Jobs'
<1>1. job[w] \in Videos
  BY DEF Jobs, JobsTyped, JobsStaged
<1>2. JobsTyped'
  BY <1>1 DEF Jobs, JobsTyped, Finish
<1>3. JobsStaged'
  BY DEF Jobs, JobsTyped, JobsStaged, Finish
<1>4. SpeechIsNotSkipped'
  BY <1>1 DEF Jobs, JobsTyped, SpeechIsNotSkipped, Finish
<1> QED
  BY <1>2, <1>3, <1>4 DEF Jobs

LEMMA CallKeepsJobs ==
  ASSUME Jobs, NEW w \in Workers, pc[w] # "idle", NEW what \in {"subs", "audio"},
         video[job[w]].access = "public", video[job[w]].content # "short",
         Call(w, what)
  PROVE  Jobs'
<1>1. JobsTyped'
  BY DEF Jobs, JobsTyped, Call, Goto
<1>2. JobsStaged'
  BY DEF Jobs, JobsTyped, JobsStaged, Call, Goto
<1> QED
  BY <1>1, <1>2 DEF Jobs, SpeechIsNotSkipped, Call

LEMMA Results ==
  ASSUME NEW words
  PROVE  Resulting(words) \in Statuses \ {"no_captions"}
BY DEF Resulting, ClassifyVideoError, Transient, Statuses, Given

LEMMA RaiseKeepsJobs ==
  ASSUME Jobs, NEW w \in Workers, pc[w] # "idle", NEW words, Raise(w, words)
  PROVE  Jobs'
BY Results, FinishKeepsJobs DEF Raise

LEMMA FailureKeepsJobs ==
  ASSUME Jobs, NEW w \in Workers, pc[w] # "idle", NEW words, Failure(w, words)
  PROVE  Jobs'
<1>1. CASE stage[w] = "subs"
  <2>1. video[job[w]].access = "public" /\ video[job[w]].content # "short"
    BY <1>1 DEF Jobs, JobsStaged
  <2> QED
    BY <1>1, <2>1, CallKeepsJobs DEF Failure
<1>2. CASE stage[w] # "subs"
  BY <1>2, RaiseKeepsJobs DEF Failure
<1> QED
  BY <1>1, <1>2

-----------------------------------------------------------------------------
(* Each action keeps Jobs *)

LEMMA CallsKeepJobs ==
  ASSUME Jobs, FileTyped, NEW w \in Workers, Answer(w)
  PROVE  Jobs'
<1>0. pc[w] \in {"call"} /\ job[w] \in Videos
  BY DEF Answer, DescribedInaccessible, DescribedUpcoming, Described, Downloaded,
         AudioDownloaded, TooManyRequests, Fails, Succeeds, Jobs, JobsTyped, JobsStaged
<1>1. CASE DescribedInaccessible(w)
  BY <1>0, <1>1, RaiseKeepsJobs DEF DescribedInaccessible
<1>2. CASE DescribedUpcoming(w)
  BY <1>0, <1>2, RaiseKeepsJobs DEF DescribedUpcoming
<1>3. CASE Described(w)
  <2>1. CASE video[job[w]].content = "short"
    BY <1>0, <1>3, <2>1, FinishKeepsJobs DEF Described, Statuses, Given
  <2>2. CASE video[job[w]].content # "short"
    BY <1>0, <1>3, <2>2, CallKeepsJobs DEF Described
  <2> QED
    BY <2>1, <2>2
<1>4. CASE Downloaded(w)
  <2>1. video[job[w]].access = "public" /\ video[job[w]].content # "short"
    BY <1>0, <1>4 DEF Downloaded, Succeeds, Jobs, JobsTyped, JobsStaged
  <2>2. Finish(w, "transcribed") \/ Call(w, "audio")
    BY <1>4 DEF Downloaded
  <2> QED
    BY <1>0, <2>1, <2>2, FinishKeepsJobs, CallKeepsJobs DEF Statuses, Given
<1>5. CASE AudioDownloaded(w)
  BY <1>0, <1>5 DEF AudioDownloaded, Goto, Jobs, JobsTyped, JobsStaged, SpeechIsNotSkipped
<1>6. CASE TooManyRequests(w)
  <2>1. NextLevel \in 0 .. 3
    BY Levels DEF NextLevel, FileTyped
  <2> QED
    BY <1>0, <1>6, <2>1
    DEF TooManyRequests, Goto, Jobs, JobsTyped, JobsStaged, SpeechIsNotSkipped
<1>7. CASE Fails(w)
  BY <1>0, <1>7, FailureKeepsJobs DEF Fails
<1> QED
  BY <1>1, <1>2, <1>3, <1>4, <1>5, <1>6, <1>7 DEF Answer

LEMMA WorkersKeepJobs ==
  ASSUME Jobs, FileTyped, NEW w \in Workers, Proceed(w) \/ StageFails(w)
  PROVE  Jobs'
<1>1. CASE WaitYtCooldown(w)
  <2>1. CASE InForce
    <3>1. PICK jitter \in 0 .. 1 :
             wait' = [wait EXCEPT ![w] = cooldown.left + jitter] /\ Goto(w, "asleep")
      BY <1>1, <2>1 DEF WaitYtCooldown, Jitter
    <3>2. cooldown.left + jitter \in 0 .. 6
      BY DEF FileTyped
    <3> QED
      BY <1>1, <3>1, <3>2
      DEF WaitYtCooldown, Goto, Jobs, JobsTyped, JobsStaged, SpeechIsNotSkipped
  <2>2. CASE ~InForce
    BY <1>1, <2>2
    DEF WaitYtCooldown, Goto, Jobs, JobsTyped, JobsStaged, SpeechIsNotSkipped
  <2> QED
    BY <2>1, <2>2
<1>2. CASE WakeUp(w)
  BY <1>2 DEF WakeUp, Goto, Jobs, JobsTyped, JobsStaged, SpeechIsNotSkipped
<1>3. CASE SetYtCooldown(w)
  BY <1>3, FailureKeepsJobs DEF SetYtCooldown
<1>4. CASE TimesOut(w)
  BY <1>4, FailureKeepsJobs DEF TimesOut
<1>5. CASE Transcribe(w)
  BY <1>5, FinishKeepsJobs DEF Transcribe, Heard, Statuses, Given
<1>6. CASE StageFails(w)
  BY <1>6, RaiseKeepsJobs DEF StageFails
<1> QED
  BY <1>1, <1>2, <1>3, <1>4, <1>5, <1>6 DEF Proceed

LEMMA OthersKeepJobs ==
  ASSUME ExtractAssumption, Jobs,
         \/ Tick
         \/ \E w \in Workers, v \in Videos : Begin(w, v)
         \/ \E v \in Videos : Premiere(v)
  PROVE  Jobs'
<1>1. CASE Tick
  <2>1. wait' \in [Workers -> 0 .. 6]
    BY <1>1 DEF Tick, Jobs, JobsTyped
  <2> QED
    BY <1>1, <2>1 DEF Tick, Jobs, JobsTyped, JobsStaged, SpeechIsNotSkipped
<1>2. ASSUME NEW w \in Workers, NEW v \in Videos, Begin(w, v)
      PROVE  Jobs'
  BY <1>2, ExtractAssumption
  DEF Begin, Goto, Jobs, JobsTyped, JobsStaged, SpeechIsNotSkipped, Statuses
<1>3. ASSUME NEW v \in Videos, Premiere(v)
      PROVE  Jobs'
  <2>1. video' \in [Videos -> VideoKind]
    BY <1>3 DEF Premiere, Jobs, JobsTyped, VideoKind
  <2>2. \A u \in Videos : video'[u].content = video[u].content
                         /\ (video[u].access = "public" => video'[u].access = "public")
    BY <1>3 DEF Premiere, Jobs, JobsTyped, VideoKind
  <2>3. JobsStaged'
    BY <1>3, <2>2 DEF Premiere, Jobs, JobsTyped, JobsStaged, workerVars
  <2> QED
    BY <1>3, <2>1, <2>2, <2>3
    DEF Premiere, Jobs, JobsTyped, SpeechIsNotSkipped, workerVars
<1> QED
  BY <1>1, <1>2, <1>3

-----------------------------------------------------------------------------
(* The file *)

\* Those who will wake up during the cooldown.
Restless == {w \in Workers : pc[w] = "asleep" /\ wait[w] < cooldown.left}

\* Who wakes up during a cooldown was asleep when it was written, and only the
\* worker that writes it is sure not to be.
Defiance ==
    IF InForce THEN defied + Cardinality(Restless) < Cardinality(Workers) ELSE defied = 0

Cooldown == FileTyped /\ Defiance

LEMMA RestlessFinite ==
  ASSUME ExtractAssumption
  PROVE  /\ Cardinality(Workers) \in Nat \ {0}
         /\ IsFiniteSet(Restless) /\ Cardinality(Restless) \in Nat
<1>1. IsFiniteSet(Workers) /\ Workers # {}
  BY DEF ExtractAssumption
<1>2. Cardinality(Workers) \in Nat /\ Cardinality(Workers) # 0
  BY <1>1, FS_CardinalityType, FS_EmptySet
<1>3. Restless \in SUBSET Workers
  BY DEF Restless
<1>4. IsFiniteSet(Restless)
  BY <1>1, <1>3, FS_Subset
<1> QED
  BY <1>2, <1>4, FS_CardinalityType

\* Nobody else falls asleep, and w does not.
Alert(w) ==
    /\ pc'[w] # "asleep"
    /\ \A u \in Workers \ {w} : pc'[u] = pc[u] /\ wait'[u] = wait[u]

LEMMA NoNewRestless ==
  ASSUME ExtractAssumption, Cooldown, UNCHANGED <<cooldown, defied>>,
         Restless' \subseteq Restless
  PROVE  Cooldown'
<1>1. IsFiniteSet(Restless) /\ Cardinality(Restless) \in Nat
  BY RestlessFinite
<1>2. IsFiniteSet(Restless') /\ Cardinality(Restless') <= Cardinality(Restless)
  BY <1>1, FS_Subset
<1>3. Cardinality(Restless') \in Nat /\ Cardinality(Workers) \in Nat
  BY <1>2, RestlessFinite, FS_CardinalityType
<1> QED
  BY <1>1, <1>2, <1>3 DEF Cooldown, FileTyped, Defiance, InForce

LEMMA AlertKeeps ==
  ASSUME ExtractAssumption, Cooldown, NEW w \in Workers, Alert(w),
         UNCHANGED <<cooldown, defied>>
  PROVE  Cooldown'
<1>1. Restless' \subseteq Restless
  BY DEF Restless, Alert
<1> QED
  BY <1>1, NoNewRestless

LEMMA Cleared ==
  ASSUME ClearYtCooldown
  PROVE  Cooldown'
BY DEF ClearYtCooldown, NoFile, Cooldown, FileTyped, Defiance, InForce

\* The worker that writes the file is not asleep.
LEMMA Written ==
  ASSUME ExtractAssumption, JobsTyped, NEW w \in Workers, Alert(w),
         cooldown' = [left |-> Backoff[level[w] + 1], level |-> level[w]], defied' = 0
  PROVE  Cooldown'
<1>1. level[w] \in 0 .. 3 /\ Backoff[level[w] + 1] \in 1 .. 5
  BY Levels DEF JobsTyped
<1>2. FileTyped'
  BY <1>1 DEF FileTyped
<1>3. Restless' \in SUBSET (Workers \ {w})
  BY DEF Restless, Alert
<1>4. /\ IsFiniteSet(Workers \ {w})
      /\ Cardinality(Workers \ {w}) = Cardinality(Workers) - 1
  BY FS_RemoveElement DEF ExtractAssumption
<1>5. IsFiniteSet(Restless') /\ Cardinality(Restless') <= Cardinality(Workers) - 1
  BY <1>3, <1>4, FS_Subset
<1>6. Cardinality(Restless') \in Nat /\ Cardinality(Workers) \in Nat
  BY <1>5, RestlessFinite, FS_CardinalityType
<1>7. defied' + Cardinality(Restless') < Cardinality(Workers)
  BY <1>5, <1>6
<1> QED
  BY <1>2, <1>7 DEF Cooldown, Defiance

LEMMA FinishIsAlert ==
  ASSUME JobsTyped, NEW w \in Workers, NEW result, Finish(w, result)
  PROVE  Alert(w)
BY DEF JobsTyped, Finish, Alert

LEMMA CallIsAlert ==
  ASSUME JobsTyped, NEW w \in Workers, NEW what, Call(w, what)
  PROVE  Alert(w)
BY DEF JobsTyped, Call, Goto, Alert

LEMMA FailureIsAlert ==
  ASSUME JobsTyped, NEW w \in Workers, NEW words, Failure(w, words)
  PROVE  Alert(w)
BY FinishIsAlert, CallIsAlert DEF Failure, Raise

-----------------------------------------------------------------------------
(* Each action keeps Cooldown *)

LEMMA CallsKeepCooldown ==
  ASSUME ExtractAssumption, JobsTyped, Cooldown, NEW w \in Workers, Answer(w)
  PROVE  Cooldown'
<1>1. CASE \/ DescribedInaccessible(w) \/ DescribedUpcoming(w) \/ Described(w)
           \/ Downloaded(w) \/ AudioDownloaded(w)
  BY <1>1, Cleared
  DEF DescribedInaccessible, DescribedUpcoming, Described, Downloaded, AudioDownloaded,
      Succeeds
<1>2. CASE TooManyRequests(w)
  <2>1. Alert(w)
    BY <1>2 DEF TooManyRequests, Goto, Alert, JobsTyped
  <2> QED
    BY <1>2, <2>1, AlertKeeps DEF TooManyRequests
<1>3. CASE Fails(w)
  BY <1>3, FailureIsAlert, AlertKeeps DEF Fails
<1> QED
  BY <1>1, <1>2, <1>3 DEF Answer

LEMMA WorkersKeepCooldown ==
  ASSUME ExtractAssumption, JobsTyped, Cooldown, NEW w \in Workers,
         Proceed(w) \/ StageFails(w)
  PROVE  Cooldown'
<1>1. CASE WaitYtCooldown(w)
  <2>1. \A u \in Workers \ {w} : pc'[u] = pc[u] /\ wait'[u] = wait[u]
    BY <1>1 DEF WaitYtCooldown, Goto, JobsTyped
  <2>2. pc'[w] = "asleep" => wait'[w] >= cooldown.left
    <3>1. CASE InForce
      BY <1>1, <3>1 DEF WaitYtCooldown, Goto, Jitter, JobsTyped, Cooldown, FileTyped
    <3>2. CASE ~InForce
      BY <1>1, <3>2 DEF WaitYtCooldown, Goto, JobsTyped
    <3> QED
      BY <3>1, <3>2
  <2>3. cooldown' = cooldown /\ defied' = defied
    BY <1>1 DEF WaitYtCooldown
  <2>4. wait' \in [Workers -> Int]
    BY <1>1 DEF WaitYtCooldown, Jitter, JobsTyped, Cooldown, FileTyped
  <2>5. Restless' \subseteq Restless
    BY <2>1, <2>2, <2>3, <2>4 DEF Restless, Cooldown, FileTyped
  <2> QED
    BY <2>3, <2>5, NoNewRestless
<1>2. CASE WakeUp(w)
  <2>1. Restless' = Restless \ {w}
    BY <1>2 DEF WakeUp, Goto, Restless, JobsTyped
  <2>2. IsFiniteSet(Restless) /\ Cardinality(Restless) \in Nat
    BY RestlessFinite
  <2>3. CASE InForce
    <3>1. w \in Restless
      BY <1>2, <2>3 DEF WakeUp, InForce, Restless, Cooldown, FileTyped
    <3>2. Cardinality(Restless') = Cardinality(Restless) - 1
      BY <2>1, <2>2, <3>1, FS_RemoveElement
    <3>3. Cardinality(Workers) \in Nat
      BY RestlessFinite
    <3> QED
      BY <1>2, <2>2, <2>3, <3>2, <3>3 DEF WakeUp, Cooldown, FileTyped, Defiance, InForce
  <2>4. CASE ~InForce
    BY <1>2, <2>4 DEF WakeUp, Cooldown, FileTyped, Defiance, InForce
  <2> QED
    BY <2>3, <2>4
<1>3. CASE SetYtCooldown(w)
  BY <1>3, FailureIsAlert, Written DEF SetYtCooldown
<1>4. CASE TimesOut(w)
  BY <1>4, FailureIsAlert, AlertKeeps DEF TimesOut
<1>5. CASE Transcribe(w)
  BY <1>5, FinishIsAlert, AlertKeeps DEF Transcribe
<1>6. CASE StageFails(w)
  BY <1>6, FinishIsAlert, AlertKeeps DEF StageFails, Raise
<1> QED
  BY <1>1, <1>2, <1>3, <1>4, <1>5, <1>6 DEF Proceed

LEMMA TimeKeepsCooldown ==
  ASSUME ExtractAssumption, JobsTyped, Cooldown, Tick
  PROVE  Cooldown'
<1>1. CASE ~InForce
  BY <1>1 DEF Tick, InForce, Cooldown, FileTyped, Defiance
<1>2. CASE InForce
  <2>1. cooldown' = [cooldown EXCEPT !.left = @ - 1]
    BY <1>2 DEF Tick
  <2>2. cooldown'.left = cooldown.left - 1 /\ cooldown'.level = cooldown.level
    BY <2>1 DEF Cooldown, FileTyped
  <2>3. cooldown' \in [left : 0 .. 5, level : -1 .. 3]
    BY <1>2, <2>1 DEF Cooldown, FileTyped, InForce
  <2>4. FileTyped'
    <3>1. cooldown.level # -1 => Backoff[cooldown.level + 1] \in 1 .. 5
      BY Levels DEF Cooldown, FileTyped
    <3> QED
      BY <1>2, <2>2, <2>3, <3>1 DEF Tick, Cooldown, FileTyped, InForce
  <2>5. CASE cooldown'.left = 0
    BY <2>4, <2>5 DEF Tick, Cooldown, Defiance, InForce
  <2>6. CASE cooldown'.left # 0
    <3>1. defied' = defied
      BY <2>6 DEF Tick
    <3>2. Restless' \subseteq Restless
      BY <2>2 DEF Tick, Restless, JobsTyped, Cooldown, FileTyped
    <3>3. IsFiniteSet(Restless) /\ Cardinality(Restless) \in Nat
      BY RestlessFinite
    <3>4. IsFiniteSet(Restless') /\ Cardinality(Restless') <= Cardinality(Restless)
      BY <3>2, <3>3, FS_Subset
    <3>5. Cardinality(Restless') \in Nat /\ Cardinality(Workers) \in Nat
      BY <3>4, RestlessFinite, FS_CardinalityType
    <3>6. InForce'
      BY <2>3, <2>6 DEF InForce
    <3>7. defied + Cardinality(Restless) < Cardinality(Workers) /\ defied \in Nat
      BY <1>2 DEF Cooldown, FileTyped, Defiance
    <3>8. defied' + Cardinality(Restless') < Cardinality(Workers)
      BY <3>1, <3>3, <3>4, <3>5, <3>7
    <3> QED
      BY <2>4, <3>6, <3>8 DEF Cooldown, Defiance
  <2> QED
    BY <2>5, <2>6
<1> QED
  BY <1>1, <1>2

LEMMA OthersKeepCooldown ==
  ASSUME ExtractAssumption, JobsTyped, Cooldown,
         \/ \E w \in Workers, v \in Videos : Begin(w, v)
         \/ \E v \in Videos : Premiere(v)
  PROVE  Cooldown'
<1>1. ASSUME NEW w \in Workers, NEW v \in Videos, Begin(w, v)
      PROVE  Cooldown'
  <2>1. Alert(w)
    BY <1>1 DEF Begin, Goto, Alert, JobsTyped
  <2> QED
    BY <1>1, <2>1, AlertKeeps DEF Begin
<1>2. ASSUME NEW v \in Videos, Premiere(v)
      PROVE  Cooldown'
  <2>1. Restless' \subseteq Restless
    BY <1>2 DEF Premiere, workerVars, Restless
  <2> QED
    BY <1>2, <2>1, NoNewRestless DEF Premiere
<1> QED
  BY <1>1, <1>2

-----------------------------------------------------------------------------
(* Theorems *)

ExtractInv == Jobs /\ Cooldown

LEMMA InitExtract ==
  ASSUME ExtractAssumption, ExtractInit
  PROVE  ExtractInv
<1>1. Jobs
  BY DEF ExtractAssumption, ExtractInit, Jobs, JobsTyped, JobsStaged, Statuses,
         SpeechIsNotSkipped
<1>2. Cooldown
  BY DEF ExtractInit, NoFile, Cooldown, FileTyped, Defiance, InForce
<1> QED
  BY <1>1, <1>2 DEF ExtractInv

LEMMA StepExtract ==
  ASSUME ExtractAssumption, ExtractInv, [ExtractNext]_vars
  PROVE  ExtractInv'
<1>0. Jobs /\ JobsTyped /\ FileTyped /\ Cooldown
  BY DEF ExtractInv, Jobs, Cooldown
<1>1. CASE Tick
  BY <1>0, <1>1, OthersKeepJobs, TimeKeepsCooldown DEF ExtractInv
<1>2. ASSUME NEW w \in Workers, Answer(w)
      PROVE  ExtractInv'
  BY <1>0, <1>2, CallsKeepJobs, CallsKeepCooldown DEF ExtractInv
<1>3. ASSUME NEW w \in Workers, Proceed(w) \/ StageFails(w)
      PROVE  ExtractInv'
  BY <1>0, <1>3, WorkersKeepJobs, WorkersKeepCooldown DEF ExtractInv
<1>4. CASE \/ \E w \in Workers, v \in Videos : Begin(w, v)
           \/ \E v \in Videos : Premiere(v)
  BY <1>0, <1>4, OthersKeepJobs, OthersKeepCooldown DEF ExtractInv
<1>5. CASE UNCHANGED vars
  <2>1. Jobs'
    BY <1>0, <1>5
    DEF vars, workerVars, Jobs, JobsTyped, JobsStaged, SpeechIsNotSkipped
  <2>2. Restless' = Restless
    BY <1>5 DEF vars, workerVars, Restless
  <2>3. Cooldown'
    BY <1>0, <1>5, <2>2 DEF vars, Cooldown, FileTyped, Defiance, InForce
  <2> QED
    BY <2>1, <2>3 DEF ExtractInv
<1> QED
  BY <1>1, <1>2, <1>3, <1>4, <1>5 DEF ExtractNext

LEMMA AlwaysExtractInv == ExtractSpec => []ExtractInv
  BY ExtractAssumption, InitExtract, StepExtract, PTL DEF ExtractSpec

\* The types of the state; and only a public video that is long enough is asked
\* for subtitles or audio (the gates of extract_transcript).
THEOREM ExtractTypeCorrect == ExtractSpec => []ExtractTypeOK
<1>1. ExtractInv => ExtractTypeOK
  BY TypeParts DEF ExtractInv, Cooldown
<1> QED
  BY <1>1, AlwaysExtractInv, PTL

\* However calls, failures, timeouts and rate limits follow one another, a video
\* with speech is never set aside as one without captions.
THEOREM SpeechIsHeard == ExtractSpec => []SpeechIsNotSkipped
<1>1. ExtractInv => SpeechIsNotSkipped
  BY DEF ExtractInv, Jobs
<1> QED
  BY <1>1, AlwaysExtractInv, PTL

\* For any number of workers that share the cooldown file, fewer of them than
\* there are call during a cooldown that had them wait (_wait_yt_cooldown).
THEOREM CooldownsHold == ExtractSpec => []FewDefyACooldown
<1>1. ExtractInv => FewDefyACooldown
  BY ExtractAssumption, RestlessFinite
  DEF ExtractInv, Cooldown, FileTyped, Defiance, FewDefyACooldown
<1> QED
  BY <1>1, AlwaysExtractInv, PTL
=============================================================================
