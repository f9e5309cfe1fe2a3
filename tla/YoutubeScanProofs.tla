-------------------------- MODULE YoutubeScanProofs --------------------------
(***************************************************************************)
(* Theorems about YoutubeScan, for every number of sources, overlapping    *)
(* scans and videos, every page size and page limit, and every buffer that *)
(* is not shorter than the delay with which YouTube lists a video.         *)
(***************************************************************************)
EXTENDS YoutubeScan, FiniteSetTheorems, TLAPS

\* Every video of the channel that a scan from checkpoint t will not look for has
\* its item.
Covered(c, t) ==
    \A v \in listed[c] \cup hidden[c] : v < t - Buffer => item[c][v] # "none"

HasMax(S) == \E m \in S : \A v \in S : v <= m

Listing ==
    \A c \in Sources :
        /\ hidden[c] \cup listed[c] \subseteq 1 .. clock
        /\ \A v \in hidden[c] : clock - v <= Delay
        /\ listed[c] # {} => HasMax(listed[c])

\* The checkpoints that scans have loaded are as good as the present ones.
Loaded ==
    \A s \in Scans, c \in Sources :
        /\ scan[s].loaded[c] <= clock
        /\ ~capped[c] => Covered(c, scan[s].loaded[c])

\* What has been read leaves no video out, but for those that the buffer will
\* bring in.
Contiguous(c, got) ==
    \A v \in listed[c] : \A u, w \in got : u <= v /\ v < w - Buffer => v \in got

Complete(c, got) ==
    \A v \in listed[c] \cup hidden[c] : \A w \in got :
        v < w - Buffer => v \in got \/ item[c][v] # "none"

Stored(c, got) ==
    /\ \A w \in got : item[c][w] # "none"
    /\ ~capped[c] => \A w \in got : Covered(c, w)

Reading(s) ==
    LET c == scan[s].source
        got == scan[s].got
    IN  /\ scan[s].pc \in {"pages", "insert", "checkpoint"} =>
              c \in Sources /\ got \subseteq listed[c]
        /\ scan[s].pc \in {"idle", "next"} => got = {} /\ scan[s].pages = 0
        /\ got # {} => HasMax(got)
        /\ scan[s].pc = "pages" => scan[s].pages < PageLimit(s) /\ Contiguous(c, got)
        /\ scan[s].pc = "insert" => got # {} /\ (~capped[c] => Complete(c, got))
        /\ scan[s].pc = "checkpoint" => got # {} /\ Stored(c, got)

\* The inductive invariant.
ScanInv ==
    /\ ScanTypeOK
    /\ Listing
    /\ Loaded
    /\ \A s \in Scans : Reading(s)
    /\ NoGap

-----------------------------------------------------------------------------
(* Type correctness *)

LEMMA NextCases ==
  ASSUME ScanNext
  PROVE  \/ Publish
         \/ \E c \in Sources, v \in Videos : List(c, v)
         \/ \E c \in Sources : Claim(c)
         \/ \E c \in Sources : RestartSource(c)
         \/ \E s \in Scans : StartCronJob(s)
         \/ \E s \in Scans : NextSource(s)
         \/ \E s \in Scans : PollPage(s)
         \/ \E s \in Scans : InsertItems(s)
         \/ \E s \in Scans : AdvanceCheckpoint(s)
         \/ \E s \in Scans : FinishScan(s)
         \/ \E s \in Scans : CallFails(s)
         \/ \E s \in Scans : QuotaExceeded(s)
         \/ \E s \in Scans : Die(s)
  BY Zenon DEF ScanNext, Advance

LEMMA InitInv == ScanInit => ScanInv
<1> SUFFICES ASSUME ScanInit PROVE ScanInv
  OBVIOUS
<1>1. ScanTypeOK
  BY ScanAssumption
  DEF ScanInit, ScanTypeOK, ScanStates, NoScan, Videos, Statuses, NoSource
<1>2. Listing /\ Loaded
  BY ScanAssumption DEF ScanInit, Listing, Loaded, Covered, NoScan
<1>3. ASSUME NEW s \in Scans PROVE Reading(s)
  BY <1>3 DEF ScanInit, Reading, NoScan
<1>4. NoGap
  BY ScanAssumption DEF ScanInit, NoGap
<1> QED
  BY <1>1, <1>2, <1>3, <1>4 DEF ScanInv

\* Who publishes a video leaves every scan and every checkpoint where it is.
LEMMA PublishKeeps ==
  ASSUME ScanInv, Publish
  PROVE  ScanInv'
<1> USE ScanAssumption
<1>1. ScanTypeOK'
  BY DEF ScanInv, ScanTypeOK, Publish, Videos, Listing
<1>2. Listing'
  <2> SUFFICES ASSUME NEW c \in Sources
               PROVE  /\ hidden'[c] \cup listed'[c] \subseteq 1 .. clock'
                      /\ \A v \in hidden'[c] : clock' - v <= Delay
                      /\ listed'[c] # {} => HasMax(listed'[c])
    BY DEF Listing
  <2>1. hidden'[c] \cup listed'[c] \subseteq 1 .. clock'
    BY DEF ScanInv, ScanTypeOK, Publish, Videos, Listing
  <2>2. \A v \in hidden'[c] : clock' - v <= Delay
    BY DEF ScanInv, ScanTypeOK, Publish, Videos, Listing
  <2>3. listed'[c] # {} => HasMax(listed'[c])
    <3>1. CASE clock + 1 \in listed'[c]
      <4>1. \A v \in listed'[c] : v <= clock + 1
        BY <2>1 DEF ScanInv, ScanTypeOK, Publish
      <4> QED
        BY <3>1, <4>1 DEF HasMax
    <3>2. CASE clock + 1 \notin listed'[c]
      <4>1. listed'[c] = listed[c]
        BY <3>2 DEF ScanInv, ScanTypeOK, Publish
      <4> QED
        BY <4>1 DEF ScanInv, Listing
    <3> QED
      BY <3>1, <3>2
  <2> QED
    BY <2>1, <2>2, <2>3
<1>3. ASSUME NEW c \in Sources
      PROVE  /\ listed'[c] \cup hidden'[c] \subseteq listed[c] \cup hidden[c] \cup {clock + 1}
             /\ \A v \in listed'[c] : v \in listed[c] \/ v = clock + 1
             /\ listed[c] \subseteq listed'[c]
  BY DEF ScanInv, ScanTypeOK, Publish
<1>4. ASSUME NEW c \in Sources, NEW t \in Int, t <= clock, Covered(c, t)
      PROVE  Covered(c, t)'
  BY <1>3, <1>4 DEF Covered, ScanInv, ScanTypeOK, Publish, Videos
<1>5. Loaded'
  <2> SUFFICES ASSUME NEW s \in Scans, NEW c \in Sources
               PROVE  /\ scan'[s].loaded[c] <= clock'
                      /\ ~capped'[c] => Covered(c, scan[s].loaded[c])'
    BY DEF Loaded, Publish
  <2>1. scan[s].loaded[c] \in Int
    BY DEF ScanInv, ScanTypeOK, ScanStates
  <2>2. scan[s].loaded[c] <= clock /\ (~capped[c] => Covered(c, scan[s].loaded[c]))
    BY DEF ScanInv, Loaded
  <2> QED
    BY <2>1, <2>2, <1>4 DEF Publish, ScanInv, ScanTypeOK
<1>6. ASSUME NEW s \in Scans PROVE Reading(s)'
  <2> DEFINE c == scan[s].source
             got == scan[s].got
  <2>1. Reading(s)
    BY DEF ScanInv
  <2>2. scan' = scan /\ item' = item /\ capped' = capped
    BY DEF Publish
  <2>3. CASE scan[s].pc \in {"idle", "next"}
    BY <2>1, <2>2, <2>3 DEF Reading, HasMax
  <2>4. CASE scan[s].pc \in {"pages", "insert", "checkpoint"}
    <3>1. c \in Sources /\ got \subseteq listed[c] /\ got \subseteq 1 .. clock
      BY <2>1, <2>4 DEF Reading, ScanInv, Listing
    <3>2. got \subseteq listed'[c]
      BY <3>1, <1>3
    <3>3. Contiguous(c, got) => Contiguous(c, got)'
      BY <3>1, <1>3, <2>2 DEF Contiguous, ScanInv, ScanTypeOK
    <3>4. Complete(c, got) => Complete(c, got)'
      BY <3>1, <1>3, <2>2 DEF Complete, ScanInv, ScanTypeOK
    <3>5. Stored(c, got) => Stored(c, got)'
      BY <3>1, <1>4, <2>2 DEF Stored
    <3>6. PageLimit(s)' = PageLimit(s)
      BY <2>2 DEF PageLimit, Since
    <3> QED
      BY <2>1, <2>2, <2>4, <3>1, <3>2, <3>3, <3>4, <3>5, <3>6 DEF Reading
  <2> QED
    BY <2>3, <2>4 DEF ScanInv, ScanTypeOK, ScanStates
<1>7. NoGap'
  <2> SUFFICES ASSUME NEW c \in Sources, ~capped[c]
               PROVE  Covered(c, checkpoint[c])'
    BY DEF NoGap, Covered, Publish
  <2>1. checkpoint[c] <= clock /\ checkpoint[c] \in Int
    BY DEF ScanInv, ScanTypeOK, Listing, Videos
  <2>2. Covered(c, checkpoint[c])
    BY DEF ScanInv, NoGap, Covered
  <2> QED
    BY <2>1, <2>2, <1>4 DEF Publish
<1> QED
  BY <1>1, <1>2, <1>5, <1>6, <1>7 DEF ScanInv

\* A video that is listed late lies within the buffer of whatever was found.
LEMMA ListKeeps ==
  ASSUME ScanInv, NEW c0 \in Sources, NEW v0 \in Videos, List(c0, v0)
  PROVE  ScanInv'
<1> USE ScanAssumption
<1>1. ScanTypeOK'
  BY DEF ScanInv, ScanTypeOK, List
<1>2. ASSUME NEW c \in Sources
      PROVE  /\ listed'[c] \cup hidden'[c] = listed[c] \cup hidden[c]
             /\ listed[c] \subseteq listed'[c]
             /\ \A v \in listed'[c] : v \in listed[c] \/ (v = v0 /\ v0 \in hidden[c])
             /\ hidden'[c] \subseteq hidden[c]
  BY DEF ScanInv, ScanTypeOK, List
<1>3. Listing'
  <2> SUFFICES ASSUME NEW c \in Sources
               PROVE  /\ hidden'[c] \cup listed'[c] \subseteq 1 .. clock'
                      /\ \A v \in hidden'[c] : clock' - v <= Delay
                      /\ listed'[c] # {} => HasMax(listed'[c])
    BY DEF Listing
  <2>1. hidden'[c] \cup listed'[c] \subseteq 1 .. clock'
    BY <1>2 DEF ScanInv, Listing, List
  <2>2. \A v \in hidden'[c] : clock' - v <= Delay
    BY <1>2 DEF ScanInv, Listing, List
  <2>3. ASSUME listed'[c] # {} PROVE HasMax(listed'[c])
    <3>1. CASE listed[c] = {}
      BY <1>2, <2>1, <2>3, <3>1 DEF HasMax
    <3>2. CASE listed[c] # {}
      <4>1. PICK m \in listed[c] : \A v \in listed[c] : v <= m
        BY <3>2 DEF ScanInv, Listing, HasMax
      <4>2. m \in listed'[c] /\ m \in Int /\ v0 \in Int
        BY <1>2, <4>1 DEF ScanInv, Listing, Videos
      <4>3. CASE \A v \in listed'[c] : v <= m
        BY <4>2, <4>3 DEF HasMax
      <4>4. CASE ~\A v \in listed'[c] : v <= m
        <5>1. v0 \in listed'[c] /\ ~(v0 <= m)
          BY <1>2, <4>1, <4>4
        <5>2. \A v \in listed'[c] : v <= v0
          <6> TAKE v \in listed'[c]
          <6>1. v = v0 \/ v <= m
            BY <1>2, <4>1
          <6>2. v \in Int
            BY <2>1
          <6> QED
            BY <4>2, <5>1, <6>1, <6>2
        <5> QED
          BY <5>1, <5>2 DEF HasMax
      <4> QED
        BY <4>3, <4>4
    <3> QED
      BY <3>1, <3>2
  <2> QED
    BY <2>1, <2>2, <2>3
<1>4. ASSUME NEW c \in Sources, NEW t PROVE Covered(c, t) => Covered(c, t)'
  BY <1>2 DEF Covered, List
<1>5. Loaded' /\ NoGap'
  BY <1>2 DEF ScanInv, Loaded, NoGap, Covered, List
<1>6. ASSUME NEW s \in Scans PROVE Reading(s)'
  <2> DEFINE c == scan[s].source
             got == scan[s].got
  <2>1. Reading(s)
    BY DEF ScanInv
  <2>2. scan' = scan /\ item' = item /\ capped' = capped
    BY DEF List
  <2>3. CASE scan[s].pc \in {"idle", "next"}
    BY <2>1, <2>2, <2>3 DEF Reading, HasMax
  <2>4. CASE scan[s].pc \in {"pages", "insert", "checkpoint"}
    <3>1. c \in Sources /\ got \subseteq listed[c] /\ got \subseteq 1 .. clock
      BY <2>1, <2>4 DEF Reading, ScanInv, Listing
    <3>2. got \subseteq listed'[c]
      BY <3>1, <1>2
    <3>3. Contiguous(c, got) => Contiguous(c, got)'
      <4>1. \A w \in got : v0 \in hidden[c] => ~(v0 < w - Buffer)
        BY <3>1 DEF ScanInv, ScanTypeOK, Listing, Videos
      <4> QED
        BY <3>1, <4>1, <1>2, <2>2 DEF Contiguous
    <3>4. Complete(c, got) => Complete(c, got)'
      BY <3>1, <1>2, <2>2 DEF Complete
    <3>5. Stored(c, got) => Stored(c, got)'
      BY <3>1, <1>4, <2>2 DEF Stored
    <3>6. PageLimit(s)' = PageLimit(s)
      BY <2>2 DEF PageLimit, Since
    <3> QED
      BY <2>1, <2>2, <2>4, <3>1, <3>2, <3>3, <3>4, <3>5, <3>6 DEF Reading
  <2> QED
    BY <2>3, <2>4 DEF ScanInv, ScanTypeOK, ScanStates
<1> QED
  BY <1>1, <1>3, <1>5, <1>6 DEF ScanInv

\* What the scans rely on when only statuses and limits change: an item is never
\* taken away, a limit never forgotten.
LEMMA MonotoneKeeps ==
  ASSUME ScanInv, UNCHANGED channelVars,
         \A c \in Sources : capped[c] => capped'[c],
         \A c \in Sources, v \in Videos : item[c][v] # "none" => item'[c][v] # "none"
  PROVE  /\ Listing'
         /\ \A c \in Sources, t \in Int : Covered(c, t) => Covered(c, t)'
         /\ \A s \in Scans : scan'[s] = scan[s] => Reading(s)'
         /\ scan' = scan => Loaded'
         /\ checkpoint' = checkpoint => NoGap'
<1> USE ScanAssumption
<1>1. clock' = clock /\ hidden' = hidden /\ listed' = listed
  BY DEF channelVars
<1>2. Listing'
  BY <1>1 DEF ScanInv, Listing, HasMax
<1>3. ASSUME NEW c \in Sources, NEW t \in Int, Covered(c, t) PROVE Covered(c, t)'
  BY <1>1, <1>3 DEF Covered, ScanInv, ScanTypeOK
<1>4. ASSUME NEW s \in Scans, scan'[s] = scan[s] PROVE Reading(s)'
  <2> DEFINE c == scan[s].source
             got == scan[s].got
  <2>1. Reading(s)
    BY DEF ScanInv
  <2>2. PageLimit(s)' = PageLimit(s)
    BY <1>4 DEF PageLimit, Since
  <2>3. CASE scan[s].pc \in {"idle", "next"}
    BY <2>1, <1>4, <2>3 DEF Reading, HasMax
  <2>4. CASE scan[s].pc \in {"pages", "insert", "checkpoint"}
    <3>1. c \in Sources /\ got \subseteq listed[c] /\ got \subseteq 1 .. clock
          /\ listed[c] \subseteq Videos /\ hidden[c] \subseteq Videos
      BY <2>1, <2>4 DEF Reading, ScanInv, Listing, ScanTypeOK
    <3>2. Contiguous(c, got) => Contiguous(c, got)'
      BY <1>1, <1>4 DEF Contiguous
    <3>3. Complete(c, got) => Complete(c, got)'
      BY <3>1, <1>1, <1>4 DEF Complete
    <3>4. Stored(c, got) => Stored(c, got)'
      BY <3>1, <1>1, <1>3, <1>4 DEF Stored
    <3> QED
      BY <2>1, <1>1, <1>4, <2>2, <2>4, <3>1, <3>2, <3>3, <3>4 DEF Reading
  <2> QED
    BY <2>3, <2>4 DEF ScanInv, ScanTypeOK, ScanStates
<1>5. ASSUME scan' = scan PROVE Loaded'
  BY <1>1, <1>5 DEF ScanInv, ScanTypeOK, ScanStates, Loaded, Covered
<1>6. ASSUME checkpoint' = checkpoint PROVE NoGap'
  BY <1>1, <1>6 DEF ScanInv, ScanTypeOK, NoGap, Covered
<1> QED
  BY <1>2, <1>3, <1>4, <1>5, <1>6

-----------------------------------------------------------------------------
(* The workers, the administrator and the ends of a scan *)

\* The type invariant of a step that changes which statuses the items have, but
\* not which items there are.
LEMMA StatusesTyped ==
  ASSUME ScanTypeOK, UNCHANGED <<channelVars, checkpoint, capped>>,
         scan' \in [Scans -> ScanStates], faults' \in 0 .. MaxFaults,
         item' \in [Sources -> [Videos -> Statuses]],
         \A c \in Sources, v \in Videos : item'[c][v] # "none" <=> item[c][v] # "none"
  PROVE  ScanTypeOK'
<1>1. clock' = clock /\ hidden' = hidden /\ listed' = listed
  BY DEF channelVars
<1>2. ASSUME NEW c \in Sources
      PROVE  /\ \A v \in Videos : item'[c][v] # "none" => v \in listed'[c]
             /\ checkpoint'[c] # 0 => item'[c][checkpoint'[c]] # "none"
  BY <1>1, ScanAssumption DEF ScanTypeOK, Videos
<1> QED
  BY <1>1, <1>2 DEF ScanTypeOK

LEMMA ClaimKeeps ==
  ASSUME ScanInv, NEW c0 \in Sources, Claim(c0)
  PROVE  ScanInv'
<1>1. item' \in [Sources -> [Videos -> Statuses]]
  BY Zenon DEF ScanInv, ScanTypeOK, Claim, Statuses
<1>2. \A c \in Sources, v \in Videos : item'[c][v] # "none" <=> item[c][v] # "none"
  BY DEF ScanInv, ScanTypeOK, Claim
<1>3. ScanTypeOK'
  BY <1>1, <1>2, StatusesTyped DEF ScanInv, ScanTypeOK, Claim
<1> QED
  BY <1>2, <1>3, MonotoneKeeps DEF ScanInv, Claim

LEMMA RestartKeeps ==
  ASSUME ScanInv, NEW c0 \in Sources, RestartSource(c0)
  PROVE  ScanInv'
<1>1. item' \in [Sources -> [Videos -> Statuses]]
  BY Zenon DEF ScanInv, ScanTypeOK, RestartSource, Statuses
<1>2. \A c \in Sources, v \in Videos : item'[c][v] # "none" <=> item[c][v] # "none"
  BY DEF ScanInv, ScanTypeOK, RestartSource
<1>3. ScanTypeOK'
  BY <1>1, <1>2, StatusesTyped DEF ScanInv, ScanTypeOK, RestartSource
<1> QED
  BY <1>2, <1>3, MonotoneKeeps DEF ScanInv, RestartSource

LEMMA CheckpointPast ==
  ASSUME ScanTypeOK, Listing, NEW c \in Sources
  PROVE  checkpoint[c] <= clock
<1>1. CASE checkpoint[c] = 0
  BY <1>1, ScanAssumption DEF ScanTypeOK
<1>2. CASE checkpoint[c] # 0
  <2>1. checkpoint[c] \in Videos
    BY <1>2, ScanAssumption DEF ScanTypeOK, Videos
  <2>2. checkpoint[c] \in listed[c]
    BY <1>2, <2>1 DEF ScanTypeOK
  <2> QED
    BY <2>2, ScanAssumption DEF ScanTypeOK, Listing
<1> QED
  BY <1>1, <1>2

\* Only one scan has moved, and what it has loaded was a checkpoint.
LEMMA OneScanKeeps ==
  ASSUME ScanInv, ScanTypeOK', UNCHANGED channelVars, checkpoint' = checkpoint,
         \A c \in Sources : capped[c] => capped'[c],
         \A c \in Sources, v \in Videos : item[c][v] # "none" => item'[c][v] # "none",
         NEW s0 \in Scans, NEW record, scan' = [scan EXCEPT ![s0] = record],
         \/ record.loaded = scan[s0].loaded
         \/ record.loaded = checkpoint
         \/ record.loaded = [c \in Sources |-> 0],
         Reading(s0)'
  PROVE  ScanInv'
<1> USE ScanAssumption
<1>1. Listing' /\ NoGap'
  BY MonotoneKeeps
<1>2. scan \in [Scans -> ScanStates]
  BY DEF ScanInv, ScanTypeOK
<1>3. ASSUME NEW s \in Scans PROVE Reading(s)'
  <2>1. CASE s = s0
    BY <2>1
  <2>2. CASE s # s0
    <3>1. scan'[s] = scan[s]
      BY <1>2, <2>2
    <3> QED
      BY <3>1, MonotoneKeeps
  <2> QED
    BY <2>1, <2>2
<1>4. Loaded'
  <2> SUFFICES ASSUME NEW s \in Scans, NEW c \in Sources
               PROVE  /\ scan'[s].loaded[c] <= clock'
                      /\ ~capped'[c] => Covered(c, scan[s].loaded[c])'
    BY DEF Loaded
  <2>1. clock' = clock /\ listed' = listed /\ hidden' = hidden
    BY DEF channelVars
  <2>2. /\ listed[c] \subseteq Videos /\ hidden[c] \subseteq Videos /\ Videos \subseteq Nat
        /\ checkpoint[c] \in 0 .. MaxClock /\ clock \in 0 .. MaxClock
    BY DEF ScanInv, ScanTypeOK, Videos
  <2>3. CASE s # s0 \/ record.loaded = scan[s0].loaded
    <3>1. scan'[s].loaded = scan[s].loaded
      BY <1>2, <2>3
    <3>2. scan[s].loaded[c] <= clock /\ (~capped[c] => Covered(c, scan[s].loaded[c]))
      BY DEF ScanInv, Loaded
    <3> QED
      BY <2>1, <2>2, <3>1, <3>2 DEF Covered
  <2>4. CASE s = s0 /\ record.loaded = checkpoint
    <3>1. scan'[s].loaded = checkpoint
      BY <1>2, <2>4
    <3>2. checkpoint[c] <= clock
      BY <2>2, CheckpointPast DEF ScanInv
    <3>3. ~capped[c] => \A v \in listed[c] \cup hidden[c] :
                            v < checkpoint[c] - Buffer => item[c][v] # "none"
      BY DEF ScanInv, NoGap
    <3> QED
      BY <2>1, <2>2, <3>1, <3>2, <3>3 DEF Covered
  <2>5. CASE s = s0 /\ record.loaded = [x \in Sources |-> 0]
    <3>1. scan'[s].loaded[c] = 0
      BY <1>2, <2>5
    <3>2. \A v \in Videos : ~(v < 0 - Buffer)
      BY <2>2
    <3>3. Covered(c, scan[s].loaded[c])'
      BY <2>1, <2>2, <3>1, <3>2 DEF Covered
    <3> QED
      BY <2>1, <2>2, <3>1, <3>3
  <2> QED
    BY <2>3, <2>4, <2>5
<1> QED
  BY <1>1, <1>3, <1>4 DEF ScanInv

LEMMA NoScanTyped == NoScan \in ScanStates
  BY ScanAssumption DEF NoScan, ScanStates

LEMMA StartKeeps ==
  ASSUME ScanInv, NEW s \in Scans, StartCronJob(s)
  PROVE  ScanInv'
<1>1. PICK missed \in BOOLEAN : scan' = [scan EXCEPT ![s] =
        [NoScan EXCEPT !.pc = "next", !.backfill = missed,
                       !.todo = Sources, !.loaded = checkpoint]]
  BY DEF StartCronJob
<1> DEFINE record == [NoScan EXCEPT !.pc = "next", !.backfill = missed,
                                    !.todo = Sources, !.loaded = checkpoint]
<1>2. record \in ScanStates
  BY NoScanTyped DEF ScanStates, ScanInv, ScanTypeOK
<1>3. scan'[s] = record /\ record.pc = "next" /\ record.got = {}
      /\ record.pages = 0 /\ record.loaded = checkpoint
  BY <1>1 DEF NoScan, ScanInv, ScanTypeOK
<1>4. ScanTypeOK'
  BY <1>1, <1>2 DEF StartCronJob, ScanInv, ScanTypeOK, channelVars
<1>5. Reading(s)'
  BY <1>3 DEF Reading
<1> HIDE DEF record
<1> QED
  BY <1>1, <1>3, <1>4, <1>5, OneScanKeeps DEF StartCronJob, record

LEMMA NextSourceKeeps ==
  ASSUME ScanInv, NEW s \in Scans, NextSource(s)
  PROVE  ScanInv'
<1> USE ScanAssumption
<1>1. PICK c \in scan[s].todo : scan' =
        [scan EXCEPT ![s].pc = "pages", ![s].source = c, ![s].todo = @ \ {c}]
  BY DEF NextSource
<1>2. scan[s] \in ScanStates /\ c \in Sources
  BY <1>1 DEF ScanInv, ScanTypeOK, ScanStates
<1> DEFINE record == [scan[s] EXCEPT !.pc = "pages", !.source = c, !.todo = @ \ {c}]
<1>3. record \in ScanStates /\ record.loaded = scan[s].loaded
  BY <1>2 DEF ScanStates
<1>4. scan' = [scan EXCEPT ![s] = record] /\ scan'[s] = record
  BY <1>1 DEF ScanInv, ScanTypeOK
<1>5. ScanTypeOK'
  BY <1>3, <1>4 DEF NextSource, ScanInv, ScanTypeOK, channelVars
<1>6. record.got = {} /\ record.pages = 0 /\ record.source = c /\ record.pc = "pages"
  <2>1. scan[s].got = {} /\ scan[s].pages = 0
    BY DEF ScanInv, Reading, NextSource
  <2> QED
    BY <1>2, <2>1 DEF ScanStates
<1>7. Reading(s)'
  <2>1. PageLimit(s)' > 0
    BY DEF PageLimit
  <2> QED
    BY <1>2, <1>4, <1>6, <2>1 DEF Reading, Contiguous
<1> HIDE DEF record
<1> QED
  BY <1>3, <1>4, <1>5, <1>7, OneScanKeeps DEF NextSource

\* The end of a scan, regular or not.
LEMMA FinishKeeps ==
  ASSUME ScanInv, NEW s \in Scans, FinishScan(s) \/ Die(s)
  PROVE  ScanInv'
<1>1. /\ scan' = [scan EXCEPT ![s] = NoScan] /\ scan'[s] = NoScan
      /\ UNCHANGED <<channelVars, item, checkpoint, capped>>
      /\ faults' \in 0 .. MaxFaults
  BY ScanAssumption DEF FinishScan, Die, ScanInv, ScanTypeOK
<1>2. ScanTypeOK'
  BY <1>1, NoScanTyped DEF ScanInv, ScanTypeOK, channelVars
<1>3. Reading(s)'
  BY <1>1 DEF Reading, NoScan
<1>4. NoScan.loaded = [c \in Sources |-> 0]
  BY DEF NoScan
<1> QED
  BY <1>1, <1>2, <1>3, <1>4, OneScanKeeps

\* A source that fails is left behind.
LEMMA LeaveTyped ==
  ASSUME ScanTypeOK, NEW s \in Scans
  PROVE  /\ Leave(scan[s]) \in ScanStates
         /\ Leave(scan[s]).loaded = scan[s].loaded
         /\ Leave(scan[s]).pc = "next"
         /\ Leave(scan[s]).got = {} /\ Leave(scan[s]).pages = 0
<1>1. scan[s] \in ScanStates
  BY DEF ScanTypeOK
<1>2. 0 \in 0 .. MaxDailyPages + MaxBackfillPages
  BY ScanAssumption
<1>3. {} \in SUBSET Videos
  OBVIOUS
<1> QED
  BY <1>1, <1>2, <1>3 DEF ScanStates, Leave

LEMMA AbandonKeeps ==
  ASSUME ScanInv, NEW s \in Scans, CallFails(s) \/ QuotaExceeded(s)
  PROVE  ScanInv'
<1> DEFINE record == Leave(scan[s])
<1>1. /\ scan' = [scan EXCEPT ![s] = record] /\ faults' \in 0 .. MaxFaults
      /\ UNCHANGED <<channelVars, checkpoint, capped>>
  BY ScanAssumption DEF CallFails, QuotaExceeded, Abandon, ScanInv, ScanTypeOK
<1>2. scan'[s] = record /\ scan' \in [Scans -> ScanStates]
  BY <1>1, LeaveTyped DEF ScanInv, ScanTypeOK
<1>3. item' \in [Sources -> [Videos -> Statuses]]
  <2>1. item \in [Sources -> [Videos -> Statuses]]
    BY DEF ScanInv, ScanTypeOK
  <2>2. CASE CallFails(s)
    BY <2>1, <2>2 DEF CallFails
  <2>3. CASE QuotaExceeded(s)
    BY <2>1, <2>3 DEF QuotaExceeded, Statuses
  <2> QED
    BY <2>2, <2>3
<1>4. \A c \in Sources, v \in Videos : item'[c][v] # "none" <=> item[c][v] # "none"
  BY DEF ScanInv, ScanTypeOK, CallFails, QuotaExceeded
<1>5. ScanTypeOK'
  BY <1>1, <1>2, <1>3, <1>4, StatusesTyped DEF ScanInv
<1>6. Reading(s)'
  BY <1>2, LeaveTyped DEF Reading, ScanInv
<1>7. record.loaded = scan[s].loaded
  BY LeaveTyped DEF ScanInv
<1> HIDE DEF record
<1> QED
  BY <1>1, <1>4, <1>5, <1>6, <1>7, OneScanKeeps

-----------------------------------------------------------------------------
(* A source of a scan *)

\* A page is a newest part of what is unread.
LEMMA PageIsNewest ==
  ASSUME ScanInv, NEW s \in Scans, scan[s].pc = "pages"
  PROVE  /\ Page(s) \subseteq Unread(s)
         /\ Unread(s) \subseteq listed[scan[s].source]
         /\ \A p \in Page(s), v \in Unread(s) : v > p => v \in Page(s)
         /\ \A m \in Unread(s) : (\A v \in Unread(s) : v <= m) => m \in Page(s)
<1> DEFINE c == scan[s].source
           above(v) == {w \in Unread(s) : w > v}
<1>1. c \in Sources /\ listed[c] \subseteq 1 .. MaxClock
  BY DEF ScanInv, Reading, ScanTypeOK, Videos
<1>2. Unread(s) \subseteq 1 .. MaxClock
  BY <1>1 DEF Unread
<1>3. ASSUME NEW p \in Page(s), NEW v \in Unread(s), v > p PROVE v \in Page(s)
  <2>1. p \in Unread(s) /\ Cardinality(above(p)) < PageSize
    BY DEF Page
  <2>2. IsFiniteSet(above(p))
    <3>1. above(p) \in SUBSET (1 .. MaxClock) /\ IsFiniteSet(1 .. MaxClock)
      BY <1>2, FS_Interval, ScanAssumption
    <3> QED
      BY <3>1, FS_Subset
  <2>3. above(v) \in SUBSET above(p)
    BY <1>2, <1>3, <2>1
  <2>4. /\ Cardinality(above(v)) <= Cardinality(above(p))
        /\ Cardinality(above(v)) \in Nat /\ Cardinality(above(p)) \in Nat
    BY <2>2, <2>3, FS_Subset, FS_CardinalityType
  <2>5. Cardinality(above(v)) < PageSize
    BY <2>1, <2>4, ScanAssumption
  <2> QED
    BY <2>5 DEF Page
<1>4. ASSUME NEW m \in Unread(s), \A v \in Unread(s) : v <= m PROVE m \in Page(s)
  <2>1. above(m) = {}
    BY <1>2, <1>4
  <2>2. Cardinality(above(m)) < PageSize
    BY <2>1, FS_EmptySet, ScanAssumption
  <2> QED
    BY <2>2 DEF Page
<1> QED
  BY <1>3, <1>4 DEF Page, Unread

\* The cut-off is one of the published videos, or 0.
LEMMA SinceTyped ==
  ASSUME ScanInv, NEW s \in Scans, scan[s].pc = "pages"
  PROVE  /\ Since(s) \in 0 .. MaxClock
         /\ Since(s) # 0 => Since(s) = scan[s].loaded[scan[s].source]
         /\ PageLimit(s) \in Nat /\ PageLimit(s) <= MaxDailyPages + MaxBackfillPages
<1>1. scan[s] \in ScanStates /\ scan[s].source \in Sources
  BY DEF ScanInv, ScanTypeOK, Reading
<1>2. scan[s].loaded[scan[s].source] \in 0 .. MaxClock
  BY <1>1 DEF ScanStates
<1> QED
  BY <1>2, ScanAssumption DEF Since, PageLimit

LEMMA PollKeeps ==
  ASSUME ScanInv, NEW s \in Scans, PollPage(s)
  PROVE  ScanInv'
<1> DEFINE c == scan[s].source
           got == scan[s].got
           new == {v \in Page(s) : InReach(s, v)}
           rest == Unread(s) \ Page(s)
           n == scan[s].pages + 1
           past == new # Page(s)
           over == past \/ rest = {} \/ n = PageLimit(s)
           read == [scan[s] EXCEPT !.got = @ \cup new, !.pages = n]
           record == IF ~over THEN read
                     ELSE IF read.got = {} THEN Leave(scan[s])
                     ELSE [read EXCEPT !.pc = "insert"]
<1>1. /\ scan[s].pc = "pages" /\ c \in Sources /\ got \subseteq listed[c]
      /\ scan[s].pages < PageLimit(s) /\ Contiguous(c, got)
      /\ got # {} => HasMax(got)
  BY DEF PollPage, ScanInv, Reading
<1>2. scan[s] \in ScanStates /\ scan \in [Scans -> ScanStates]
  BY DEF ScanInv, ScanTypeOK
<1>3. /\ scan' = [scan EXCEPT ![s] = record]
      /\ UNCHANGED <<channelVars, item, checkpoint, faults>>
      /\ capped' = [capped EXCEPT ![c] = @ \/
            (~past /\ n = PageLimit(s) /\ \E v \in rest : InReach(s, v))]
  BY DEF PollPage
<1>4. /\ Page(s) \subseteq Unread(s) /\ Unread(s) \subseteq listed[c]
      /\ listed[c] \subseteq 1 .. MaxClock /\ hidden[c] \subseteq 1 .. MaxClock
      /\ listed[c] \subseteq 1 .. clock
  BY <1>1, PageIsNewest DEF ScanInv, ScanTypeOK, Videos, Listing
<1>5. capped' \in [Sources -> BOOLEAN] /\ \A x \in Sources : capped[x] => capped'[x]
  <2>1. capped \in [Sources -> BOOLEAN]
    BY DEF ScanInv, ScanTypeOK
  <2> HIDE DEF past, n, rest
  <2> QED
    BY <1>3, <2>1
<1>6. read \in ScanStates /\ read.got = got \cup new /\ read.pages = n
      /\ read.pc = "pages" /\ read.source = c /\ read.loaded = scan[s].loaded
  <2>1. n \in 0 .. MaxDailyPages + MaxBackfillPages
    BY <1>1, <1>2, SinceTyped, ScanAssumption DEF ScanStates
  <2>2. got \cup new \in SUBSET Videos
    BY <1>1, <1>4 DEF Videos
  <2> HIDE DEF n, new
  <2> QED
    BY <1>1, <1>2, <2>1, <2>2 DEF ScanStates
<1>7. record \in ScanStates /\ record.loaded = scan[s].loaded
  <2> HIDE DEF read, over
  <2>1. [read EXCEPT !.pc = "insert"] \in ScanStates
        /\ [read EXCEPT !.pc = "insert"].loaded = scan[s].loaded
    BY <1>6 DEF ScanStates
  <2> QED
    BY <1>6, <2>1, LeaveTyped DEF ScanInv
<1>8. ScanTypeOK'
  <2> HIDE DEF record
  <2> QED
    BY <1>2, <1>3, <1>5, <1>7 DEF ScanInv, ScanTypeOK, channelVars
<1>9. scan'[s] = record
  <2> HIDE DEF record
  <2> QED
    BY <1>2, <1>3
<1>10. got \cup new \subseteq listed[c] /\ (got \cup new # {} => HasMax(got \cup new))
  <2>1. got \cup new \subseteq listed[c]
    BY <1>1, <1>4
  <2>2. CASE got # {}
    <3>1. PICK m \in got : \A v \in got : v <= m
      BY <1>1, <2>2 DEF HasMax
    <3>2. \A v \in new : v < m
      BY <1>4, <3>1 DEF Unread
    <3>3. \A v \in got \cup new : v <= m
      BY <1>4, <2>1, <3>1, <3>2
    <3> HIDE DEF got, new
    <3> QED
      BY <2>1, <3>1, <3>3 DEF HasMax
  <2>3. CASE got = {} /\ new # {}
    <3>1. Unread(s) = listed[c]
      BY <2>3 DEF Unread
    <3>2. PICK m \in listed[c] : \A v \in listed[c] : v <= m
      BY <1>1, <1>4, <2>3 DEF ScanInv, Listing, HasMax
    <3>3. m \in Page(s)
      BY <1>1, <3>1, <3>2, PageIsNewest
    <3>4. PICK p \in new : TRUE
      BY <2>3
    <3>5. InReach(s, p) /\ p <= m /\ p \in Int /\ m \in Int /\ Since(s) \in Int
      BY <1>1, <1>4, <3>2, <3>4, SinceTyped
    <3>6. m \in new
      BY <3>3, <3>5, ScanAssumption DEF InReach
    <3> QED
      BY <1>4, <2>3, <3>2, <3>6 DEF HasMax
  <2> QED
    BY <2>1, <2>2, <2>3
\* What the page leaves unread of what the scan is to find, the limit hides.
<1>11. ASSUME over, ~capped'[c],
              NEW v \in listed[c], NEW w \in got \cup new, v < w - Buffer
       PROVE  v \in got \cup new \/ item[c][v] # "none"
  <2>0. v \in Int /\ w \in Int /\ Since(s) \in Int /\ Buffer \in Nat
    BY <1>1, <1>4, <1>10, SinceTyped, ScanAssumption
  <2>1. CASE v \notin Unread(s)
    <3>1. PICK u \in got : ~(v < u)
      BY <2>1 DEF Unread
    <3>2. u \in Int /\ u <= v
      BY <1>1, <1>4, <2>0, <3>1
    <3>3. w \in got
      BY <1>4, <1>11, <2>0, <3>1, <3>2 DEF Unread
    <3> QED
      BY <1>1, <1>11, <3>2, <3>3 DEF Contiguous
  <2>2. CASE v \in Unread(s) /\ ~InReach(s, v)
    <3>1. v < scan[s].loaded[c] - Buffer
      BY <1>1, <2>0, <2>2, SinceTyped DEF InReach
    <3>2. ~capped[c]
      BY <1>1, <1>5, <1>11
    <3> QED
      BY <1>1, <3>1, <3>2 DEF ScanInv, Loaded, Covered
  <2>3. CASE v \in Page(s) /\ InReach(s, v)
    BY <2>3
  <2>4. CASE v \in Unread(s) /\ v \notin Page(s) /\ InReach(s, v)
    <3>1. ~past
      <4>1. SUFFICES ASSUME NEW p \in Page(s), ~InReach(s, p) PROVE FALSE
        OBVIOUS
      <4>2. p \in Int /\ p \in Unread(s)
        BY <1>4
      <4>3. ~(v > p)
        BY <1>1, <2>4, <4>2, PageIsNewest
      <4> QED
        BY <2>0, <2>4, <4>1, <4>2, <4>3 DEF InReach
    <3>2. rest # {} /\ \E x \in rest : InReach(s, x)
      BY <2>4
    <3>3. n = PageLimit(s)
      BY <1>11, <3>1, <3>2
    <3>4. capped'[c]
      <4> HIDE DEF past, rest, n
      <4> QED
        BY <1>1, <1>3, <3>1, <3>2, <3>3 DEF ScanInv, ScanTypeOK
    <3> QED
      BY <1>11, <3>4
  <2> QED
    BY <2>1, <2>2, <2>3, <2>4
<1>12. ASSUME ~over PROVE Contiguous(c, got \cup new)
  <2> SUFFICES ASSUME NEW v \in listed[c], NEW u \in got \cup new, NEW w \in got \cup new,
                      u <= v, v < w - Buffer
               PROVE  v \in got \cup new
    BY DEF Contiguous
  <2>0. v \in Int /\ w \in Int /\ u \in Int /\ Buffer \in Nat
    BY <1>1, <1>4, <1>10, ScanAssumption
  <2>1. CASE v \notin Unread(s)
    <3>1. PICK x \in got : ~(v < x)
      BY <2>1 DEF Unread
    <3>2. x \in Int /\ x <= v
      BY <1>1, <1>4, <2>0, <3>1
    <3>3. w \in got
      BY <1>4, <2>0, <3>1, <3>2 DEF Unread
    <3> QED
      BY <1>1, <3>2, <3>3 DEF Contiguous
  <2>2. CASE v \in Unread(s)
    <3>1. u \in Page(s)
      BY <2>0, <2>2 DEF Unread
    <3>2. v \in Page(s)
      BY <1>1, <2>0, <2>2, <3>1, PageIsNewest
    <3> QED
      BY <1>12, <3>2
  <2> QED
    BY <2>1, <2>2
<1>13. Reading(s)'
  <2>0. listed' = listed /\ hidden' = hidden /\ item' = item /\ clock' = clock
    BY <1>3 DEF channelVars
  <2>1. CASE ~over
    <3>1. scan'[s] = read
      BY <1>9, <2>1
    <3>2. Contiguous(c, got \cup new)
      BY <1>12, <2>1
    <3> HIDE DEF read, new, got, over
    <3>3. PageLimit(s)' = PageLimit(s)
      <4>1. read.backfill = scan[s].backfill
        BY <1>2 DEF read, ScanStates
      <4> QED
        BY <1>6, <3>1, <4>1 DEF PageLimit, Since
    <3>4. n < PageLimit(s)
      <4>1. n <= PageLimit(s) /\ n # PageLimit(s)
        BY <1>1, <1>2, <2>1, SinceTyped DEF ScanStates, over
      <4> QED
        BY <1>1, <1>2, <4>1, SinceTyped DEF ScanStates
    <3>5. Contiguous(scan[s].source, scan[s].got)'
      <4>1. scan'[s].got = got \cup new /\ scan'[s].source = c
        BY <1>6, <3>1
      <4> HIDE DEF c
      <4> QED
        BY <2>0, <3>2, <4>1 DEF Contiguous
    <3> QED
      BY <1>1, <1>6, <1>10, <2>0, <3>1, <3>2, <3>3, <3>4, <3>5 DEF Reading, Contiguous, HasMax
  <2>2. CASE over /\ read.got = {}
    <3>1. scan'[s] = Leave(scan[s])
      BY <1>9, <2>2
    <3> HIDE DEF read, over, new
    <3> QED
      BY <3>1, LeaveTyped DEF Reading, ScanInv
  <2>3. CASE over /\ read.got # {}
    <3>1. scan'[s] = [read EXCEPT !.pc = "insert"]
      BY <1>9, <2>3
    <3>2. ~capped'[c] => Complete(c, got \cup new)
      <4> SUFFICES ASSUME ~capped'[c], NEW v \in listed[c] \cup hidden[c],
                          NEW w \in got \cup new, v < w - Buffer
                   PROVE  v \in got \cup new \/ item[c][v] # "none"
        BY DEF Complete
      <4>1. CASE v \in listed[c]
        BY <1>11, <2>3, <4>1
      <4>2. CASE v \in hidden[c]
        <5>1. clock - v <= Delay /\ w <= clock /\ v \in Int /\ w \in Int /\ clock \in Int
          BY <1>1, <1>4, <1>10, <4>2 DEF ScanInv, Listing, ScanTypeOK
        <5> QED
          BY <5>1, ScanAssumption
      <4> QED
        BY <4>1, <4>2
    <3> HIDE DEF read, over, new, got
    <3>3. /\ scan'[s].pc = "insert" /\ scan'[s].source = c
          /\ scan'[s].got = got \cup new
      BY <1>6, <3>1 DEF ScanStates
    <3>4. scan'[s].got # {}
      BY <1>6, <2>3, <3>3
    <3> QED
      BY <1>1, <1>10, <2>0, <3>2, <3>3, <3>4 DEF Reading, Complete, HasMax
  <2> QED
    BY <2>1, <2>2, <2>3
<1> HIDE DEF record
<1> QED
  BY <1>3, <1>5, <1>7, <1>8, <1>13, OneScanKeeps

LEMMA InsertKeeps ==
  ASSUME ScanInv, NEW s \in Scans, InsertItems(s)
  PROVE  ScanInv'
<1> DEFINE c == scan[s].source
           got == scan[s].got
           record == [scan[s] EXCEPT !.pc = "checkpoint"]
<1>1. /\ c \in Sources /\ got \subseteq listed[c] /\ got # {} /\ HasMax(got)
      /\ ~capped[c] => Complete(c, got)
  BY DEF InsertItems, ScanInv, Reading
<1>2. scan[s] \in ScanStates /\ scan \in [Scans -> ScanStates]
  BY DEF ScanInv, ScanTypeOK
<1>3. /\ scan' = [scan EXCEPT ![s] = record] /\ scan'[s] = record
      /\ UNCHANGED <<channelVars, checkpoint, capped, faults>>
      /\ item' = [item EXCEPT ![c] = [v \in Videos |->
                      IF v \in got THEN Inserted(@[v]) ELSE @[v]]]
  BY <1>2 DEF InsertItems
<1>4. /\ record \in ScanStates /\ record.pc = "checkpoint" /\ record.source = c
      /\ record.got = got /\ record.loaded = scan[s].loaded
  BY <1>2 DEF ScanStates
<1> HIDE DEF record
<1>5. /\ item' \in [Sources -> [Videos -> Statuses]]
      /\ \A x \in Sources, v \in Videos : item[x][v] # "none" => item'[x][v] # "none"
      /\ \A x \in Sources, v \in Videos :
            item'[x][v] # "none" => item[x][v] # "none" \/ (x = c /\ v \in got)
      /\ \A v \in got : item'[c][v] # "none"
  <2>1. item \in [Sources -> [Videos -> Statuses]] /\ got \subseteq Videos
    BY <1>1 DEF ScanInv, ScanTypeOK
  <2> QED
    BY <1>1, <1>3, <2>1 DEF Inserted, Statuses
<1>6. ScanTypeOK'
  <2>1. ASSUME NEW x \in Sources
        PROVE  /\ \A v \in Videos : item'[x][v] # "none" => v \in listed'[x]
               /\ checkpoint'[x] # 0 => item'[x][checkpoint'[x]] # "none"
    <3>1. checkpoint[x] # 0 => checkpoint[x] \in Videos /\ item[x][checkpoint[x]] # "none"
      BY ScanAssumption DEF ScanInv, ScanTypeOK, Videos
    <3> QED
      BY <1>1, <1>3, <1>5, <3>1 DEF ScanInv, ScanTypeOK, channelVars
  <2> QED
    BY <1>2, <1>3, <1>4, <1>5, <2>1 DEF ScanInv, ScanTypeOK, channelVars
<1>7. Stored(c, got)'
  <2>1. listed' = listed /\ hidden' = hidden /\ capped' = capped
        /\ listed[c] \subseteq Videos /\ hidden[c] \subseteq Videos
    BY <1>1, <1>3 DEF channelVars, ScanInv, ScanTypeOK
  <2>2. scan'[s].source = c /\ scan'[s].got = got
    BY <1>3, <1>4
  <2> HIDE DEF c, got
  <2> QED
    BY <1>1, <1>5, <2>1, <2>2 DEF Stored, Covered, Complete, c, got
<1>8. Reading(s)'
  <2>1. listed' = listed /\ scan'[s].pc = "checkpoint" /\ scan'[s].source = c
        /\ scan'[s].got = got
    BY <1>3, <1>4 DEF channelVars
  <2> QED
    BY <1>1, <1>7, <2>1 DEF Reading, HasMax
<1> QED
  BY <1>3, <1>4, <1>5, <1>6, <1>8, OneScanKeeps

LEMMA CheckpointKeeps ==
  ASSUME ScanInv, NEW s \in Scans, AdvanceCheckpoint(s)
  PROVE  ScanInv'
<1> DEFINE c == scan[s].source
           got == scan[s].got
           newest == Max(got)
           record == Leave(scan[s])
<1>1. c \in Sources /\ got \subseteq listed[c] /\ HasMax(got) /\ Stored(c, got)
  BY DEF AdvanceCheckpoint, ScanInv, Reading
<1>2. scan[s] \in ScanStates /\ scan \in [Scans -> ScanStates]
      /\ listed[c] \subseteq Videos /\ listed[c] \subseteq 1 .. clock
  BY <1>1 DEF ScanInv, ScanTypeOK, Listing
<1>3. newest \in got
  <2>1. PICK m \in got : \A v \in got : v <= m
    BY <1>1 DEF HasMax
  <2>2. \A v \in got : m >= v
    BY <1>1, <1>2, <2>1
  <2> QED
    BY <2>1, <2>2 DEF Max
<1>4. /\ scan' = [scan EXCEPT ![s] = record] /\ scan'[s] = record
      /\ UNCHANGED <<channelVars, item, capped, faults>>
      /\ \/ checkpoint' = checkpoint
         \/ checkpoint' = [checkpoint EXCEPT ![c] = newest]
  BY <1>2 DEF AdvanceCheckpoint, ScanInv, ScanTypeOK
<1>5. record \in ScanStates /\ record.loaded = scan[s].loaded
      /\ record.pc = "next" /\ record.got = {} /\ record.pages = 0
  BY LeaveTyped DEF ScanInv
<1> HIDE DEF record, newest
<1>6. newest \in Videos /\ item[c][newest] # "none"
      /\ (~capped[c] => Covered(c, newest))
  BY <1>1, <1>2, <1>3 DEF Stored
<1>7. ScanTypeOK'
  <2>1. /\ checkpoint' \in [Sources -> 0 .. MaxClock]
        /\ \A x \in Sources : checkpoint'[x] # 0 => item[x][checkpoint'[x]] # "none"
    <3>1. /\ checkpoint \in [Sources -> 0 .. MaxClock]
          /\ \A x \in Sources : checkpoint[x] # 0 => item[x][checkpoint[x]] # "none"
      BY DEF ScanInv, ScanTypeOK
    <3>2. newest \in 0 .. MaxClock
      BY <1>6, ScanAssumption DEF Videos
    <3> QED
      BY <1>1, <1>4, <1>6, <3>1, <3>2
  <2>2. scan' \in [Scans -> ScanStates]
    BY <1>2, <1>4, <1>5
  <2> QED
    BY <1>4, <2>1, <2>2 DEF ScanInv, ScanTypeOK, channelVars
<1>8. Listing' /\ Loaded'
  BY <1>2, <1>4, <1>5 DEF ScanInv, Listing, Loaded, Covered, channelVars, HasMax
<1>9. ASSUME NEW t \in Scans PROVE Reading(t)'
  <2>1. CASE t = s
    BY <1>4, <1>5, <2>1 DEF Reading
  <2>2. CASE t # s
    <3>1. scan'[t] = scan[t]
      BY <1>2, <1>4, <2>2
    <3> QED
      BY <1>4, <3>1, MonotoneKeeps
  <2> QED
    BY <2>1, <2>2
<1>10. NoGap'
  <2> SUFFICES ASSUME NEW x \in Sources, ~capped[x]
               PROVE  \A v \in listed[x] \cup hidden[x] :
                          v < checkpoint'[x] - Buffer => item[x][v] # "none"
    BY <1>4 DEF NoGap, channelVars
  <2>1. checkpoint'[x] = checkpoint[x] \/ (x = c /\ checkpoint'[x] = newest)
    BY <1>1, <1>4 DEF ScanInv, ScanTypeOK
  <2> QED
    BY <1>6, <2>1 DEF ScanInv, NoGap, Covered
<1> QED
  BY <1>7, <1>8, <1>9, <1>10 DEF ScanInv

-----------------------------------------------------------------------------
(* The theorems *)

LEMMA NextKeeps ==
  ASSUME ScanInv, [ScanNext]_vars
  PROVE  ScanInv'
<1>1. CASE UNCHANGED vars
  <2>1. /\ scan' = scan /\ checkpoint' = checkpoint /\ item' = item /\ capped' = capped
        /\ UNCHANGED channelVars
    BY <1>1 DEF vars
  <2>2. ScanTypeOK'
    BY <1>1 DEF vars, channelVars, ScanInv, ScanTypeOK
  <2> QED
    BY <2>1, <2>2, MonotoneKeeps DEF ScanInv
<1>2. CASE ScanNext
  BY <1>2, NextCases, PublishKeeps, ListKeeps, ClaimKeeps, RestartKeeps, StartKeeps,
     NextSourceKeeps, PollKeeps, InsertKeeps, CheckpointKeeps, FinishKeeps, AbandonKeeps
<1> QED
  BY <1>1, <1>2

LEMMA AlwaysScanInv == ScanSpec => []ScanInv
<1>1. ScanInv /\ [ScanNext]_vars => ScanInv'
  BY NextKeeps
<1> QED
  BY InitInv, <1>1, PTL DEF ScanSpec

\* Items, checkpoints and scans have their types; a checkpoint is always a video
\* that has its item.
THEOREM ScanTypeCorrect == ScanSpec => []ScanTypeOK
<1>1. ScanInv => ScanTypeOK
  BY DEF ScanInv
<1> QED
  BY AlwaysScanInv, <1>1, PTL

\* No video that YouTube lists within the buffer is ever left behind the
\* checkpoint without an item, unless a page limit hid it: neither by overlapping
\* scans that write what they compared with a stale checkpoint, nor by scans that
\* fail or die between any two steps.
THEOREM NoVideoIsSkipped == ScanSpec => []NoGap
<1>1. ScanInv => NoGap
  BY DEF ScanInv
<1> QED
  BY AlwaysScanInv, <1>1, PTL

\* A scan makes an item pending only if there was none.
THEOREM ScansKeepStatuses == ScanSpec => RescanKeepsStatus
<1>1. ASSUME ScanInv, [ScanNext]_vars
      PROVE  [\A c \in Sources, v \in Videos :
                item[c][v] # item'[c][v] /\ item'[c][v] = "pending" =>
                    item[c][v] = "none" \/ RestartSource(c)]_item
  <2> SUFFICES ASSUME item' # item, NEW c \in Sources, NEW v \in Videos,
                      item[c][v] # item'[c][v], item'[c][v] = "pending"
               PROVE  item[c][v] = "none" \/ RestartSource(c)
    OBVIOUS
  <2>0. item \in [Sources -> [Videos -> Statuses]]
    BY <1>1 DEF ScanInv, ScanTypeOK
  <2>1. ScanNext
    BY <1>1 DEF vars
  <2>2. CASE \E x \in Sources : Claim(x)
    BY <2>0, <2>2 DEF Claim
  <2>3. CASE \E x \in Sources : RestartSource(x)
    <3>1. PICK x \in Sources : RestartSource(x)
      BY <2>3
    <3>2. x = c
      BY <2>0, <3>1 DEF RestartSource
    <3> QED
      BY <3>1, <3>2
  <2>4. CASE \E s \in Scans : InsertItems(s)
    BY <2>0, <2>4 DEF InsertItems, Inserted
  <2>5. CASE \E s \in Scans : QuotaExceeded(s)
    BY <2>0, <2>5 DEF QuotaExceeded
  <2> QED
    BY <2>1, <2>2, <2>3, <2>4, <2>5, NextCases
    DEF Publish, List, StartCronJob, NextSource, PollPage, AdvanceCheckpoint, FinishScan,
        CallFails, Die
<1> QED
  BY AlwaysScanInv, <1>1, PTL DEF ScanSpec, RescanKeepsStatus
=============================================================================
