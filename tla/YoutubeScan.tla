---------------------------- MODULE YoutubeScan ----------------------------
(***************************************************************************)
(* The daily scan for new videos: _run_youtube_scan, which the cron job    *)
(* and the administrator both start, and poll_channel, which reads a       *)
(* channel's uploads page by page, newest first, back to a checkpoint.     *)
(* Scans may overlap, fail at any call and die at any step.  Each action   *)
(* is one call of the YouTube API or one commit.                           *)
(*                                                                         *)
(* Time is counted in the least distance of two videos of a channel, so    *)
(* that a video is known by its time of publication.                       *)
(***************************************************************************)
EXTENDS Integers, FiniteSets, FiniteSetsExt

CONSTANTS
    Sources,           \* active youtube sources
    Scans,             \* requests to start_cron_job that may overlap
    PageSize,          \* videos of one page
    MaxDailyPages, MaxBackfillPages,
    Buffer,            \* re-read before the checkpoint: four hours
    Delay,             \* how long YouTube may take to list a video
    MaxClock,          \* bound
    MaxFaults          \* bound

ASSUME ScanAssumption ==
    /\ PageSize \in Nat \ {0}
    /\ MaxDailyPages \in Nat \ {0} /\ MaxBackfillPages \in Nat \ {0}
    /\ Buffer \in Nat /\ Delay \in 0 .. Buffer
    /\ MaxClock \in Nat /\ MaxFaults \in Nat

VARIABLES
    clock,
    hidden,     \* hidden[c]: published, not yet in the channel's uploads
    listed,     \* listed[c]: the channel's uploads
    item,       \* item[c][v]: the status of the row of source_items
    checkpoint, \* checkpoint[c]: last_video_published_at, 0 for null
    scan,       \* scan[s]: see NoScan
    capped,     \* capped[c]: a page limit has kept a scan from older videos
    faults

channelVars == <<clock, hidden, listed>>
vars == <<channelVars, item, checkpoint, scan, capped, faults>>

Videos == 1 .. MaxClock
NoSource == "none"

\* A row is pending, or it is not: taken by a worker, or set aside.
Statuses == {"none", "pending", "other"}

\* The local state of a scan that is not under way.
NoScan ==
    [pc |-> "idle", backfill |-> FALSE,
     todo |-> {}, source |-> NoSource,       \* sources to come, and the present one
     loaded |-> [c \in Sources |-> 0],       \* the checkpoints it has read
     got |-> {}, pages |-> 0]                \* of the present source

ScanStates ==
    [pc : {"idle", "next", "pages", "insert", "checkpoint"},
     backfill : BOOLEAN, todo : SUBSET Sources, source : Sources \cup {NoSource},
     loaded : [Sources -> 0 .. MaxClock],
     got : SUBSET Videos, pages : 0 .. MaxDailyPages + MaxBackfillPages]

ScanTypeOK ==
    /\ clock \in 0 .. MaxClock
    /\ hidden \in [Sources -> SUBSET Videos] /\ listed \in [Sources -> SUBSET Videos]
    /\ item \in [Sources -> [Videos -> Statuses]]
    /\ checkpoint \in [Sources -> 0 .. MaxClock]
    /\ scan \in [Scans -> ScanStates]
    /\ capped \in [Sources -> BOOLEAN]
    /\ faults \in 0 .. MaxFaults
    \* Only what has an item is ever made a checkpoint, and only what is listed
    \* gets an item.
    /\ \A c \in Sources :
          /\ \A v \in Videos : item[c][v] # "none" => v \in listed[c]
          /\ checkpoint[c] # 0 => item[c][checkpoint[c]] # "none"

ScanInit ==
    /\ clock = 0
    /\ hidden = [c \in Sources |-> {}] /\ listed = [c \in Sources |-> {}]
    /\ item = [c \in Sources |-> [v \in Videos |-> "none"]]
    /\ checkpoint = [c \in Sources |-> 0]
    /\ scan = [s \in Scans |-> NoScan]
    /\ capped = [c \in Sources |-> FALSE]
    /\ faults = 0

-----------------------------------------------------------------------------
(* YouTube and the rest of the system *)

\* A moment passes, in which some channels publish.  No video stays hidden for
\* longer than Delay.
Publish ==
    /\ clock < MaxClock /\ clock' = clock + 1
    /\ \A c \in Sources : \A v \in hidden[c] : clock - v < Delay
    /\ \E late \in SUBSET Sources, prompt \in SUBSET Sources :
          /\ late \cap prompt = {} /\ (Delay = 0 => late = {})
          /\ hidden' = [c \in Sources |->
                hidden[c] \cup IF c \in late THEN {clock + 1} ELSE {}]
          /\ listed' = [c \in Sources |->
                listed[c] \cup IF c \in prompt THEN {clock + 1} ELSE {}]
    /\ UNCHANGED <<item, checkpoint, scan, capped, faults>>

List(c, v) ==
    /\ v \in hidden[c]
    /\ hidden' = [hidden EXCEPT ![c] = @ \ {v}]
    /\ listed' = [listed EXCEPT ![c] = @ \cup {v}]
    /\ UNCHANGED <<clock, item, checkpoint, scan, capped, faults>>

\* The workers have caught up with the source.
Claim(c) ==
    /\ \E v \in Videos : item[c][v] = "pending"
    /\ item' = [item EXCEPT ![c] = [v \in Videos |->
            IF @[v] = "pending" THEN "other" ELSE @[v]]]
    /\ UNCHANGED <<channelVars, checkpoint, scan, capped, faults>>

\* The administrator makes the items of a source pending that failed or that
\* the quota has set aside.
RestartSource(c) ==
    /\ \E v \in Videos : item[c][v] = "other"
    /\ item' = [item EXCEPT ![c] = [v \in Videos |->
            IF @[v] = "other" THEN "pending" ELSE @[v]]]
    /\ UNCHANGED <<channelVars, checkpoint, scan, capped, faults>>

-----------------------------------------------------------------------------
(* A scan *)

\* start_cron_job: everything is scanned again if a day was missed.  The row of
\* scan_locks is written, which keeps nobody out; the sources, and with them
\* their checkpoints, are loaded.
StartCronJob(s) ==
    /\ scan[s].pc = "idle"
    /\ \E missed \in BOOLEAN :
          scan' = [scan EXCEPT ![s] =
            [NoScan EXCEPT !.pc = "next", !.backfill = missed,
                           !.todo = Sources, !.loaded = checkpoint]]
    /\ UNCHANGED <<channelVars, item, checkpoint, capped, faults>>

\* The scan log of the source before is committed; the next one's turn.
NextSource(s) ==
    /\ scan[s].pc = "next"
    /\ \E c \in scan[s].todo :
          scan' = [scan EXCEPT ![s].pc = "pages", ![s].source = c, ![s].todo = @ \ {c}]
    /\ UNCHANGED <<channelVars, item, checkpoint, capped, faults>>

\* The cut-off, 0 for none, and how many pages may be read up to it.
Since(s) == IF scan[s].backfill THEN 0 ELSE scan[s].loaded[scan[s].source]
PageLimit(s) == IF Since(s) = 0 THEN MaxBackfillPages ELSE MaxDailyPages
InReachWithoutBuffer(s, v) == Since(s) = 0 \/ v >= Since(s)         \* a mutant
InReach(s, v) == Since(s) = 0 \/ v >= Since(s) - Buffer

\* The page that follows what has been read, newest first.
Unread(s) == {v \in listed[scan[s].source] : \A w \in scan[s].got : v < w}
Page(s) == {v \in Unread(s) : Cardinality({w \in Unread(s) : w > v}) < PageSize}

\* The scan is done with its source.
Leave(record) == [record EXCEPT !.pc = "next", !.source = NoSource, !.got = {}, !.pages = 0]

\* playlistItems.list, until a page reaches back before the cut-off, or is the
\* last one, or the limit is reached.
PollPage(s) ==
    LET c == scan[s].source
        new == {v \in Page(s) : InReach(s, v)}
        rest == Unread(s) \ Page(s)
        n == scan[s].pages + 1
        past == new # Page(s)
        over == past \/ rest = {} \/ n = PageLimit(s)
        read == [scan[s] EXCEPT !.got = @ \cup new, !.pages = n]
    IN  /\ scan[s].pc = "pages"
        /\ scan' = [scan EXCEPT ![s] =
                IF ~over THEN read
                ELSE IF read.got = {} THEN Leave(@)
                ELSE [read EXCEPT !.pc = "insert"]]
        /\ capped' = [capped EXCEPT ![c] = @ \/
                (~past /\ n = PageLimit(s) /\ \E v \in rest : InReach(s, v))]
        /\ UNCHANGED <<channelVars, item, checkpoint, faults>>

\* INSERT ... ON CONFLICT DO NOTHING, one commit for all.
Upserted(status) == "pending"                                      \* a mutant
UpdatedOnly(status) == IF status # "none" THEN "pending" ELSE status \* a mutant
Inserted(status) == IF status = "none" THEN "pending" ELSE status
InsertItems(s) ==
    LET c == scan[s].source
    IN  /\ scan[s].pc = "insert"
        /\ item' = [item EXCEPT ![c] = [v \in Videos |->
                IF v \in scan[s].got THEN Inserted(@[v]) ELSE @[v]]]
        /\ scan' = [scan EXCEPT ![s].pc = "checkpoint"]
        /\ UNCHANGED <<channelVars, checkpoint, capped, faults>>

\* The newest video found becomes the checkpoint if it is newer than the one
\* that was loaded; a concurrent scan may have written a newer one.
AdvanceCheckpoint(s) ==
    LET c == scan[s].source
        newest == Max(scan[s].got)
    IN  /\ scan[s].pc = "checkpoint"
        /\ checkpoint' = [checkpoint EXCEPT ![c] =
                IF newest > scan[s].loaded[c] THEN newest ELSE @]
        /\ scan' = [scan EXCEPT ![s] = Leave(@)]
        /\ UNCHANGED <<channelVars, item, capped, faults>>

\* "Don't break - other sources may still succeed".
Abandon(s) ==
    /\ faults < MaxFaults /\ faults' = faults + 1
    /\ scan[s].pc = "pages"
    /\ scan' = [scan EXCEPT ![s] = Leave(@)]
    /\ UNCHANGED <<channelVars, checkpoint, capped>>

\* A call that fails, or takes too long.
CallFails(s) == Abandon(s) /\ UNCHANGED item

\* YouTubeQuotaExceeded: every pending item of the source is set aside, until
\* the administrator restarts it.
QuotaExceeded(s) ==
    /\ Abandon(s)
    /\ item' = [item EXCEPT ![scan[s].source] = [v \in Videos |->
            IF @[v] = "pending" THEN "other" ELSE @[v]]]

\* The day counts as scanned, whatever failed.
FinishScan(s) ==
    /\ scan[s].pc = "next" /\ scan[s].todo = {}
    /\ scan' = [scan EXCEPT ![s] = NoScan]
    /\ UNCHANGED <<channelVars, item, checkpoint, capped, faults>>

\* A database error, which ends the request (the log of the failure cannot be
\* written in the same session either), or a crash.  What was not committed is
\* lost.
Die(s) ==
    /\ faults < MaxFaults /\ faults' = faults + 1
    /\ scan[s].pc # "idle"
    /\ scan' = [scan EXCEPT ![s] = NoScan]
    /\ UNCHANGED <<channelVars, item, checkpoint, capped>>

-----------------------------------------------------------------------------

Advance(s) ==
    \/ NextSource(s) \/ PollPage(s) \/ InsertItems(s) \/ AdvanceCheckpoint(s)
    \/ FinishScan(s)

ScanNext ==
    \/ Publish
    \/ \E c \in Sources, v \in Videos : List(c, v)
    \/ \E c \in Sources : Claim(c) \/ RestartSource(c)
    \/ \E s \in Scans :
          StartCronJob(s) \/ Advance(s) \/ CallFails(s) \/ QuotaExceeded(s) \/ Die(s)

ScanSpec == ScanInit /\ [][ScanNext]_vars

\* The cron job comes back every day, each call of a scan has a timeout, and
\* YouTube lists what was published.
FairScanSpec ==
    /\ ScanSpec
    /\ \A s \in Scans : WF_vars(StartCronJob(s)) /\ WF_vars(Advance(s))
    /\ \A c \in Sources, v \in Videos : WF_vars(List(c, v))

-----------------------------------------------------------------------------
(* Properties *)

\* "Buffer to avoid missing videos near the boundary (clock skew, API delay)"
\* (_poll_uploads_playlist): no scan will look behind the checkpoint and its
\* buffer again, so whatever lies there has its item, although scans overlap,
\* write checkpoints they compared with a stale one, and die between the two
\* commits of poll_channel.  A channel of which a page limit has hidden older
\* videos is the exception.
NoGap ==
    \A c \in Sources : ~capped[c] =>
        \A v \in listed[c] \cup hidden[c] :
            v < checkpoint[c] - Buffer => item[c][v] # "none"

\* Finding a video again changes nothing about its item: only new ones become
\* pending, and those the administrator restarts.
RescanKeepsStatus ==
    [][\A c \in Sources, v \in Videos :
         item[c][v] # item'[c][v] /\ item'[c][v] = "pending" =>
            item[c][v] = "none" \/ RestartSource(c)]_item

\* Every video of a channel becomes an item, however late YouTube lists it and
\* however many scans fail in between.
EveryVideoIsFound ==
    \A c \in Sources, v \in Videos :
        v \in hidden[c] \cup listed[c] ~> item[c][v] # "none" \/ capped[c]
=============================================================================
