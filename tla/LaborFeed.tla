------------------------------ MODULE LaborFeed ------------------------------
(***************************************************************************)
(* The labor dataset and its refresh, app/services/labor_etl.py with       *)
(* labor_state.py: the hours of every day, pulled from the time-keeping    *)
(* system (external) in windows of days and corrected there afterwards.    *)
(*                                                                         *)
(* The loop's refreshes and those started by hand take no lock: each of    *)
(* them clones the one dataset directory, puts its chunk into the clone    *)
(* and renames the clone into place (etl/partition_writer.py).  Commands   *)
(* have their default --start and --end.  A day's records are one value, 0 *)
(* for none; all days lie in one year= directory, of which an empty one    *)
(* and none are not told apart.                                            *)
(***************************************************************************)
EXTENDS Integers, FiniteSetsExt

CONSTANTS
    Loop,               \* the refresh-labor --loop service
    Hands,              \* the refresh commands run by hand, each once
    LastLaborDay,       \* bound on the dates; day 0 is LABOR_START_DATE
    ChunkDays,          \* WINDOW_DAYS
    IncrementalDays,    \* LABOR_INCREMENTAL_DAYS
    RecentDays,         \* LABOR_RECENT_RELOAD_DAYS
    CorrectionDays,     \* how long the source corrects a day, counted from that day
    Glimpses,           \* what a walk may find of a dataset that is renamed meanwhile
    MaxCorrections, MaxStops,
    NoDate

ASSUME LoopAssumption == Loop \notin Hands
ASSUME LaborDayAssumption == LastLaborDay \in Nat /\ NoDate \notin Int
ASSUME LaborWindowAssumption ==
    /\ {ChunkDays, IncrementalDays, RecentDays, CorrectionDays} \subseteq Nat \ {0}
    /\ IncrementalDays <= RecentDays
ASSUME GlimpsesAssumption == Glimpses \subseteq SUBSET (0..LastLaborDay)
ASSUME LaborBounds == {MaxCorrections, MaxStops} \subseteq Nat

Refreshers == {Loop} \cup Hands
LaborDays == 0..LastLaborDay

VARIABLES
    now,
    feed,           \* the records of a day in the time-keeping system
    standing,      \* whether the dataset's directory exists
    hours,          \* the records of a day in the dataset
    stray,          \* the days of a second year directory, moved inside the first
    watermark,      \* labor_date_max of the state file
    pull,           \* what each refresh is doing
    reached,        \* history: the last end of a refresh that succeeded, or -1
    lost,           \* history: the days the dataset may have lost since
    corrections, stops

dataset == <<standing, hours, stray, lost>>
laborVars == <<now, feed, dataset, watermark, pull, reached, corrections, stops>>

NoHours == [d \in {} |-> 0]
EmptyDataset == [d \in LaborDays |-> 0]
\* A refresh's dates, the watermark it read, its staged copy and its strays, and (history)
\* the days for which that copy may be older than what was stored since.
NoPull == [step |-> "idle", from |-> 0, next |-> 0, until |-> 0, seen |-> NoDate,
           copy |-> NoHours, stray |-> {}, missed |-> {}]
Rest(p) == [NoPull EXCEPT !.step = IF p = Loop THEN "idle" ELSE "ended"]

-----------------------------------------------------------------------------
(* The time-keeping system, and time *)

Correct(d) ==
    /\ d <= now /\ d > now - CorrectionDays
    /\ corrections < MaxCorrections /\ corrections' = corrections + 1
    /\ feed' = [feed EXCEPT ![d] = 1 - feed[d]]
    /\ UNCHANGED <<now, dataset, watermark, pull, reached, stops>>

NextLaborDay ==
    /\ now < LastLaborDay /\ now' = now + 1
    /\ UNCHANGED <<feed, dataset, watermark, pull, reached, corrections, stops>>

-----------------------------------------------------------------------------
(* _resolve_window *)

RecentStart == Max({0, now - (RecentDays - 1)})
StartAfterWatermark == IF watermark = NoDate THEN RecentStart ELSE Max({watermark, 0})   \* mutant
StartLate ==                                                          \* mutant
    IF watermark = NoDate THEN RecentStart ELSE Max({0, now - IncrementalDays + 2})
IncrementalStart ==
    IF watermark = NoDate THEN RecentStart
    ELSE Max({0, Min({watermark, now}) - (RecentDays - 1), now - (IncrementalDays - 1)})

-----------------------------------------------------------------------------
(* refresh_labor *)

BeginPull(p, start) ==
    /\ pull[p].step = "idle"
    /\ pull' = [pull EXCEPT ![p] = [NoPull EXCEPT !.step = "next", !.from = start, !.next = start,
                                                  !.until = now, !.seen = watermark]]
    /\ UNCHANGED <<now, feed, dataset, watermark, reached, corrections, stops>>

IncrementalRefresh(p) == BeginPull(p, IncrementalStart)
RecentRepair(p) == BeginPull(p, RecentStart)
LaborBackfill(p) == BeginPull(p, 0)

\* _iter_windows: the days of the next chunk.
Chunk(p) == pull[p].next..Min({pull[p].until, pull[p].next + ChunkDays - 1})
Pulling(p) == pull[p].step \in {"next", "fetched", "staged", "swapping"}
Holds(p) == pull[p].step \in {"fetched", "staged", "swapping"}
\* History: of days stored by another, those that p's chunk does not have as final.
Older(p, days) == {d \in days : d \in Chunk(p) => d > pull[p].until - CorrectionDays}
Missing(days) == [q \in Refreshers |->
    IF Holds(q) THEN [pull[q] EXCEPT !.missed = @ \cup Older(q, days)] ELSE pull[q]]

FetchChunk(p) ==
    /\ pull[p].step = "next" /\ pull[p].next <= pull[p].until
    /\ pull' = [pull EXCEPT ![p] =
                    [pull[p] EXCEPT !.step = "fetched", !.copy = [d \in Chunk(p) |-> feed[d]]]]
    /\ UNCHANGED <<now, feed, dataset, watermark, reached, corrections, stops>>

\* upsert_dataset clones the directory, of which a rename by another refresh meanwhile may
\* hide any part from the walk, and puts the chunk's days in the place of the clone's.
Cloned(p) ==
    IF standing /\ \E q \in Refreshers \ {p} : pull[q].step \in {"staged", "swapping"}
    THEN Glimpses \cup {LaborDays} ELSE {LaborDays}
CopyOf(p, days) == [d \in LaborDays |-> IF d \in Chunk(p) THEN pull[p].copy[d]
                                        ELSE IF d \in days THEN hours[d] ELSE 0]
\* History: another's days that are in the chunk, and what the clone lacks beside it.
MissedOf(p, days) == (pull[p].missed \cap Chunk(p)) \cup ((lost \cup (LaborDays \ days)) \ Chunk(p))
StageChunk(p) ==
    /\ pull[p].step = "fetched"
    /\ \E days \in Cloned(p) :
        pull' = [pull EXCEPT ![p] =
                    [pull[p] EXCEPT !.step = "staged", !.copy = CopyOf(p, days),
                                    !.stray = stray \cap days, !.missed = MissedOf(p, days)]]
    /\ UNCHANGED <<now, feed, dataset, watermark, reached, corrections, stops>>

\* _swap_dataset_dirs: the directory is renamed away, if it is there,
SwapChunkOut(p) ==
    /\ pull[p].step = "staged" /\ pull' = [pull EXCEPT ![p] = [pull[p] EXCEPT !.step = "swapping"]]
    /\ standing' = FALSE /\ hours' = EmptyDataset /\ stray' = {} /\ lost' = LaborDays
    /\ UNCHANGED <<now, feed, watermark, reached, corrections, stops>>

\* and the clone renamed into its place, which another refresh may have taken: the clone
\* replaces that directory if it came after the look,
CloneReplaces(p) ==
    /\ standing' = TRUE /\ hours' = pull[p].copy /\ stray' = pull[p].stray
    /\ lost' = pull[p].missed
\* and is moved into it otherwise, its year directory into the one there, where no later
\* upsert looks; a second one is not moved, and removed.
CloneGoesInside(p) ==
    /\ standing
    /\ stray' = IF stray = {} THEN {d \in LaborDays : pull[p].copy[d] # 0} ELSE stray
    /\ lost' = lost \cup Chunk(p)
    /\ UNCHANGED <<standing, hours>>
SwapChunkIn(p) ==
    /\ pull[p].step = "swapping"
    /\ CloneReplaces(p) \/ CloneGoesInside(p)
    /\ pull' = [Missing(Chunk(p)) EXCEPT ![p] =
                    [pull[p] EXCEPT !.step = "next", !.next = Max(Chunk(p)) + 1,
                                    !.copy = NoHours, !.stray = {}, !.missed = {}]]
    /\ UNCHANGED <<now, feed, watermark, reached, corrections, stops>>

LoadedDays == {d \in LaborDays : hours[d] # 0} \cup stray
\* History: the days since the last success that an outage has left behind the window.
Outage(p) == {d \in LaborDays : /\ d > reached - CorrectionDays /\ d < pull[p].from
                               /\ d <= pull[p].until - IncrementalDays}
FinishAtItsEnd(p) ==                                                  \* mutant
    /\ pull[p].step = "next" /\ pull[p].next > pull[p].until
    /\ watermark' = pull[p].next
    /\ reached' = Max({reached, pull[p].until})
    /\ standing' = TRUE /\ lost' = lost \cup Outage(p)
    /\ pull' = [Missing(Outage(p)) EXCEPT ![p] = Rest(p)]
    /\ UNCHANGED <<now, feed, hours, stray, corrections, stops>>
\* _recompute_manifest_bounds reads the dataset and writes its manifest, into a new
\* directory if there is none, and the state is saved.
FinishPull(p) ==
    /\ pull[p].step = "next" /\ pull[p].next > pull[p].until
    /\ watermark' = IF LoadedDays = {} THEN NoDate ELSE Max(LoadedDays)
    /\ reached' = Max({reached, pull[p].until})
    /\ standing' = TRUE /\ lost' = lost \cup Outage(p)
    /\ pull' = [Missing(Outage(p)) EXCEPT ![p] = Rest(p)]
    /\ UNCHANGED <<now, feed, hours, stray, corrections, stops>>

\* The pull raises, which saves the state as it was read, or its process dies; between
\* the renames that leaves no dataset.
StopPull(p) ==
    /\ Pulling(p)
    /\ stops < MaxStops /\ stops' = stops + 1
    /\ watermark' \in {watermark, pull[p].seen}
    /\ pull' = [pull EXCEPT ![p] = Rest(p)]
    /\ UNCHANGED <<now, feed, dataset, reached, corrections>>

-----------------------------------------------------------------------------
LaborInit ==
    /\ now \in LaborDays
    /\ feed \in [LaborDays -> {0, 1}] /\ \A d \in LaborDays : d > now => feed[d] = 0
    /\ standing = FALSE /\ hours = EmptyDataset /\ stray = {} /\ watermark = NoDate
    /\ pull = [p \in Refreshers |-> NoPull]
    /\ reached = -1 /\ lost = {} /\ corrections = 0 /\ stops = 0

ContinuePull(p) ==
    FetchChunk(p) \/ StageChunk(p) \/ SwapChunkOut(p) \/ SwapChunkIn(p) \/ FinishPull(p)

LaborNext ==
    \/ \E d \in LaborDays : Correct(d)
    \/ NextLaborDay
    \/ \E p \in Refreshers : IncrementalRefresh(p) \/ ContinuePull(p) \/ StopPull(p)
    \/ \E p \in Hands : RecentRepair(p) \/ LaborBackfill(p)

LaborSpec == LaborInit /\ [][LaborNext]_laborVars

\* The loop of `refresh-labor --loop' begins a refresh after every one that ended, and a
\* refresh that has begun goes on.
LaborFairSpec ==
    /\ LaborSpec /\ WF_laborVars(IncrementalRefresh(Loop))
    /\ \A p \in Refreshers : WF_laborVars(ContinuePull(p))

-----------------------------------------------------------------------------
(* Properties *)

Copies == UNION {[D -> {0, 1}] : D \in SUBSET LaborDays}
Pull == [step: {"idle", "ended", "next", "fetched", "staged", "swapping"},
         from: LaborDays, next: 0..(LastLaborDay + 1), until: LaborDays,
         seen: LaborDays \cup {NoDate}, copy: Copies,
         stray: SUBSET LaborDays, missed: SUBSET LaborDays]

LaborTypeOK ==
    /\ now \in LaborDays /\ corrections \in 0..MaxCorrections /\ stops \in 0..MaxStops
    /\ feed \in [LaborDays -> {0, 1}] /\ hours \in [LaborDays -> {0, 1}]
    /\ standing \in BOOLEAN /\ stray \subseteq LaborDays /\ lost \subseteq LaborDays
    /\ watermark \in LaborDays \cup {NoDate} /\ reached \in LaborDays \cup {-1}
    /\ pull \in [Refreshers -> Pull]

\* The hours of a day that was final when a refresh that succeeded began are in the
\* dataset, through refreshes that overlap, fail or die and corrections while a chunk is
\* on its way, for every day but those that were lost and not loaded again: what was
\* stored while the clone that replaced the dataset was made, a chunk moved inside
\* another's dataset, all days but the next chunk's after a death between the renames,
\* and the days of an outage longer than the incremental window (_resolve_window,
\* _iter_windows, _swap_dataset_dirs).
FinalDaysAreLoaded ==
    \A d \in LaborDays \ lost : d <= reached - CorrectionDays => hours[d] = feed[d]

\* When the source stops correcting and refreshes stop failing, the days the incremental
\* window reaches are as the source has them, but for the moments between the renames of
\* a refresh, whatever refreshes by hand have stored in between.
CorrectionsArrive ==
    <>[](\/ \E p \in Refreshers : pull[p].step = "swapping"
         \/ \A d \in LaborDays : d <= now /\ d > now - IncrementalDays => hours[d] = feed[d])
=============================================================================
