---------------------------- MODULE DatasetRefresh ----------------------------
(***************************************************************************)
(* The processes that refresh the fact dataset: etl/incremental_refresh    *)
(* run by the systemd loop, the systemd timer, the in-process loop and the *)
(* command line (EtlProcs), and workers/refresh.refresh_job run inside the *)
(* web processes (JobProcs).  They share files: a lock file in the cache   *)
(* directory, the dataset directory with a lock file of its own, and the   *)
(* temporary directory each of them stages a new dataset in.               *)
(*                                                                         *)
(* The refresh window is counted back from today and ignores the saved     *)
(* watermark, so etl_state.json is left out; so is the _prev directory,    *)
(* which nothing reads back.                                               *)
(***************************************************************************)
EXTENDS FactPartitions

CONSTANTS
    EtlProcs, JobProcs,
    HotDays,        \* FACT_REFRESH_HOT_WINDOW_DAYS
    BackfillDays,   \* FACT_REFRESH_BACKFILL_DAYS
    MonthDays,      \* days per month: a full build pulls month by month
    MaxEdits,       \* bound on the changes made in the order system
    MaxCrashes,     \* bound on crashes and failures
    NoProc, NoDay

Procs == EtlProcs \cup JobProcs

ASSUME ProcAssumption == NoProc \notin Procs /\ EtlProcs \cap JobProcs = {}
ASSUME WindowAssumption == HotDays \in Nat /\ BackfillDays \in Nat /\ MonthDays \in Nat \ {0}
ASSUME NoDayAssumption == NoDay \notin Days
ASSUME BudgetAssumption == MaxEdits \in Nat /\ MaxCrashes \in Nat

VARIABLES
    source,     \* the order system: the date of each line, or NoDay
    today,
    edits,      \* changes made so far
    crashes,    \* crashes so far
    present,    \* the dataset directory exists
    table,      \* what it holds
    cacheLock,  \* who has locked the file in the cache directory
    dirLock,    \* who has locked the file in the present dataset directory
    torn,       \* history: lines a full build has pulled twice
    pc,
    window,     \* dates a process replaces
    batch,      \* lines it has pulled
    gaps,       \* missing dates it still has to backfill
    month,      \* month a full build pulls next
    staged      \* the dataset in its temporary directory

world == <<source, today, edits>>
locks == <<cacheLock, dirLock>>
published == <<present, table>>
work == <<window, batch, gaps, month, staged>>
vars == <<world, crashes, published, locks, torn, pc, work>>

-----------------------------------------------------------------------------
(* The order system *)

SourceLines(dates) == {l \in Line : source[l.id] = l.day /\ l.day \in dates}

\* A line is entered, deleted or given another date; the system is never empty.
Edit(id, day) ==
    /\ edits < MaxEdits
    /\ source[id] # day
    /\ source' = [source EXCEPT ![id] = day]
    /\ \E i \in Ids : source'[i] # NoDay
    /\ edits' = edits + 1
    /\ UNCHANGED <<today, crashes, published, locks, torn, pc, work>>

NextDay ==
    /\ today < LastDay
    /\ today' = today + 1
    /\ UNCHANGED <<source, edits, crashes, published, locks, torn, pc, work>>

-----------------------------------------------------------------------------
(* Locks *)

\* _compute_incremental_window
HotWindow == {d \in 0..today : d + HotDays >= today}

\* The process starts at a step, with a range of dates to pull.
Begin(p, step, dates) ==
    /\ pc[p] = "idle"
    /\ pc' = [pc EXCEPT ![p] = step]
    /\ window' = [window EXCEPT ![p] = dates]
    /\ UNCHANGED <<world, crashes, published, torn, batch, gaps, month, staged>>

BuildOrPull(p) == IF present THEN Begin(p, "pull", HotWindow) ELSE Begin(p, "build", 0..today)

\* FileLock.acquire does not wait: a process that finds the lock taken gives up.
TakeCacheLock(p) == cacheLock = NoProc /\ cacheLock' = p /\ UNCHANGED dirLock

RefreshWithoutLock(p) == BuildOrPull(p) /\ UNCHANGED locks                      \* mutant
RefreshWhatIsThere(p) == present /\ BuildOrPull(p) /\ TakeCacheLock(p)          \* mutant
\* refresh_once: a missing dataset is built in full.
BeginRefresh(p) == BuildOrPull(p) /\ TakeCacheLock(p)

\* initial_build, from the command line or the admin's rebuild.
BeginRebuild(p) == Begin(p, "build", 0..today) /\ TakeCacheLock(p)

\* gap_backfill_only and refresh_once in gap mode.
BeginBackfill(p) == present /\ Begin(p, "findgaps", {}) /\ TakeCacheLock(p)

\* refresh_job locks a file in the dataset directory, which it makes if it has to,
\* and then refreshes without the cache directory's lock.
BeginJob(p) ==
    /\ dirLock = NoProc
    /\ BuildOrPull(p)
    /\ dirLock' = p /\ UNCHANGED cacheLock

\* The process lets go of its locks and of what it has in hand.
Leave(p) ==
    /\ pc' = [pc EXCEPT ![p] = "idle"]
    /\ cacheLock' = IF cacheLock = p THEN NoProc ELSE cacheLock
    /\ dirLock' = IF dirLock = p THEN NoProc ELSE dirLock
    /\ window' = [window EXCEPT ![p] = {}]
    /\ batch' = [batch EXCEPT ![p] = {}]
    /\ gaps' = [gaps EXCEPT ![p] = {}]
    /\ month' = [month EXCEPT ![p] = 0]
    /\ staged' = [staged EXCEPT ![p] = EmptyTable]

\* The process dies, or a pull or write fails: the kernel or `finally' unlocks.
Crash(p) ==
    /\ pc[p] # "idle" /\ crashes < MaxCrashes
    /\ crashes' = crashes + 1
    /\ Leave(p)
    /\ UNCHANGED <<world, published, torn>>

Finish(p) ==
    /\ pc[p] = "done"
    /\ Leave(p)
    /\ UNCHANGED <<world, crashes, published, torn>>

-----------------------------------------------------------------------------
(* initial_build *)

MonthOf(d) == d \div MonthDays
Months(dates) == {MonthOf(d) : d \in dates}

PullMonth(p) ==
    /\ pc[p] = "build" /\ month[p] \in Months(window[p])
    /\ LET pulled == SourceLines({d \in window[p] : MonthOf(d) = month[p]})
       IN /\ batch' = [batch EXCEPT ![p] = @ \cup pulled]
          /\ torn' = torn \cup (KeysOf(pulled) \cap KeysOf(batch[p]))
    /\ month' = [month EXCEPT ![p] = @ + 1]
    /\ UNCHANGED <<world, crashes, published, locks, pc, window, gaps, staged>>

\* A full build writes month directories.
MonthDirectories(lines) == [legacy |-> lines, days |-> [d \in Days |-> {}]]

\* The months pulled are written as they are, without looking for repeated keys.
StageBuild(p) ==
    /\ pc[p] = "build" /\ month[p] \notin Months(window[p])
    /\ IF batch[p] = {}
       THEN Leave(p)                        \* "Initial build produced no rows."
       ELSE /\ staged' = [staged EXCEPT ![p] = MonthDirectories(batch[p])]
            /\ pc' = [pc EXCEPT ![p] = "swapout"]
            /\ UNCHANGED <<locks, window, batch, gaps, month>>
    /\ UNCHANGED <<world, crashes, published, torn>>

-----------------------------------------------------------------------------
(* refresh_once *)

\* The hot window is pulled; nothing in it is a heartbeat, not a deletion.
PullWindow(p) ==
    /\ pc[p] = "pull"
    /\ LET pulled == SourceLines(window[p])
       IN /\ batch' = [batch EXCEPT ![p] = pulled]
          /\ pc' = [pc EXCEPT ![p] = IF pulled = {} THEN "findgaps" ELSE "stage"]
    /\ UNCHANGED <<world, crashes, published, locks, torn, window, gaps, month, staged>>

\* upsert_dataset up to the swap.
StageUpsert(p) ==
    /\ pc[p] = "stage"
    /\ staged' = [staged EXCEPT ![p] = Upsert(table, batch[p], window[p])]
    /\ pc' = [pc EXCEPT ![p] = "swapout"]
    /\ UNCHANGED <<world, crashes, published, locks, torn, window, batch, gaps, month>>

-----------------------------------------------------------------------------
(* _swap_dataset_dirs *)

\* The old directory is renamed away, and its lock file with it.
SwapOut(p) ==
    /\ pc[p] = "swapout"
    /\ present' = FALSE /\ table' = EmptyTable
    /\ dirLock' = NoProc
    /\ pc' = [pc EXCEPT ![p] = "swapin"]
    /\ UNCHANGED <<world, crashes, cacheLock, torn, work>>

\* The lines of two directories moved into one another.
Merged(t, u) == [legacy |-> t.legacy \cup u.legacy,
                 days |-> [d \in Days |-> t.days[d] \cup u.days[d]]]

\* A full build is done; a refresh looks for gaps; a backfill goes on.
SwapIn(p) ==
    /\ pc[p] = "swapin"
    /\ present' = TRUE /\ table' = Merged(table, staged[p])
    /\ staged' = [staged EXCEPT ![p] = EmptyTable]
    /\ pc' = [pc EXCEPT ![p] = IF staged[p].legacy # {} THEN "done"
                               ELSE IF window[p] # {} THEN "findgaps" ELSE "backfill"]
    /\ UNCHANGED <<world, crashes, locks, torn, window, batch, gaps, month>>

-----------------------------------------------------------------------------
(* _gap_backfill *)

FindGaps(p) ==
    /\ pc[p] = "findgaps"
    /\ gaps' = [gaps EXCEPT ![p] = {d \in 0..today : d + BackfillDays > today} \ DaysOf(Lines(table))]
    /\ pc' = [pc EXCEPT ![p] = "backfill"]
    /\ window' = [window EXCEPT ![p] = {}]
    /\ batch' = [batch EXCEPT ![p] = {}]
    /\ UNCHANGED <<world, crashes, published, locks, torn, month, staged>>

\* _coalesce_missing_ranges: the first run of consecutive dates.
FirstRange(dates) == {d \in dates : \A e \in dates : e < d => e..d \subseteq dates}

\* One range of missing dates: pulled, and upserted without a window.
Backfill(p) ==
    /\ pc[p] = "backfill"
    /\ IF gaps[p] = {}
       THEN /\ pc' = [pc EXCEPT ![p] = "done"]
            /\ UNCHANGED <<gaps, batch>>
       ELSE LET range == FirstRange(gaps[p])
                pulled == SourceLines(range)
            IN /\ gaps' = [gaps EXCEPT ![p] = @ \ range]
               /\ batch' = [batch EXCEPT ![p] = pulled]
               /\ pc' = [pc EXCEPT ![p] = IF pulled = {} THEN "backfill" ELSE "stage"]
    /\ UNCHANGED <<world, crashes, published, locks, torn, window, month, staged>>

-----------------------------------------------------------------------------
Init ==
    /\ source \in [Ids -> Days \cup {NoDay}]
    /\ \E i \in Ids : source[i] # NoDay
    /\ today = 0 /\ edits = 0 /\ crashes = 0
    /\ present = FALSE /\ table = EmptyTable
    /\ cacheLock = NoProc /\ dirLock = NoProc
    /\ torn = {}
    /\ pc = [p \in Procs |-> "idle"]
    /\ window = [p \in Procs |-> {}]
    /\ batch = [p \in Procs |-> {}]
    /\ gaps = [p \in Procs |-> {}]
    /\ month = [p \in Procs |-> 0]
    /\ staged = [p \in Procs |-> EmptyTable]

Continue(p) ==
    \/ PullMonth(p) \/ StageBuild(p) \/ PullWindow(p) \/ StageUpsert(p)
    \/ SwapOut(p) \/ SwapIn(p) \/ FindGaps(p) \/ Backfill(p) \/ Finish(p)

Next ==
    \/ \E id \in Ids, day \in Days \cup {NoDay} : Edit(id, day)
    \/ NextDay
    \/ \E p \in EtlProcs : BeginRefresh(p) \/ BeginRebuild(p) \/ BeginBackfill(p)
    \/ \E p \in JobProcs : BeginJob(p)
    \/ \E p \in Procs : Continue(p) \/ Crash(p)

Spec == Init /\ [][Next]_vars

\* The refresh loop is a service systemd restarts: it starts again and again, and a
\* started refresh goes on or crashes.  Time passes.
Fairness == /\ WF_vars(NextDay)
            /\ \A p \in EtlProcs : WF_vars(BeginRefresh(p)) /\ WF_vars(Continue(p))
FairSpec == Spec /\ Fairness


-----------------------------------------------------------------------------
(* Properties *)

Steps == {"idle", "build", "pull", "stage", "swapout", "swapin", "findgaps", "backfill", "done"}

TypeOK ==
    /\ source \in [Ids -> Days \cup {NoDay}]
    /\ today \in Days
    /\ edits \in 0..MaxEdits
    /\ crashes \in 0..MaxCrashes
    /\ present \in BOOLEAN
    /\ table \in Table
    /\ cacheLock \in EtlProcs \cup {NoProc}
    /\ dirLock \in JobProcs \cup {NoProc}
    /\ torn \in SUBSET Ids
    /\ pc \in [Procs -> Steps]
    /\ window \in [Procs -> SUBSET Days]
    /\ batch \in [Procs -> SUBSET Line]
    /\ gaps \in [Procs -> SUBSET Days]
    /\ month \in [Procs -> Nat]
    /\ staged \in [Procs -> Table]

\* Rows move between partitions without leaving a duplicate behind: the dataset has
\* at most one line for an order line id, whatever dates it has had, unless a full
\* build pulled it in two months (partition_writer.upsert_dataset).
NoDuplicateLines == Unique(Lines(table), torn)

\* One refresh at a time: the non-blocking file locks of etl/incremental_refresh and
\* workers/refresh.refresh_job.
OneRefreshAtATime == \A p, q \in Procs : pc[p] # "idle" /\ pc[q] # "idle" => p = q

Writers == {p \in Procs : pc[p] = "swapin"}
Phase == IF present THEN "shown"
         ELSE IF Writers = {} THEN "missing"
         ELSE IF \E p \in Writers : staged[p].legacy # {} THEN "rebuilding" ELSE "replacing"
\* The lines a reader sees, or will once they are swapped in.
Seen == IF present THEN Lines(table) ELSE UNION {Lines(staged[p]) : p \in Writers}
Promise == INSTANCE FactTable WITH phase <- Phase, lines <- Seen
\* Refreshes, rebuilds and backfills, with their crashes, change the dataset only as
\* FactTable allows: upsert_dataset loses and keeps exactly the lines it should,
\* whichever layout it finds, from the lines a reader saw last.
ImplementsFactTable == Promise!Spec

\* A dataset lost to a crash between the two renames, or never built, is built again
\* (refresh_once finds no parquet and calls initial_build).
DatasetComesBack == ~present ~> present
=============================================================================
