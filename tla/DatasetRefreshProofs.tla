------------------------- MODULE DatasetRefreshProofs -------------------------
(***************************************************************************)
(* For any lines, dates, windows and number of processes: the types, the   *)
(* exclusion of the cache lock, that upserts never leave two lines of one  *)
(* key while swaps stay apart and batches within the limit of the scan,    *)
(* and that the dataset implements FactTable while jobs stay apart.        *)
(***************************************************************************)
EXTENDS DatasetRefresh, FiniteSetTheorems, TLAPS

\* A batch is within the limit of _existing_partitions_for_pks.
Scanned(b) == ~(MaxScanPks > 0 /\ Cardinality(KeysOf(b)) > MaxScanPks)

\* So is every batch that is about to be upserted.
BatchesScanned == \A p \in Procs : pc[p] = "stage" => Scanned(batch[p])

\* There is no limit, or it is above the number of order lines there are.
NoScanLimit == MaxScanPks = 0 \/ (IsFiniteSet(Ids) /\ Cardinality(Ids) <= MaxScanPks)

\* Only the processes of the ETL refresh, not the web's job.
NoJobs == JobProcs = {}

-----------------------------------------------------------------------------
(* upsert_dataset *)

\* A batch's keys are never too many for the scan.
LEMMA WithinLimit ==
    ASSUME NoScanLimit, NEW b \in SUBSET Line
    PROVE  Scanned(b)
<1>1. CASE MaxScanPks = 0
  BY <1>1 DEF Scanned
<1>2. CASE IsFiniteSet(Ids) /\ Cardinality(Ids) <= MaxScanPks
  <2>1. KeysOf(b) \subseteq Ids
    BY DEF KeysOf, Line
  <2>2. /\ IsFiniteSet(KeysOf(b)) /\ Cardinality(KeysOf(b)) <= Cardinality(Ids)
    BY <1>2, <2>1, FS_Subset
  <2>3. Cardinality(KeysOf(b)) \in Nat /\ Cardinality(Ids) \in Nat
    BY <1>2, <2>2, FS_CardinalityType
  <2> QED BY <1>2, <2>2, <2>3, ScanAssumption DEF Scanned
<1> QED BY <1>1, <1>2 DEF NoScanLimit

\* An upsert yields a dataset in day partitions, each line in that of its date.
LEMMA UpsertShape ==
    ASSUME NEW t \in Table, WellPlaced(t), NEW b \in SUBSET Line, NEW w \in SUBSET Days
    PROVE  Upsert(t, b, w) \in Table /\ WellPlaced(Upsert(t, b, w))
<1>1. \A d \in Days : /\ Survivors(t.days[d], b, w) \cup {l \in b : l.day = d} \in SUBSET Line
                      /\ Folded(t, b, w, d) \in SUBSET Line
  BY DEF Table, Survivors, Folded
<1>2. \A d \in Days : /\ \A l \in Survivors(t.days[d], b, w) \cup {l \in b : l.day = d} : l.day = d
                      /\ \A l \in Folded(t, b, w, d) : l.day = d
  BY DEF WellPlaced, Survivors, Folded
<1>3. Upsert(t, b, w) \in Table
  BY <1>1 DEF Upsert, Table
<1>4. WellPlaced(Upsert(t, b, w))
  BY <1>2 DEF Upsert, WellPlaced
<1> QED BY <1>3, <1>4

\* An upsert keeps no line it should have replaced, in either layout.
LEMMA UpsertKeepsNoStaleLine ==
    ASSUME NEW t \in Table, WellPlaced(t), NEW b \in SUBSET Line, NEW w \in SUBSET Days, Scanned(b)
    PROVE  Lines(Upsert(t, b, w)) \subseteq Replaced(Lines(t), b, w)
<1> SUFFICES ASSUME NEW x \in Lines(Upsert(t, b, w)) PROVE x \in Replaced(Lines(t), b, w)
  OBVIOUS
<1> DEFINE touched == DaysOf(b) \cup w \cup PartitionsHolding(t, b)
<1>1. PICK d \in Days : x \in IF d \in touched
                               THEN Survivors(t.days[d], b, w) \cup {l \in b : l.day = d}
                               ELSE Folded(t, b, w, d)
  BY DEF Lines, Upsert
<1>2. CASE x \in b
  BY <1>2 DEF Replaced
<1>3. CASE x \in Survivors(t.days[d], b, w) \/ x \in Survivors(t.legacy, b, w)
  BY <1>3 DEF Replaced, Survivors, Lines
<1>4. CASE d \notin touched /\ x \in t.days[d]
  <2>1. t.legacy = {} /\ x.day = d
    BY <1>4 DEF WellPlaced
  <2>2. PartitionsHolding(t, b) = {e \in Days : \E l \in t.days[e] : l.id \in KeysOf(b)}
    BY <2>1 DEF PartitionsHolding, Scanned
  <2>3. x.id \notin KeysOf(b) /\ x.day \notin w
    BY <1>4, <2>1, <2>2
  <2> QED BY <1>4, <2>3 DEF Replaced, Survivors, Lines
<1> QED BY <1>1, <1>2, <1>3, <1>4 DEF Folded

\* Replacing lines by a batch leaves no duplicate that neither had.
LEMMA ReplacedUnique ==
    ASSUME NEW ls \in SUBSET Line, NEW b \in SUBSET Line, NEW w, NEW s,
           Unique(ls, s), Unique(b, s)
    PROVE  Unique(Replaced(ls, b, w), s)
<1>1. \A l \in Survivors(ls, b, w) : l \in ls /\ \A m \in b : l.id # m.id
  BY DEF Survivors, KeysOf
<1> QED BY <1>1 DEF Replaced, Unique

-----------------------------------------------------------------------------
(* Types *)

LeaveTypes(p) ==
    /\ pc' \in [Procs -> Steps]
    /\ cacheLock' \in EtlProcs \cup {NoProc} /\ dirLock' \in JobProcs \cup {NoProc}
    /\ window' \in [Procs -> SUBSET Days] /\ batch' \in [Procs -> SUBSET Line]
    /\ gaps' \in [Procs -> SUBSET Days] /\ month' \in [Procs -> Nat]
    /\ staged' \in [Procs -> Table]

\* The empty dataset and what is staged are datasets.
LEMMA EmptyIsTable == EmptyTable \in Table
BY DEF EmptyTable, Table

\* Letting go of everything keeps the types.
LEMMA LeaveType == ASSUME TypeOK, NEW p \in Procs, Leave(p) PROVE LeaveTypes(p)
BY EmptyIsTable DEF Leave, TypeOK, LeaveTypes, Steps

\* What is pulled from the order system is a set of lines, one of each key.
LEMMA PulledLines ==
    ASSUME NEW dates PROVE SourceLines(dates) \in SUBSET Line /\ Unique(SourceLines(dates), {})
BY DEF SourceLines, Unique, Line

\* A process starts on what its kind starts.
Begins(p) == \/ p \in EtlProcs /\ (BeginRefresh(p) \/ BeginRebuild(p) \/ BeginBackfill(p))
             \/ p \in JobProcs /\ BeginJob(p)

\* Starting a refresh keeps the types.
LEMMA BeginType ==
    ASSUME TypeOK, NEW p \in Procs, Begins(p)
    PROVE  TypeOK'
<1>1. HotWindow \subseteq Days /\ 0..today \subseteq Days
  BY DayAssumption DEF HotWindow, Days, TypeOK
<1>2. PICK step \in Steps, dates \in SUBSET Days : Begin(p, step, dates)
  BY <1>1 DEF Begins, BeginRefresh, BeginRebuild, BeginBackfill, BeginJob, BuildOrPull, Steps
<1>3. cacheLock' \in EtlProcs \cup {NoProc} /\ dirLock' \in JobProcs \cup {NoProc}
  BY DEF Begins, BeginRefresh, BeginRebuild, BeginBackfill, BeginJob, TakeCacheLock, TypeOK
<1> QED BY <1>2, <1>3 DEF Begin, TypeOK, world, published

\* Every other step of a process keeps them.
LEMMA ContinueType == ASSUME TypeOK, NEW p \in Procs, Continue(p) PROVE TypeOK'
<1>1. CASE PullMonth(p)
  <2>1. /\ SourceLines({d \in window[p] : MonthOf(d) = month[p]}) \in SUBSET Line
        /\ \A b \in SUBSET Line : KeysOf(b) \subseteq Ids
    BY PulledLines DEF KeysOf, Line
  <2> QED BY <1>1, <2>1 DEF PullMonth, TypeOK, world, published, locks
<1>2. CASE StageBuild(p)
  <2>1. CASE batch[p] = {}
    BY <1>2, <2>1, LeaveType DEF StageBuild, TypeOK, LeaveTypes, world, published
  <2>2. CASE batch[p] # {}
    <3>1. MonthDirectories(batch[p]) \in Table
      BY DEF MonthDirectories, Table, TypeOK
    <3> QED BY <1>2, <2>2, <3>1 DEF StageBuild, TypeOK, Steps, world, published, locks
  <2> QED BY <2>1, <2>2
<1>3. CASE PullWindow(p)
  <2>1. SourceLines(window[p]) \in SUBSET Line
    BY PulledLines
  <2> QED BY <1>3, <2>1 DEF PullWindow, TypeOK, Steps, world, published, locks
<1>4. CASE StageUpsert(p)
  <2>1. Upsert(table, batch[p], window[p]) \in Table
    BY DEF Upsert, Survivors, Folded, Table, TypeOK
  <2> QED BY <1>4, <2>1 DEF StageUpsert, TypeOK, Steps, world, published, locks
<1>5. CASE SwapOut(p)
  BY <1>5, EmptyIsTable DEF SwapOut, TypeOK, Steps, world, work
<1>6. CASE SwapIn(p)
  <2>1. Merged(table, staged[p]) \in Table
    BY DEF Merged, Table, TypeOK
  <2> QED BY <1>6, <2>1, EmptyIsTable DEF SwapIn, TypeOK, Steps, world, locks
<1>7. CASE FindGaps(p)
  <2>1. {d \in 0..today : d + BackfillDays > today} \ DaysOf(Lines(table)) \in SUBSET Days
    BY DayAssumption DEF TypeOK, Days
  <2> QED BY <1>7, <2>1 DEF FindGaps, TypeOK, Steps, world, published, locks
<1>8. CASE Backfill(p)
  <2>1. SourceLines(FirstRange(gaps[p])) \in SUBSET Line
    BY PulledLines
  <2> QED BY <1>8, <2>1 DEF Backfill, TypeOK, Steps, world, published, locks
<1>9. CASE Finish(p)
  BY <1>9, LeaveType DEF Finish, TypeOK, LeaveTypes, world, published
<1> QED BY <1>1, <1>2, <1>3, <1>4, <1>5, <1>6, <1>7, <1>8, <1>9 DEF Continue

\* The types of the dataset, the locks and what every process has in hand.
THEOREM RefreshTypes == Spec => []TypeOK
<1>1. Init => TypeOK
  <2> SUFFICES ASSUME Init PROVE TypeOK
    OBVIOUS
  <2>1. 0 \in Days /\ 0 \in 0..MaxEdits /\ 0 \in 0..MaxCrashes
    BY DayAssumption, BudgetAssumption DEF Days
  <2>2. /\ pc \in [Procs -> Steps] /\ window \in [Procs -> SUBSET Days]
        /\ batch \in [Procs -> SUBSET Line] /\ gaps \in [Procs -> SUBSET Days]
        /\ month \in [Procs -> Nat] /\ staged \in [Procs -> Table]
    BY EmptyIsTable DEF Init, Steps
  <2> QED BY <2>1, <2>2, EmptyIsTable DEF Init, TypeOK
<1>2. TypeOK /\ [Next]_vars => TypeOK'
  <2> SUFFICES ASSUME TypeOK, [Next]_vars PROVE TypeOK'
    OBVIOUS
  <2>1. ASSUME NEW id \in Ids, NEW day \in Days \cup {NoDay}, Edit(id, day) PROVE TypeOK'
    BY <2>1, BudgetAssumption DEF Edit, TypeOK, published, locks, work
  <2>2. CASE NextDay
    BY <2>2, DayAssumption DEF NextDay, TypeOK, Days, published, locks, work
  <2>3. ASSUME NEW p \in Procs, Crash(p) PROVE TypeOK'
    BY <2>3, LeaveType, BudgetAssumption DEF Crash, TypeOK, LeaveTypes, world, published
  <2>4. CASE UNCHANGED vars
    BY <2>4 DEF vars, TypeOK, world, published, locks, work
  <2> QED BY <2>1, <2>2, <2>3, <2>4, BeginType, ContinueType DEF Next, Begins, Procs
<1> QED BY <1>1, <1>2, PTL DEF Spec

-----------------------------------------------------------------------------
(* The cache lock *)

\* Whoever refreshes holds the lock in the cache directory.
Locked == \A p \in EtlProcs : pc[p] # "idle" => cacheLock = p

\* The lock of the refresh loops is held from a refresh's first step to its last
\* (FileLock, initial_build, refresh_once, gap_backfill_only).
LEMMA LockKept == TypeOK /\ Locked /\ [Next]_vars => Locked'
<1> SUFFICES ASSUME TypeOK, Locked, [Next]_vars PROVE Locked'
  OBVIOUS
<1> USE DEF Locked
<1>1. ASSUME NEW p \in Procs, Leave(p) PROVE Locked'
  BY <1>1, ProcAssumption DEF Leave, TypeOK, Procs
<1>2. ASSUME NEW id \in Ids, NEW day \in Days \cup {NoDay}, Edit(id, day) PROVE Locked'
  BY <1>2 DEF Edit, locks
<1>3. CASE NextDay
  BY <1>3 DEF NextDay, locks
<1>4. ASSUME NEW p \in EtlProcs, NEW step, NEW dates, Begin(p, step, dates), TakeCacheLock(p)
      PROVE  Locked'
  BY <1>4, ProcAssumption DEF Begin, TakeCacheLock, TypeOK, Procs
<1>5. ASSUME NEW p \in EtlProcs, BeginRefresh(p) \/ BeginRebuild(p) \/ BeginBackfill(p)
      PROVE  Locked'
  BY <1>4, <1>5 DEF BeginRefresh, BeginRebuild, BeginBackfill, BuildOrPull, TakeCacheLock
<1>6. ASSUME NEW p \in JobProcs, BeginJob(p) PROVE Locked'
  <2>1. \A q \in EtlProcs : pc'[q] = pc[q]
    BY <1>6, ProcAssumption DEF BeginJob, BuildOrPull, Begin, TypeOK, Procs
  <2> QED BY <1>6, <2>1 DEF BeginJob
<1>7. ASSUME NEW p \in Procs, pc[p] # "idle", NEW step, pc' = [pc EXCEPT ![p] = step],
             cacheLock' = cacheLock
      PROVE  Locked'
  BY <1>7 DEF TypeOK, Procs
<1>8. ASSUME NEW p \in Procs, Continue(p) PROVE Locked'
  <2>1. CASE PullMonth(p)
    BY <2>1 DEF PullMonth, locks
  <2>2. CASE StageBuild(p)
    BY <1>1, <1>7, <2>2 DEF StageBuild, locks
  <2>3. CASE PullWindow(p)
    BY <1>7, <2>3 DEF PullWindow, locks
  <2>4. CASE StageUpsert(p)
    BY <1>7, <2>4 DEF StageUpsert, locks
  <2>5. CASE SwapOut(p)
    BY <1>7, <2>5 DEF SwapOut
  <2>6. CASE SwapIn(p)
    BY <1>7, <2>6 DEF SwapIn, locks
  <2>7. CASE FindGaps(p)
    BY <1>7, <2>7 DEF FindGaps, locks
  <2>8. CASE Backfill(p)
    BY <1>7, <2>8 DEF Backfill, locks
  <2>9. CASE Finish(p)
    BY <1>1, <2>9 DEF Finish
  <2> QED BY <1>8, <2>1, <2>2, <2>3, <2>4, <2>5, <2>6, <2>7, <2>8, <2>9 DEF Continue
<1>9. ASSUME NEW p \in Procs, Crash(p) PROVE Locked'
  BY <1>1, <1>9 DEF Crash
<1>10. CASE UNCHANGED vars
  BY <1>10 DEF vars, locks
<1> QED BY <1>2, <1>3, <1>5, <1>6, <1>8, <1>9, <1>10 DEF Next

\* Refresh loops, command-line rebuilds and backfills never run two at a time, however
\* many there are and whatever the web's jobs do to the dataset meanwhile.
LoopsApart == \A p, q \in EtlProcs : pc[p] # "idle" /\ pc[q] # "idle" => p = q
THEOREM LoopsStayApart == Spec => []LoopsApart
<1>1. Init => Locked
  BY DEF Init, Locked, Procs
<1>2. Locked => LoopsApart
  BY DEF Locked, LoopsApart
<1> QED BY <1>1, <1>2, LockKept, RefreshTypes, PTL DEF Spec

\* So only a job of the web, which takes another lock, may refresh beside another refresh.
JobsApart == \A p \in JobProcs, q \in Procs : pc[p] # "idle" /\ pc[q] # "idle" => p = q
LEMMA OnlyJobsOverlap == LoopsApart /\ JobsApart => OneRefreshAtATime
BY DEF LoopsApart, JobsApart, OneRefreshAtATime, Procs

\* Without the web's jobs one refreshes at a time; with them this fails, as a run shows.
THEOREM LoopsExclude == ASSUME NoJobs PROVE Spec => []OneRefreshAtATime
<1>1. LoopsApart => OneRefreshAtATime
  BY NoJobs, OnlyJobsOverlap DEF NoJobs, JobsApart
<1> QED BY <1>1, LoopsStayApart, PTL

-----------------------------------------------------------------------------
(* What a kill leaves behind *)

\* A lock is held by a process that is at work.
LocksAlive ==
    /\ cacheLock # NoProc => pc[cacheLock] # "idle"
    /\ dirLock # NoProc => pc[dirLock] # "idle"

\* A process that leaves takes its locks with it.
LEMMA LeavingUnlocks ==
    ASSUME TypeOK, LocksAlive, NEW p \in Procs, Leave(p) PROVE LocksAlive'
<1>1. /\ cacheLock' # NoProc => cacheLock' = cacheLock /\ cacheLock # p /\ cacheLock \in Procs
      /\ dirLock' # NoProc => dirLock' = dirLock /\ dirLock # p /\ dirLock \in Procs
  BY DEF Leave, TypeOK, Procs
<1>2. \A q \in Procs : q # p => pc'[q] = pc[q]
  BY DEF Leave, TypeOK
<1> QED BY <1>1, <1>2 DEF LocksAlive

\* One that goes on keeps them, or loses that of the directory with the directory.
LEMMA WorkKeepsLocks ==
    ASSUME TypeOK, LocksAlive, NEW p \in Procs, Continue(p) PROVE LocksAlive'
<1>1. ASSUME NEW step, step # "idle", pc' = [pc EXCEPT ![p] = step], cacheLock' = cacheLock,
             dirLock' \in {dirLock, NoProc}
      PROVE  LocksAlive'
  BY <1>1 DEF LocksAlive, TypeOK, Procs
<1>2. CASE PullMonth(p)
  BY <1>2 DEF PullMonth, locks, LocksAlive
<1>3. CASE StageBuild(p)
  BY <1>1, <1>3, LeavingUnlocks DEF StageBuild, locks
<1>4. CASE PullWindow(p)
  BY <1>1, <1>4 DEF PullWindow, locks
<1>5. CASE StageUpsert(p)
  BY <1>1, <1>5 DEF StageUpsert, locks
<1>6. CASE SwapOut(p)
  BY <1>1, <1>6 DEF SwapOut
<1>7. CASE SwapIn(p)
  BY <1>1, <1>7 DEF SwapIn, locks
<1>8. CASE FindGaps(p)
  BY <1>1, <1>8 DEF FindGaps, locks
<1>9. CASE Backfill(p)
  BY <1>1, <1>9 DEF Backfill, locks
<1>10. CASE Finish(p)
  BY <1>10, LeavingUnlocks DEF Finish
<1> QED BY <1>2, <1>3, <1>4, <1>5, <1>6, <1>7, <1>8, <1>9, <1>10 DEF Continue

\* No lock outlives its holder: whichever processes are killed, at whatever step, a
\* refresh finds a lock taken only while another is at work (FileLock, refresh_job).
THEOREM LocksAreLive == Spec => []LocksAlive
<1>1. Init => LocksAlive
  BY DEF Init, LocksAlive
<1>2. TypeOK /\ LocksAlive /\ [Next]_vars => LocksAlive'
  <2> SUFFICES ASSUME TypeOK, LocksAlive, [Next]_vars PROVE LocksAlive'
    OBVIOUS
  <2>1. ASSUME NEW p \in Procs, NEW step, step # "idle", NEW dates, Begin(p, step, dates),
               cacheLock' \in {cacheLock, p}, dirLock' \in {dirLock, p}
        PROVE  LocksAlive'
    BY <2>1 DEF Begin, LocksAlive, TypeOK, Procs
  <2>2. ASSUME NEW p \in EtlProcs, BeginRefresh(p) \/ BeginRebuild(p) \/ BeginBackfill(p)
        PROVE  LocksAlive'
    BY <2>1, <2>2 DEF BeginRefresh, BeginRebuild, BeginBackfill, BuildOrPull, TakeCacheLock, Procs
  <2>3. ASSUME NEW p \in JobProcs, BeginJob(p) PROVE LocksAlive'
    BY <2>1, <2>3 DEF BeginJob, BuildOrPull, Procs
  <2>4. ASSUME NEW p \in Procs, Crash(p) PROVE LocksAlive'
    BY <2>4, LeavingUnlocks DEF Crash
  <2>5. CASE NextDay \/ UNCHANGED vars \/ \E id \in Ids, day \in Days \cup {NoDay} : Edit(id, day)
    BY <2>5 DEF NextDay, Edit, vars, locks, LocksAlive
  <2> QED BY <2>2, <2>3, <2>4, <2>5, WorkKeepsLocks DEF Next
<1> QED BY <1>1, <1>2, RefreshTypes, PTL DEF Spec

\* Readers have the dataset, or a process is about to put it back.
Shown == present \/ Writers # {}

\* Once there, the dataset is gone for longer than a swap only after a kill between its
\* two renames, however loops and jobs overlap (_swap_dataset_dirs).
THEOREM OnlyKillsLoseTheDataset == Spec => [][Shown => Shown' \/ crashes' > crashes]_vars
<1>1. TypeOK /\ [Next]_vars => [Shown => Shown' \/ crashes' > crashes]_vars
  <2> SUFFICES ASSUME TypeOK, Next, Shown, crashes' = crashes PROVE Shown'
    <3>1. ASSUME TypeOK, Next PROVE crashes' = crashes \/ crashes' > crashes
      <4>1. crashes \in Nat
        BY <3>1, BudgetAssumption DEF TypeOK
      <4> QED BY <3>1, <4>1
            DEF Next, NextDay, Edit, BeginRefresh, BeginRebuild, BeginBackfill, BeginJob, BuildOrPull, Begin,
                Crash, Continue, PullMonth, StageBuild, PullWindow, StageUpsert, SwapOut, SwapIn, FindGaps,
                Backfill, Finish
    <3> QED BY <3>1
  <2>1. ASSUME present' = present, \A q \in Procs : pc[q] = "swapin" => pc'[q] = "swapin" PROVE Shown'
    BY <2>1 DEF Shown, Writers
  <2>2. ASSUME NEW p \in Procs, pc[p] # "swapin", NEW step, pc' = [pc EXCEPT ![p] = step],
               present' = present
        PROVE  Shown'
    BY <2>1, <2>2 DEF TypeOK
  <2>3. ASSUME NEW p \in Procs, Begins(p) PROVE Shown'
    BY <2>2, <2>3 DEF Begins, BeginRefresh, BeginRebuild, BeginBackfill, BeginJob, BuildOrPull, Begin, published
  <2>4. ASSUME NEW p \in Procs, Continue(p) PROVE Shown'
    <3>1. CASE PullMonth(p) \/ StageBuild(p)
      BY <2>1, <2>2, <3>1 DEF PullMonth, StageBuild, Leave, published
    <3>2. CASE PullWindow(p) \/ StageUpsert(p) \/ FindGaps(p) \/ Finish(p)
      BY <2>2, <3>2 DEF PullWindow, StageUpsert, FindGaps, Finish, Leave, published
    <3>3. CASE Backfill(p)
      BY <2>2, <3>3 DEF Backfill, published
    <3>4. CASE SwapOut(p)
      BY <3>4 DEF SwapOut, Shown, Writers, TypeOK
    <3>5. CASE SwapIn(p)
      BY <3>5 DEF SwapIn, Shown
    <3> QED BY <2>4, <3>1, <3>2, <3>3, <3>4, <3>5 DEF Continue
  <2>5. ASSUME NEW p \in Procs, Crash(p) PROVE FALSE
    BY <2>5, BudgetAssumption DEF Crash, TypeOK
  <2>6. CASE NextDay \/ \E id \in Ids, day \in Days \cup {NoDay} : Edit(id, day)
    BY <2>1, <2>6 DEF NextDay, Edit, published
  <2> QED BY <2>3, <2>4, <2>5, <2>6 DEF Next, Begins, Procs
<1> QED BY <1>1, RefreshTypes, PTL DEF Spec

-----------------------------------------------------------------------------
(* Duplicates *)

GoodTable(t) == WellPlaced(t) /\ Unique(Lines(t), torn)

\* What is published, staged and pulled has one line of each key; a dataset that is
\* being swapped is out of sight, so that what is swapped in is all there is.
Clean ==
    /\ GoodTable(table)
    /\ ~present => table = EmptyTable
    /\ \A p \in Procs : /\ GoodTable(staged[p])
                        /\ Unique(batch[p], torn)
                        /\ pc[p] = "swapin" => ~present

\* The empty dataset is good, and a line allowed twice stays so.
LEMMA EmptyIsGood == GoodTable(EmptyTable) /\ Lines(EmptyTable) = {}
BY DEF GoodTable, EmptyTable, WellPlaced, Lines, Unique

\* Allowing more keys twice keeps what is unique.
LEMMA UniqueGrows ==
    ASSUME NEW s, NEW u, NEW ls, s \subseteq u, Unique(ls, s) PROVE Unique(ls, u)
BY DEF Unique

\* A step that publishes nothing keeps the cleanness of what it stages or pulls.
LEMMA CleanFrame ==
    ASSUME TypeOK, Clean, NEW p \in Procs, UNCHANGED <<published, torn>>,
           NEW t, staged' = [staged EXCEPT ![p] = t], GoodTable(t),
           NEW b, batch' = [batch EXCEPT ![p] = b], Unique(b, torn),
           NEW step, pc' = [pc EXCEPT ![p] = step], step # "swapin"
    PROVE  Clean'
<1>1. \A q \in Procs : /\ staged'[q] = IF q = p THEN t ELSE staged[q]
                       /\ batch'[q] = IF q = p THEN b ELSE batch[q]
                       /\ pc'[q] = IF q = p THEN step ELSE pc[q]
  BY DEF TypeOK
<1>2. present' = present /\ table' = table /\ torn' = torn
  BY DEF published
<1>3. GoodTable(table)' /\ (~present => table = EmptyTable)'
  BY <1>2 DEF Clean, GoodTable
<1>4. ASSUME NEW q \in Procs
      PROVE  GoodTable(staged[q])' /\ Unique(batch[q], torn)' /\ (pc[q] = "swapin" => ~present)'
  BY <1>1, <1>2 DEF Clean, GoodTable
<1> QED BY <1>3, <1>4 DEF Clean

\* Letting go of everything is clean.
LEMMA LeaveClean ==
    ASSUME TypeOK, Clean, NEW p \in Procs, Leave(p), UNCHANGED <<published, torn>> PROVE Clean'
<1>1. /\ staged' = [staged EXCEPT ![p] = EmptyTable] /\ batch' = [batch EXCEPT ![p] = {}]
      /\ pc' = [pc EXCEPT ![p] = "idle"]
  BY DEF Leave
<1>2. Unique({}, torn)
  BY DEF Unique
<1> QED BY <1>1, <1>2, EmptyIsGood, CleanFrame

\* A full build pulls a month: a key it had already joins those allowed twice.
LEMMA PullMonthClean ==
    ASSUME TypeOK, Clean, NEW p \in Procs, PullMonth(p) PROVE Clean'
<1> DEFINE pulled == SourceLines({d \in window[p] : MonthOf(d) = month[p]})
<1>1. /\ batch' = [batch EXCEPT ![p] = @ \cup pulled]
      /\ torn' = torn \cup (KeysOf(pulled) \cap KeysOf(batch[p]))
      /\ UNCHANGED <<present, table, staged, pc>>
  BY DEF PullMonth, published
<1>2. pulled \in SUBSET Line /\ Unique(pulled, {})
  BY PulledLines
<1> HIDE DEF pulled
<1>3. torn \subseteq torn'
  BY <1>1
<1>4. \A t : GoodTable(t) => WellPlaced(t) /\ Unique(Lines(t), torn')
  BY <1>3, UniqueGrows DEF GoodTable
<1>5. Unique(batch[p] \cup pulled, torn')
  <2> SUFFICES ASSUME NEW l \in batch[p] \cup pulled, NEW m \in batch[p] \cup pulled,
                      l.id = m.id, l.id \notin torn'
               PROVE  l = m
    BY DEF Unique
  <2>1. CASE l \in batch[p] /\ m \in batch[p]
    BY <1>1, <2>1 DEF Clean, Unique
  <2>2. CASE l \in pulled /\ m \in pulled
    BY <1>2, <2>2 DEF Unique
  <2>3. CASE (l \in pulled /\ m \in batch[p]) \/ (m \in pulled /\ l \in batch[p])
    BY <1>1, <2>3 DEF KeysOf
  <2> QED BY <2>1, <2>2, <2>3
<1>6. GoodTable(table)' /\ (~present => table = EmptyTable)'
  BY <1>1, <1>4 DEF Clean, GoodTable
<1>7. ASSUME NEW q \in Procs
      PROVE  GoodTable(staged[q])' /\ Unique(batch[q], torn)' /\ (pc[q] = "swapin" => ~present)'
  <2>1. GoodTable(staged[q])' /\ (pc[q] = "swapin" => ~present)'
    BY <1>1, <1>4 DEF Clean, GoodTable
  <2>2. Unique(batch[q], torn')
    BY <1>3, UniqueGrows DEF Clean
  <2>3. batch'[q] = IF q = p THEN batch[p] \cup pulled ELSE batch[q]
    BY <1>1 DEF TypeOK
  <2> QED BY <1>5, <2>1, <2>2, <2>3
<1> QED BY <1>6, <1>7 DEF Clean

\* A full build is staged as pulled; an upsert from the dataset and the batch.
LEMMA StageClean ==
    ASSUME BatchesScanned, TypeOK, Clean, NEW p \in Procs, StageBuild(p) \/ StageUpsert(p)
    PROVE  Clean'
<1>1. CASE StageBuild(p)
  <2>1. CASE batch[p] = {}
    BY <1>1, <2>1, LeaveClean DEF StageBuild
  <2>2. CASE batch[p] # {}
    <3> DEFINE t == MonthDirectories(batch[p])
    <3>1. Lines(t) = batch[p] /\ WellPlaced(t)
      BY DEF MonthDirectories, Lines, WellPlaced
    <3>2. GoodTable(t)
      BY <3>1 DEF GoodTable, Clean
    <3>3. /\ staged' = [staged EXCEPT ![p] = t] /\ batch' = [batch EXCEPT ![p] = batch[p]]
          /\ pc' = [pc EXCEPT ![p] = "swapout"] /\ UNCHANGED <<published, torn>>
      BY <1>1, <2>2 DEF StageBuild, TypeOK
    <3>4. Unique(batch[p], torn)
      BY DEF Clean
    <3> HIDE DEF t
    <3> QED BY <3>2, <3>3, <3>4, CleanFrame
  <2> QED BY <2>1, <2>2
<1>2. CASE StageUpsert(p)
  <2> DEFINE t == Upsert(table, batch[p], window[p])
  <2>1. table \in Table /\ batch[p] \in SUBSET Line /\ window[p] \in SUBSET Days /\ Scanned(batch[p])
    BY <1>2 DEF TypeOK, StageUpsert, BatchesScanned
  <2>2. WellPlaced(table) /\ Unique(Lines(table), torn) /\ Unique(batch[p], torn)
    BY DEF Clean, GoodTable
  <2>3. WellPlaced(t) /\ Lines(t) \subseteq Replaced(Lines(table), batch[p], window[p])
    BY <2>1, <2>2, UpsertShape, UpsertKeepsNoStaleLine
  <2>4. Lines(table) \in SUBSET Line
    BY <2>1 DEF Lines, Table
  <2>5. Unique(Replaced(Lines(table), batch[p], window[p]), torn)
    BY <2>1, <2>2, <2>4, ReplacedUnique
  <2>6. GoodTable(t)
    BY <2>3, <2>5 DEF GoodTable, Unique
  <2>7. /\ staged' = [staged EXCEPT ![p] = t] /\ batch' = [batch EXCEPT ![p] = batch[p]]
        /\ pc' = [pc EXCEPT ![p] = "swapout"] /\ UNCHANGED <<published, torn>>
    BY <1>2 DEF StageUpsert, TypeOK
  <2> HIDE DEF t
  <2> QED BY <2>2, <2>6, <2>7, CleanFrame
<1> QED BY <1>1, <1>2

\* What is pulled for a window, a gap or nothing at all has one line of each key.
LEMMA PullClean ==
    ASSUME TypeOK, Clean, NEW p \in Procs, PullWindow(p) \/ FindGaps(p) \/ Backfill(p)
    PROVE  Clean'
<1>1. PICK b, step : /\ batch' = [batch EXCEPT ![p] = b] /\ Unique(b, torn)
                     /\ pc' = [pc EXCEPT ![p] = step] /\ step # "swapin"
  <2>1. \A dates : Unique(SourceLines(dates), torn)
    BY PulledLines DEF Unique
  <2>2. Unique({}, torn) /\ Unique(batch[p], torn)
    BY DEF Unique, Clean
  <2>3. batch = [batch EXCEPT ![p] = batch[p]]
    BY DEF TypeOK
  <2>4. CASE PullWindow(p)
    BY <2>1, <2>4 DEF PullWindow
  <2>5. CASE FindGaps(p)
    BY <2>2, <2>5 DEF FindGaps
  <2>6. CASE Backfill(p) /\ gaps[p] = {}
    BY <2>2, <2>3, <2>6 DEF Backfill
  <2>7. CASE Backfill(p) /\ gaps[p] # {}
    BY <2>1, <2>7 DEF Backfill
  <2> QED BY <2>4, <2>5, <2>6, <2>7
<1>2. GoodTable(staged[p]) /\ staged' = [staged EXCEPT ![p] = staged[p]]
      /\ UNCHANGED <<published, torn>>
  BY DEF PullWindow, FindGaps, Backfill, Clean, TypeOK
<1> QED BY <1>1, <1>2, CleanFrame

\* What is swapped in stands alone, since the old directory is gone.
LEMMA SwapInTable ==
    ASSUME TypeOK, Clean, NEW p \in Procs, SwapIn(p) PROVE table' = staged[p]
<1>1. ~present /\ table = EmptyTable /\ staged[p] \in Table
  BY DEF SwapIn, Clean, TypeOK
<1>2. staged[p] = [legacy |-> staged[p].legacy, days |-> [d \in Days |-> staged[p].days[d]]]
  BY <1>1 DEF Table
<1>3. Merged(table, staged[p])
        = [legacy |-> staged[p].legacy, days |-> [d \in Days |-> staged[p].days[d]]]
  BY <1>1 DEF Merged, EmptyTable
<1> QED BY <1>2, <1>3 DEF SwapIn

\* No two processes are between the two renames of a swap at once.
OneSwapAtATime == \A p, q \in Procs : pc[p] = "swapin" /\ pc[q] = "swapin" => p = q

\* The swap: one at a time, so that the dataset swapped in stands alone.
LEMMA SwapClean ==
    ASSUME OneSwapAtATime, TypeOK, Clean, NEW p \in Procs, SwapOut(p) \/ SwapIn(p)
    PROVE  Clean'
<1>1. CASE SwapOut(p)
  <2>1. /\ present' = FALSE /\ table' = EmptyTable
        /\ UNCHANGED <<torn, staged, batch>>
    BY <1>1 DEF SwapOut, work
  <2> QED BY <2>1, EmptyIsGood DEF Clean, GoodTable
<1>2. CASE SwapIn(p)
  <2>3. /\ present' = TRUE /\ table' = staged[p] /\ UNCHANGED <<torn, batch>>
        /\ staged' = [staged EXCEPT ![p] = EmptyTable]
    BY <1>2, SwapInTable DEF SwapIn
  <2>4. \A q \in Procs : pc'[q] # "swapin"
    <3> SUFFICES ASSUME NEW q \in Procs PROVE pc'[q] # "swapin"
      OBVIOUS
    <3>1. pc[p] = "swapin"
      BY <1>2 DEF SwapIn
    <3>2. CASE q = p
      BY <1>2, <3>2 DEF SwapIn, TypeOK
    <3>3. CASE q # p
      <4>1. pc[q] # "swapin"
        BY <3>1, <3>3 DEF OneSwapAtATime
      <4> QED BY <1>2, <3>3, <4>1 DEF SwapIn, TypeOK
    <3> QED BY <3>2, <3>3
  <2>5. GoodTable(table)' /\ (~present => table = EmptyTable)'
    BY <2>3 DEF Clean, GoodTable
  <2>6. \A q \in Procs : staged'[q] = IF q = p THEN EmptyTable ELSE staged[q]
    BY <2>3 DEF TypeOK
  <2>7. ASSUME NEW q \in Procs
        PROVE  GoodTable(staged[q])' /\ Unique(batch[q], torn)' /\ (pc[q] = "swapin" => ~present)'
    BY <2>3, <2>4, <2>6, EmptyIsGood DEF Clean, GoodTable
  <2> QED BY <2>5, <2>7 DEF Clean
<1> QED BY <1>1, <1>2

\* A refresh starts clean.
LEMMA BeginClean ==
    ASSUME TypeOK, Clean, NEW p \in Procs, Begins(p)
    PROVE  Clean'
<1>1. PICK step, dates : Begin(p, step, dates) /\ step # "swapin"
  BY DEF Begins, BeginRefresh, BeginRebuild, BeginBackfill, BeginJob, BuildOrPull
<1>2. /\ UNCHANGED <<present, table, torn, staged, batch>>
      /\ pc' = [pc EXCEPT ![p] = step]
  BY <1>1 DEF Begin, published
<1>3. \A q \in Procs : pc'[q] = "swapin" => pc[q] = "swapin"
  BY <1>1, <1>2 DEF TypeOK
<1> QED BY <1>2, <1>3 DEF Clean, GoodTable

\* Every refresh keeps the dataset clean, whatever others do but swap at the same time.
LEMMA CleanKept ==
    ASSUME BatchesScanned, OneSwapAtATime, TypeOK, Clean, [Next]_vars PROVE Clean'
<1>1. CASE UNCHANGED <<present, table, torn, staged, batch, pc>>
  BY <1>1 DEF Clean, GoodTable
<1>2. ASSUME NEW id \in Ids, NEW day \in Days \cup {NoDay}, Edit(id, day) PROVE Clean'
  BY <1>1, <1>2 DEF Edit, published, work
<1>3. CASE NextDay
  BY <1>1, <1>3 DEF NextDay, published, work
<1>4. ASSUME NEW p \in Procs, Continue(p) PROVE Clean'
  <2>1. CASE Finish(p)
    BY <2>1, LeaveClean DEF Finish
  <2> QED BY <1>4, <2>1, PullMonthClean, StageClean, PullClean, SwapClean DEF Continue
<1>5. ASSUME NEW p \in Procs, Crash(p) PROVE Clean'
  BY <1>5, LeaveClean DEF Crash
<1>6. CASE UNCHANGED vars
  BY <1>1, <1>6 DEF vars, published, work
<1> QED BY <1>2, <1>3, <1>4, <1>5, <1>6, BeginClean DEF Next, Begins, Procs

\* Rows move between partitions without leaving duplicates behind, for any number of
\* loops, jobs, dates and lines, as long as no batch is above the limit of the duplicate
\* scan and no two swaps interleave: refreshes that overlap otherwise may lose one
\* another's work, but leave no key twice (upsert_dataset, _swap_dataset_dirs).
THEOREM NoDuplicates == Spec /\ []OneSwapAtATime /\ []BatchesScanned => []NoDuplicateLines
<1>1. Init => Clean
  BY EmptyIsGood DEF Init, Clean, Unique
<1>2. TypeOK /\ OneSwapAtATime /\ BatchesScanned /\ Clean /\ [Next]_vars => Clean'
  BY CleanKept
<1>3. Clean => NoDuplicateLines
  BY DEF Clean, GoodTable, NoDuplicateLines
<1> QED BY <1>1, <1>2, <1>3, RefreshTypes, PTL DEF Spec
-----------------------------------------------------------------------------
(* FactTable *)

\* An upsert loses no line it should have kept, when a day the batch adds to without
\* replacing it has no lines in month directories: these are folded past the days rewritten.
LEMMA UpsertIsReplaced ==
    ASSUME NEW t \in Table, WellPlaced(t), NEW b \in SUBSET Line, NEW w \in SUBSET Days, Scanned(b),
           DaysOf(b) \cap DaysOf(t.legacy) \subseteq w
    PROVE  Lines(Upsert(t, b, w)) = Replaced(Lines(t), b, w)
<1> DEFINE touched == DaysOf(b) \cup w \cup PartitionsHolding(t, b)
<1> SUFFICES ASSUME NEW x \in Replaced(Lines(t), b, w) PROVE x \in Lines(Upsert(t, b, w))
  BY UpsertKeepsNoStaleLine
<1>1. x \in Line /\ x.day \in Days
  BY DEF Replaced, Survivors, Lines, Table, Line
<1>2. CASE x \in b
  <2>1. x.day \in touched /\ x \in {l \in b : l.day = x.day}
    BY <1>2 DEF DaysOf
  <2> QED BY <1>1, <2>1 DEF Lines, Upsert
<1>3. CASE x \in Survivors(Lines(t), b, w)
  <2>1. x \in Lines(t) /\ x.id \notin KeysOf(b) /\ x.day \notin w
    BY <1>3 DEF Survivors
  <2>3. CASE x \in t.legacy
    <3>1. x.day \notin DaysOf(b)
      BY <2>1, <2>3 DEF DaysOf
    <3>2. PartitionsHolding(t, b) = {}
      BY <2>3 DEF PartitionsHolding
    <3>3. x.day \notin touched /\ x \in Folded(t, b, w, x.day)
      BY <2>1, <2>3, <3>1, <3>2 DEF Folded, Survivors
    <3> QED BY <1>1, <3>3 DEF Lines, Upsert
  <2>4. CASE x \notin t.legacy
    <3>1. x \in t.days[x.day]
      BY <2>1, <2>4 DEF Lines, WellPlaced
    <3>2. x \in Survivors(t.days[x.day], b, w) /\ x \in Folded(t, b, w, x.day)
      BY <2>1, <3>1 DEF Survivors, Folded
    <3> QED BY <1>1, <3>2 DEF Lines, Upsert
  <2> QED BY <2>3, <2>4
<1> QED BY <1>2, <1>3 DEF Replaced

\* Day directories are what their lines say: no two such datasets hold the same lines.
LEMMA SameLinesSameTable ==
    ASSUME NEW t \in Table, WellPlaced(t), t.legacy = {}, NEW u \in Table, WellPlaced(u), u.legacy = {},
           Lines(t) = Lines(u)
    PROVE  t = u
<1>1. ASSUME NEW d \in Days PROVE t.days[d] = u.days[d]
  <2>1. /\ t.days[d] \subseteq Lines(t) /\ \A l \in t.days[d] : l.day = d
        /\ u.days[d] \subseteq Lines(u) /\ \A l \in u.days[d] : l.day = d
    BY DEF Lines, WellPlaced
  <2>2. \A l \in Lines(t) : l.day = d => l \in t.days[d]
    BY DEF Lines, WellPlaced
  <2>3. \A l \in Lines(u) : l.day = d => l \in u.days[d]
    BY DEF Lines, WellPlaced
  <2> QED BY <2>1, <2>2, <2>3
<1>2. t.days = u.days
  BY <1>1 DEF Table
<1> QED BY <1>2 DEF Table

\* An upsert done again is done once: a refresh that pulls the window it pulled before,
\* after a crash or at its next cycle, leaves the dataset as it is (upsert_dataset).
THEOREM UpsertRepeats ==
    ASSUME NEW t \in Table, WellPlaced(t), NEW b \in SUBSET Line, NEW w \in SUBSET Days, Scanned(b),
           DaysOf(b) \cap DaysOf(t.legacy) \subseteq w
    PROVE  Upsert(Upsert(t, b, w), b, w) = Upsert(t, b, w)
<1> DEFINE once == Upsert(t, b, w)
           twice == Upsert(once, b, w)
<1>1. once \in Table /\ WellPlaced(once) /\ once.legacy = {} /\ Lines(once) = Replaced(Lines(t), b, w)
  BY UpsertShape, UpsertIsReplaced DEF Upsert
<1> HIDE DEF once
<1>2. DaysOf(once.legacy) = {}
  BY <1>1 DEF DaysOf
<1>3. twice \in Table /\ WellPlaced(twice) /\ twice.legacy = {} /\ Lines(twice) = Replaced(Lines(once), b, w)
  BY <1>1, <1>2, UpsertShape, UpsertIsReplaced DEF Upsert
<1>4. Replaced(Replaced(Lines(t), b, w), b, w) = Replaced(Lines(t), b, w)
  BY DEF Replaced, Survivors, KeysOf
<1> HIDE DEF twice
<1>5. twice = once
  BY <1>1, <1>3, <1>4, SameLinesSameTable
<1> QED BY <1>5 DEF once, twice

\* What a process has in hand fits the dataset that is there: a batch for an upsert has
\* lines of its own, on days of its window or on days without any, and what is staged
\* replaces the lines a reader still sees.
Ready(p) ==
    /\ pc[p] \in {"pull", "stage", "findgaps", "backfill"} => present
    /\ pc[p] = "stage" =>
        /\ batch[p] # {} /\ Unique(batch[p], {})
        /\ DaysOf(batch[p]) \cap DaysOf(Lines(table)) \subseteq window[p]
        /\ window[p] = {} => gaps[p] \cap (DaysOf(Lines(table)) \cup DaysOf(batch[p])) = {}
    /\ pc[p] \in {"swapout", "swapin"} /\ staged[p].legacy = {} /\ window[p] = {} =>
        gaps[p] \cap DaysOf(Lines(staged[p])) = {}
    /\ pc[p] = "swapout" /\ staged[p].legacy = {} =>
        /\ present /\ batch[p] # {} /\ Unique(batch[p], {})
        /\ Lines(staged[p]) = Replaced(Lines(table), batch[p], window[p])
    /\ pc[p] = "backfill" => gaps[p] \cap DaysOf(Lines(table)) = {}
Prepared == \A p \in Procs : Ready(p)

\* While a process works, the others are idle.
LEMMA OthersIdle ==
    ASSUME TypeOK, OneRefreshAtATime, OneRefreshAtATime', NEW p \in Procs,
           NEW step, pc' = [pc EXCEPT ![p] = step], pc[p] # "idle" \/ step # "idle"
    PROVE  \A q \in Procs : q # p => pc[q] = "idle" /\ pc'[q] = "idle"
BY DEF TypeOK, OneRefreshAtATime

\* A process that is idle has nothing to fit.
LEMMA IdleReady == ASSUME NEW p, pc[p] = "idle" PROVE Ready(p)
BY DEF Ready

\* So a step of a process is about that process only.
LEMMA OneReady ==
    ASSUME TypeOK, OneRefreshAtATime, OneRefreshAtATime', NEW p \in Procs,
           NEW step, pc' = [pc EXCEPT ![p] = step], pc[p] # "idle" \/ step # "idle",
           Ready(p)'
    PROVE  Prepared'
BY OthersIdle DEF Prepared, Ready

\* Steps that say what a refresh will write next keep what is in hand fitting.
LEMMA PreparedKept ==
    ASSUME BatchesScanned, TypeOK, OneRefreshAtATime, OneRefreshAtATime', Clean, Prepared, [Next]_vars
    PROVE  Prepared'
<1>1. CASE UNCHANGED <<present, table, pc, work>>
  BY <1>1 DEF Prepared, Ready, work
<1>2. ASSUME NEW id \in Ids, NEW day \in Days \cup {NoDay}, Edit(id, day) PROVE Prepared'
  BY <1>1, <1>2 DEF Edit, published
<1>3. CASE NextDay
  BY <1>1, <1>3 DEF NextDay, published
<1>4. ASSUME NEW p \in Procs, Begins(p) PROVE Prepared'
  <2>1. PICK step \in {"pull", "build", "findgaps"} :
            pc[p] = "idle" /\ pc' = [pc EXCEPT ![p] = step] /\ (step # "build" => present) /\ present' = present
    BY <1>4 DEF Begins, BeginRefresh, BeginRebuild, BeginBackfill, BeginJob, BuildOrPull, Begin, published
  <2>2. Ready(p)'
    BY <2>1 DEF Ready, TypeOK
  <2> QED BY <2>1, <2>2, OneReady
<1>5. ASSUME NEW p \in Procs, pc[p] # "idle", Leave(p) PROVE Prepared'
  <2>1. pc' = [pc EXCEPT ![p] = "idle"] /\ Ready(p)'
    BY <1>5 DEF Leave, Ready, TypeOK
  <2> QED BY <1>5, <2>1, OneReady
<1>6. ASSUME NEW p \in Procs, PullMonth(p) PROVE Prepared'
  <2>1. pc[p] = "build" /\ pc' = [pc EXCEPT ![p] = "build"]
    BY <1>6 DEF PullMonth, TypeOK
  <2>2. Ready(p)'
    BY <2>1 DEF Ready, TypeOK
  <2> QED BY <2>1, <2>2, OneReady
<1>7. ASSUME NEW p \in Procs, StageBuild(p), batch[p] # {} PROVE Prepared'
  <2>1. /\ pc[p] = "build" /\ pc' = [pc EXCEPT ![p] = "swapout"]
        /\ staged' = [staged EXCEPT ![p] = MonthDirectories(batch[p])]
    BY <1>7 DEF StageBuild
  <2>2. pc'[p] = "swapout" /\ staged'[p].legacy # {}
    BY <1>7, <2>1 DEF TypeOK, MonthDirectories
  <2>3. Ready(p)'
    BY <2>2 DEF Ready
  <2> QED BY <2>1, <2>3, OneReady
<1>8. ASSUME NEW p \in Procs, PullWindow(p) PROVE Prepared'
  <2> DEFINE pulled == SourceLines(window[p])
  <2>1. /\ pc[p] = "pull" /\ present /\ UNCHANGED <<present, table, window>>
        /\ batch' = [batch EXCEPT ![p] = pulled]
        /\ pc' = [pc EXCEPT ![p] = IF pulled = {} THEN "findgaps" ELSE "stage"]
    BY <1>8 DEF PullWindow, published, Prepared, Ready
  <2>2. Unique(pulled, {}) /\ DaysOf(pulled) \subseteq window[p]
    BY PulledLines DEF DaysOf, SourceLines
  <2>3. window[p] = {} => pulled = {}
    BY DEF SourceLines
  <2> HIDE DEF pulled
  <2>4. /\ batch'[p] = pulled /\ pc'[p] \in {"findgaps", "stage"}
        /\ (pc'[p] = "stage" => pulled # {})
    BY <2>1 DEF TypeOK
  <2>5. Ready(p)'
    BY <2>1, <2>2, <2>3, <2>4 DEF Ready
  <2> QED BY <2>1, <2>5, OneReady
<1>9. ASSUME NEW p \in Procs, StageUpsert(p) PROVE Prepared'
  <2> DEFINE t == Upsert(table, batch[p], window[p])
  <2>1. /\ pc[p] = "stage" /\ pc' = [pc EXCEPT ![p] = "swapout"]
        /\ staged' = [staged EXCEPT ![p] = t]
        /\ UNCHANGED <<present, table, window, batch, gaps>>
    BY <1>9 DEF StageUpsert, published
  <2>2. /\ present /\ batch[p] # {} /\ Unique(batch[p], {})
        /\ DaysOf(batch[p]) \cap DaysOf(Lines(table)) \subseteq window[p]
        /\ window[p] = {} => gaps[p] \cap (DaysOf(Lines(table)) \cup DaysOf(batch[p])) = {}
        /\ Scanned(batch[p])
    BY <2>1 DEF Prepared, Ready, BatchesScanned
  <2>3. Lines(t) = Replaced(Lines(table), batch[p], window[p])
    <3>1. DaysOf(table.legacy) \subseteq DaysOf(Lines(table))
      BY DEF DaysOf, Lines
    <3> QED BY <2>2, <3>1, UpsertIsReplaced DEF TypeOK, Clean, GoodTable
  <2>4. DaysOf(Lines(t)) \subseteq DaysOf(Lines(table)) \cup DaysOf(batch[p])
    BY <2>3 DEF DaysOf, Replaced, Survivors
  <2> HIDE DEF t
  <2>5. pc'[p] = "swapout" /\ staged'[p] = t
    BY <2>1 DEF TypeOK
  <2>6. Ready(p)'
    BY <2>1, <2>2, <2>3, <2>4, <2>5 DEF Ready
  <2> QED BY <2>1, <2>6, OneReady
<1>10. ASSUME NEW p \in Procs, SwapOut(p) PROVE Prepared'
  <2>1. /\ pc[p] = "swapout" /\ pc' = [pc EXCEPT ![p] = "swapin"]
        /\ UNCHANGED <<staged, window, gaps>>
    BY <1>10 DEF SwapOut, work
  <2>2. pc'[p] = "swapin"
    BY <2>1 DEF TypeOK
  <2>3. Ready(p)'
    BY <2>1, <2>2 DEF Prepared, Ready
  <2> QED BY <2>1, <2>3, OneReady
<1>11. ASSUME NEW p \in Procs, SwapIn(p) PROVE Prepared'
  <2>1. PICK step \in {"done", "findgaps", "backfill"} :
            /\ pc[p] = "swapin" /\ pc' = [pc EXCEPT ![p] = step] /\ present' = TRUE
            /\ step = "backfill" => staged[p].legacy = {} /\ window[p] = {}
            /\ gaps' = gaps
    BY <1>11 DEF SwapIn
  <2>2. Lines(table') = Lines(staged[p])
    BY <1>11, SwapInTable
  <2>3. pc'[p] = step
    BY <2>1 DEF TypeOK
  <2>4. step = "backfill" => gaps[p] \cap DaysOf(Lines(staged[p])) = {}
    BY <2>1 DEF Prepared, Ready
  <2>5. Ready(p)'
    BY <2>1, <2>2, <2>3, <2>4 DEF Ready
  <2> QED BY <2>1, <2>5, OneReady
<1>12. ASSUME NEW p \in Procs, FindGaps(p) PROVE Prepared'
  <2>1. /\ pc[p] = "findgaps" /\ pc' = [pc EXCEPT ![p] = "backfill"] /\ present
        /\ UNCHANGED <<present, table>>
    BY <1>12 DEF FindGaps, published, Prepared, Ready
  <2>2. pc'[p] = "backfill" /\ gaps'[p] \cap DaysOf(Lines(table)) = {}
    BY <1>12 DEF FindGaps, TypeOK
  <2>3. Ready(p)'
    BY <2>1, <2>2 DEF Ready
  <2> QED BY <2>1, <2>3, OneReady
<1>13. ASSUME NEW p \in Procs, Backfill(p) PROVE Prepared'
  <2>1. /\ pc[p] = "backfill" /\ present /\ gaps[p] \cap DaysOf(Lines(table)) = {}
        /\ UNCHANGED <<present, table, window>>
    BY <1>13 DEF Backfill, published, Prepared, Ready
  <2>2. CASE gaps[p] = {}
    <3>1. pc' = [pc EXCEPT ![p] = "done"] /\ pc'[p] = "done"
      BY <1>13, <2>2 DEF Backfill, TypeOK
    <3>2. Ready(p)'
      BY <3>1 DEF Ready
    <3> QED BY <2>1, <3>1, <3>2, OneReady
  <2>3. CASE gaps[p] # {}
    <3> DEFINE range == FirstRange(gaps[p])
               pulled == SourceLines(range)
    <3>1. /\ gaps' = [gaps EXCEPT ![p] = @ \ range] /\ batch' = [batch EXCEPT ![p] = pulled]
          /\ pc' = [pc EXCEPT ![p] = IF pulled = {} THEN "backfill" ELSE "stage"]
      BY <1>13, <2>3 DEF Backfill
    <3>2. Unique(pulled, {}) /\ DaysOf(pulled) \subseteq range /\ range \subseteq gaps[p]
      BY PulledLines DEF DaysOf, SourceLines, FirstRange
    <3> HIDE DEF pulled, range
    <3>3. /\ batch'[p] = pulled /\ gaps'[p] = gaps[p] \ range
          /\ pc'[p] \in {"backfill", "stage"} /\ (pc'[p] = "stage" => pulled # {})
      BY <3>1 DEF TypeOK
    <3>4. Ready(p)'
      BY <2>1, <3>2, <3>3 DEF Ready
    <3> QED BY <2>1, <3>1, <3>4, OneReady
  <2> QED BY <2>2, <2>3
<1>14. ASSUME NEW p \in Procs, Finish(p) \/ Crash(p) \/ (StageBuild(p) /\ batch[p] = {}) PROVE Prepared'
  BY <1>5, <1>14 DEF Finish, Crash, StageBuild
<1>15. CASE UNCHANGED vars
  BY <1>1, <1>15 DEF vars, published
<1> QED
  BY <1>2, <1>3, <1>4, <1>6, <1>7, <1>8, <1>9, <1>10, <1>11, <1>12, <1>13, <1>14, <1>15
     DEF Next, Continue, Begins, Procs

\* What readers see changes with the writers and what is published only.
LEMMA Unseen ==
    ASSUME UNCHANGED published, Writers' = Writers, \A p \in Writers : staged'[p] = staged[p]
    PROVE  UNCHANGED <<Seen, Phase>>
<1>1. UNION {Lines(staged'[p]) : p \in Writers'} = UNION {Lines(staged[p]) : p \in Writers}
  OBVIOUS
<1>2. Seen' = Seen
  BY <1>1 DEF Seen, published
<1>3. (\E p \in Writers' : staged'[p].legacy # {}) <=> \E p \in Writers : staged[p].legacy # {}
  OBVIOUS
<1>4. Phase' = Phase
  BY <1>3 DEF Phase, published
<1> QED BY <1>2, <1>4

\* Readers are promised sets of the same lines.
LEMMA SameLines ==
    /\ Promise!Line = Line /\ Promise!Days = Days
    /\ \A b, s : Promise!Unique(b, s) <=> Unique(b, s)
    /\ \A ls, b, w : Promise!Replaced(ls, b, w) = Replaced(ls, b, w)
BY DEF Promise!Line, Line, Promise!Days, Days, Promise!Unique, Unique, Promise!Replaced, Replaced,
       Promise!Survivors, Survivors, Promise!KeysOf, KeysOf

\* Every step of a refresh that a reader can see is one of FactTable.
LEMMA StepIsPromised ==
    ASSUME TypeOK, OneRefreshAtATime, OneRefreshAtATime', Clean, Prepared, [Next]_vars
    PROVE  [Promise!Next]_<<Seen, Phase>>
<1>1. ASSUME UNCHANGED published, Writers' = Writers, \A p \in Writers : staged'[p] = staged[p]
      PROVE  [Promise!Next]_<<Seen, Phase>>
  BY <1>1, Unseen
<1>2. ASSUME UNCHANGED <<published, pc, staged>> PROVE [Promise!Next]_<<Seen, Phase>>
  BY <1>1, <1>2 DEF Writers
<1>3. ASSUME NEW p \in Procs, UNCHANGED published, NEW step, pc' = [pc EXCEPT ![p] = step],
             \A q \in Procs : q # p => staged'[q] = staged[q], pc[p] # "swapin", step # "swapin"
      PROVE  [Promise!Next]_<<Seen, Phase>>
  <2>1. \A q \in Procs : pc'[q] = "swapin" <=> pc[q] = "swapin"
    BY <1>3 DEF TypeOK
  <2>2. Writers' = Writers /\ \A q \in Writers : staged'[q] = staged[q]
    BY <1>3, <2>1 DEF Writers
  <2> QED BY <1>1, <1>3, <2>2
<1>4. ASSUME NEW p \in Procs, SwapOut(p) PROVE Promise!Next
  <2>1. /\ pc[p] = "swapout" /\ pc' = [pc EXCEPT ![p] = "swapin"]
        /\ ~present' /\ UNCHANGED <<staged, batch, window>>
    BY <1>4 DEF SwapOut, work
  <2>2. \A q \in Procs : pc[q] # "swapin" /\ (pc'[q] = "swapin" <=> q = p)
    BY <2>1, OthersIdle DEF TypeOK
  <2>3. Writers = {} /\ Writers' = {p}
    BY <2>2 DEF Writers
  <2>4. Seen' = Lines(staged[p])
    BY <2>1, <2>3 DEF Seen
  <2>5. staged[p] \in Table /\ batch[p] \in SUBSET Line /\ window[p] \in SUBSET Days
    BY DEF TypeOK
  <2>6. CASE staged[p].legacy # {}
    <3>1. Phase \in {"shown", "missing"} /\ Phase' = "rebuilding"
      BY <2>1, <2>3, <2>6 DEF Phase
    <3>2. Lines(staged[p]) \in (SUBSET Line) \ {{}}
      <4>1. staged[p].legacy \subseteq Line /\ \A d \in Days : staged[p].days[d] \subseteq Line
        BY <2>5 DEF Table
      <4> QED BY <2>6, <4>1 DEF Lines
    <3>3. Seen' \in (SUBSET Promise!Line) \ {{}}
      BY <2>4, <3>2, SameLines
    <3> QED BY <3>1, <3>3 DEF Promise!Next, Promise!Rebuild
  <2>7. CASE staged[p].legacy = {}
    <3>1. /\ present /\ batch[p] # {} /\ Unique(batch[p], {})
          /\ Lines(staged[p]) = Replaced(Lines(table), batch[p], window[p])
      BY <2>1, <2>7 DEF Prepared, Ready
    <3>2. Phase = "shown" /\ Phase' = "replacing" /\ Seen = Lines(table)
      BY <2>1, <2>3, <2>7, <3>1 DEF Phase, Seen
    <3>3. batch[p] \in (SUBSET Promise!Line) \ {{}} /\ window[p] \in SUBSET Promise!Days
      <4>1. Promise!Line = Line /\ Promise!Days = Days
        BY SameLines
      <4> QED BY <2>5, <3>1, <4>1
    <3>4. Promise!Unique(batch[p], {}) /\ Seen' = Promise!Replaced(Seen, batch[p], window[p])
      BY <2>4, <3>1, <3>2, SameLines
    <3>5. Promise!Replace
      BY <3>2, <3>3, <3>4 DEF Promise!Replace
    <3> QED BY <3>5 DEF Promise!Next
  <2> QED BY <2>6, <2>7
<1>5. ASSUME NEW p \in Procs, SwapIn(p) PROVE Promise!Next
  <2>1. pc[p] = "swapin" /\ present' /\ ~present
    BY <1>5 DEF SwapIn, Clean
  <2>2. Writers = {p}
    BY <2>1 DEF Writers, OneRefreshAtATime
  <2>3. Seen = Lines(staged[p]) /\ Seen' = Lines(table')
    BY <2>1, <2>2 DEF Seen
  <2>4. Phase \in {"replacing", "rebuilding"} /\ Phase' = "shown"
    BY <2>1, <2>2 DEF Phase
  <2>5. Seen' = Seen
    BY <1>5, <2>3, SwapInTable
  <2> QED BY <2>4, <2>5 DEF Promise!Next, Promise!Show
<1>6. ASSUME NEW p \in Procs, Crash(p), pc[p] = "swapin" PROVE Promise!Next
  <2>1. /\ pc' = [pc EXCEPT ![p] = "idle"] /\ ~present /\ ~present'
    BY <1>6 DEF Crash, Leave, published, Clean
  <2>2. Writers = {p}
    BY <1>6 DEF Writers, OneRefreshAtATime
  <2>3. Writers' = {}
    BY <1>6, <2>1, OthersIdle DEF Writers, TypeOK
  <2>4. Phase \in {"replacing", "rebuilding"} /\ Phase' = "missing" /\ Seen' = {}
    BY <2>1, <2>2, <2>3 DEF Phase, Seen
  <2> QED BY <2>4 DEF Promise!Next, Promise!Lose
<1>7. ASSUME NEW p \in Procs, Leave(p), UNCHANGED published, pc[p] # "swapin"
      PROVE  [Promise!Next]_<<Seen, Phase>>
  <2>1. pc' = [pc EXCEPT ![p] = "idle"] /\ \A q \in Procs : q # p => staged'[q] = staged[q]
    BY <1>7 DEF Leave, TypeOK
  <2> QED BY <1>3, <1>7, <2>1
<1>8. ASSUME NEW p \in Procs, Begins(p) PROVE [Promise!Next]_<<Seen, Phase>>
  <2>1. PICK step : /\ pc[p] = "idle" /\ pc' = [pc EXCEPT ![p] = step] /\ step # "swapin"
                    /\ UNCHANGED <<published, staged>>
    BY <1>8 DEF Begins, BeginRefresh, BeginRebuild, BeginBackfill, BeginJob, BuildOrPull, Begin
  <2> QED BY <1>3, <2>1
<1>9. ASSUME NEW p \in Procs, Continue(p) PROVE [Promise!Next]_<<Seen, Phase>>
  <2>2. CASE PullMonth(p)
    BY <1>2, <2>2 DEF PullMonth
  <2>3. CASE StageBuild(p)
    <3>1. CASE batch[p] = {}
      BY <1>7, <2>3, <3>1 DEF StageBuild
    <3>2. CASE batch[p] # {}
      <4>1. /\ pc[p] = "build" /\ pc' = [pc EXCEPT ![p] = "swapout"] /\ UNCHANGED published
            /\ \A q \in Procs : q # p => staged'[q] = staged[q]
        BY <2>3, <3>2 DEF StageBuild, TypeOK
      <4> QED BY <1>3, <4>1
    <3> QED BY <3>1, <3>2
  <2>4. CASE PullWindow(p)
    <3>1. PICK step \in {"findgaps", "stage"} : pc' = [pc EXCEPT ![p] = step]
      BY <2>4 DEF PullWindow
    <3> QED BY <1>3, <2>4, <3>1 DEF PullWindow
  <2>5. CASE StageUpsert(p)
    <3>1. /\ pc[p] = "stage" /\ pc' = [pc EXCEPT ![p] = "swapout"] /\ UNCHANGED published
          /\ \A q \in Procs : q # p => staged'[q] = staged[q]
      BY <2>5 DEF StageUpsert, TypeOK
    <3> QED BY <1>3, <3>1
  <2>6. CASE FindGaps(p)
    <3>1. pc[p] = "findgaps" /\ pc' = [pc EXCEPT ![p] = "backfill"] /\ UNCHANGED <<published, staged>>
      BY <2>6 DEF FindGaps
    <3> QED BY <1>3, <3>1
  <2>7. CASE Backfill(p)
    <3>1. PICK step \in {"done", "backfill", "stage"} : pc' = [pc EXCEPT ![p] = step]
      BY <2>7 DEF Backfill
    <3> QED BY <1>3, <2>7, <3>1 DEF Backfill
  <2>8. CASE Finish(p)
    BY <1>7, <2>8 DEF Finish
  <2> QED BY <1>4, <1>5, <1>9, <2>2, <2>3, <2>4, <2>5, <2>6, <2>7, <2>8 DEF Continue
<1>10. ASSUME NEW p \in Procs, Crash(p) PROVE [Promise!Next]_<<Seen, Phase>>
  BY <1>6, <1>7, <1>10 DEF Crash
<1>11. ASSUME NEW id \in Ids, NEW day \in Days \cup {NoDay}, Edit(id, day)
       PROVE  [Promise!Next]_<<Seen, Phase>>
  BY <1>2, <1>11 DEF Edit, work
<1>12. CASE NextDay
  BY <1>2, <1>12 DEF NextDay, work
<1>13. CASE UNCHANGED vars
  BY <1>2, <1>13 DEF vars, work
<1> QED BY <1>8, <1>9, <1>10, <1>11, <1>12, <1>13 DEF Next, Begins, Procs

\* The lines of month and day directories, swaps and crashes included, change for a
\* reader only as FactTable says: an upsert loses and keeps exactly what it should, for
\* any number of loops, jobs, dates and lines, while no job runs beside another refresh
\* and no batch is above the limit of the duplicate scan.
THEOREM DatasetKeepsItsPromise == Spec /\ []JobsApart /\ []BatchesScanned => ImplementsFactTable
<1>1. Init => Promise!Init
  <2> SUFFICES ASSUME Init PROVE Promise!Init
    OBVIOUS
  <2>1. ~present /\ Writers = {}
    BY DEF Init, Writers
  <2> QED BY <2>1 DEF Phase, Seen, Promise!Init
<1>2. Init => Clean /\ Prepared
  BY EmptyIsGood DEF Init, Clean, Unique, Prepared, Ready
<1>3. TypeOK /\ BatchesScanned /\ OneRefreshAtATime /\ OneRefreshAtATime' /\ Clean /\ Prepared /\ [Next]_vars
        => Clean' /\ Prepared' /\ [Promise!Next]_<<Seen, Phase>>
  <2>1. OneRefreshAtATime => OneSwapAtATime
    BY DEF OneRefreshAtATime, OneSwapAtATime
  <2> QED BY <2>1, CleanKept, PreparedKept, StepIsPromised
<1> QED BY <1>1, <1>2, <1>3, LoopsStayApart, OnlyJobsOverlap, RefreshTypes, PTL
        DEF Spec, ImplementsFactTable, Promise!Spec

\* The loops alone keep it, and leave no key twice, when the limit of the scan is off or
\* above the number of order lines.
THEOREM LoopsKeepTheDataset ==
    ASSUME NoJobs, NoScanLimit PROVE Spec => ImplementsFactTable /\ []NoDuplicateLines
<1>1. TypeOK => BatchesScanned
  BY NoScanLimit, WithinLimit DEF TypeOK, BatchesScanned
<1>2. JobsApart
  BY NoJobs DEF NoJobs, JobsApart
<1>3. OneRefreshAtATime => OneSwapAtATime
  BY DEF OneRefreshAtATime, OneSwapAtATime
<1>4. Spec => []OneRefreshAtATime
  BY LoopsExclude, NoJobs
<1> QED BY <1>1, <1>2, <1>3, <1>4, RefreshTypes, DatasetKeepsItsPromise, NoDuplicates, PTL
=============================================================================
