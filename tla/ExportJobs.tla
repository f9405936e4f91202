------------------------------ MODULE ExportJobs ------------------------------
(***************************************************************************)
(* The assistant's export jobs, app/assistant/export_job_store.py, with    *)
(* the files they make (export_store.py), in the memory of one web process *)
(* and shared by its request threads and a pool of worker threads.         *)
(*                                                                         *)
(* A job is known by the order it was accepted in.  An entry of a TTLCache *)
(* that has expired is dropped when the clock moves: no read can tell.     *)
(***************************************************************************)
EXTENDS Integers, Sequences, FiniteSets

CONSTANTS
    Users, RequestKeys,
    Workers,        \* threads of _EXECUTOR
    MaxPerMinute, MaxActive,
    Minute,         \* 60 seconds, in ticks
    DedupeTTL, JobTTL, FileTTL,
    JobCap,         \* maxsize of _JOBS
    FileCap,        \* maxsize of _EXPORT_CACHE
    MaxJobs,        \* bound on the jobs accepted
    MaxOthers,      \* bound on the files stored that no job made
    MaxClock,       \* bound on the clock
    NoJob, Never

ASSUME LimitAssumption ==
    /\ {MaxPerMinute, MaxActive, Minute, DedupeTTL, JobTTL, FileTTL, JobCap, FileCap} \subseteq Nat \ {0}
    /\ {MaxJobs, MaxOthers, MaxClock} \subseteq Nat
ASSUME TTLAssumption == DedupeTTL <= FileTTL
ASSUME NothingAssumption == NoJob \notin Nat /\ Never \notin Nat

JobIds == 1..MaxJobs
\* A job's file is known by the job, a chart's or a synchronous export's by a number of its own.
FileIds == 1..(MaxJobs + MaxOthers)
Ticks == 0..MaxClock
Statuses == {"pending", "running", "completed", "error"}

VARIABLES
    clock,
    open,       \* the executor takes jobs
    requests,   \* <<user, key, time>> of every job accepted so far
    entry,      \* a job's entry in _JOBS: its status and when it expires
    twin,       \* _REQUEST_DEDUPE: the last job accepted for a user's key
    counted,    \* _RATE_COUNTER: the jobs whose times a user's tuple holds
    queue,      \* jobs submitted to the executor
    task,       \* the job a worker runs
    file,       \* when a file was put into _EXPORT_CACHE
    stored,     \* the files _EXPORT_CACHE holds, of all users
    since       \* its order of use: the files stored or downloaded since a file last was

fileVars == <<file, stored, since>>
exportVars == <<clock, open, requests, entry, twin, counted, queue, task, fileVars>>

Accepted == 1..Len(requests)
UserOf(j) == requests[j][1]
TimeOf(j) == requests[j][3]

Gone == <<"gone", 0>>
\* Writing an entry starts its time to live again.
Entry(s) == <<s, clock + JobTTL>>
StatusOf(j) == entry[j][1]

-----------------------------------------------------------------------------
(* What the caches answer *)

Live == {j \in JobIds : entry[j] # Gone}
Active(u) == {j \in Live \cap Accepted : UserOf(j) = u /\ StatusOf(j) \in {"pending", "running"}}

DedupeWithEntry(j) == clock < entry[j][2]                             \* mutant
\* The job an identical request within the deduplication time is answered with.
DedupeHolds(j) == clock < TimeOf(j) + DedupeTTL
HasBusyTwin(u, k) ==                                                  \* mutant
    LET j == twin[u][k] IN j # NoJob /\ DedupeHolds(j) /\ StatusOf(j) \in {"pending", "running"}
HasTwin(u, k) ==
    LET j == twin[u][k] IN
        /\ j # NoJob /\ DedupeHolds(j)
        /\ StatusOf(j) \in {"pending", "running", "completed"}

RecentOfThisMinute(u) == {j \in counted[u] : TimeOf(j) \div Minute = clock \div Minute}   \* mutant
\* The submissions accepted in the last minute.
Recent(u) == {j \in counted[u] : TimeOf(j) > clock - Minute}

Downloadable(f) == f \in stored

-----------------------------------------------------------------------------
(* enqueue_export_job *)

\* What stays of _JOBS when an entry is added: a full cache drops one.  Which of them
\* its order of use picks is left open.
Kept == IF Cardinality(Live) < JobCap THEN {Live} ELSE {Live \ {j} : j \in Live}

\* A refused request changes nothing, and neither does one answered with its twin.
Admitted(u, k) ==
    /\ ~HasTwin(u, k)
    /\ Cardinality(Recent(u)) < MaxPerMinute
    /\ Cardinality(Active(u)) < MaxActive

Enqueue(u, k) ==
    LET j == Len(requests) + 1 IN
    /\ Admitted(u, k) /\ open /\ j \in JobIds
    /\ \E kept \in Kept :
        entry' = [i \in JobIds |-> IF i = j THEN Entry("pending") ELSE IF i \in kept THEN entry[i] ELSE Gone]
    /\ requests' = Append(requests, <<u, k, clock>>)
    /\ twin' = [twin EXCEPT ![u][k] = j]
    /\ queue' = Append(queue, j)
    /\ counted' = [counted EXCEPT ![u] = Recent(u) \cup {j}]
    /\ UNCHANGED <<clock, open, task, fileVars>>

\* submit raises: the entry and the deduplication key are taken back, not what the
\* entry pushed out.
EnqueueRefused(u, k) ==
    /\ Admitted(u, k) /\ ~open
    /\ \E kept \in Kept :
        entry' = [i \in JobIds |-> IF i \in kept THEN entry[i] ELSE Gone]
    /\ twin' = [twin EXCEPT ![u][k] = NoJob]
    /\ UNCHANGED <<clock, open, requests, counted, queue, task, fileVars>>

-----------------------------------------------------------------------------
(* create_export and get_export *)

\* The file used least recently.
Oldest(f) == f \in stored /\ stored \ {f} \subseteq since[f]

\* What stays of _EXPORT_CACHE when a file is added: a full cache drops the oldest.
FilesKeptTooFew ==                                                    \* mutant
    IF Cardinality(stored) + 1 < FileCap THEN {stored} ELSE {stored \ {f} : f \in {g \in stored : Oldest(g)}}
FilesKept ==
    IF Cardinality(stored) < FileCap THEN {stored} ELSE {stored \ {f} : f \in {g \in stored : Oldest(g)}}

\* The order of use once f is used.
UsedNow(f) == [g \in FileIds |-> IF g = f \/ file[g] = Never THEN {} ELSE since[g] \cup {f}]

StoreFile(f) ==
    /\ file[f] = Never
    /\ \E kept \in FilesKept : stored' = kept \cup {f}
    /\ file' = [file EXCEPT ![f] = clock]
    /\ since' = UsedNow(f)

\* A chart or a synchronous export is stored beside the jobs' files.
MakeOther(f) ==
    /\ f \in FileIds \ JobIds /\ StoreFile(f)
    /\ UNCHANGED <<clock, open, requests, entry, twin, counted, queue, task>>

\* get_export: the file becomes the one used last, and lives no longer for it.
Download(f) ==
    /\ Downloadable(f) /\ since' = UsedNow(f)
    /\ UNCHANGED <<clock, open, requests, entry, twin, counted, queue, task, file, stored>>

-----------------------------------------------------------------------------
(* _run_job *)

TakeBlindly(w) ==                                                     \* mutant
    /\ task[w] = NoJob /\ queue # <<>>
    /\ queue' = Tail(queue)
    /\ entry' = [entry EXCEPT ![Head(queue)] = Entry("running")]
    /\ task' = [task EXCEPT ![w] = Head(queue)]
    /\ UNCHANGED <<clock, open, requests, twin, counted, fileVars>>
\* A worker takes the next job; one whose entry is gone is skipped.
Take(w) ==
    /\ task[w] = NoJob /\ queue # <<>>
    /\ queue' = Tail(queue)
    /\ LET j == Head(queue) IN
        IF entry[j] = Gone THEN UNCHANGED <<entry, task>>
        ELSE /\ entry' = [entry EXCEPT ![j] = Entry("running")]
             /\ task' = [task EXCEPT ![w] = j]
    /\ UNCHANGED <<clock, open, requests, twin, counted, fileVars>>

\* The task builds the workbook and create_export stores it.
MakeFile(w) ==
    /\ task[w] # NoJob /\ StoreFile(task[w])
    /\ UNCHANGED <<clock, open, requests, entry, twin, counted, queue, task>>

EndBlindly(w, end) ==                                                 \* mutant
    /\ entry' = [entry EXCEPT ![task[w]] = Entry(end)]
    /\ task' = [task EXCEPT ![w] = NoJob]
    /\ UNCHANGED <<clock, open, requests, twin, counted, queue, fileVars>>
\* The worker writes the outcome, unless the entry went while the task ran.
End(w, end) ==
    /\ entry' = IF entry[task[w]] = Gone THEN entry ELSE [entry EXCEPT ![task[w]] = Entry(end)]
    /\ task' = [task EXCEPT ![w] = NoJob]
    /\ UNCHANGED <<clock, open, requests, twin, counted, queue, fileVars>>

Complete(w) == task[w] # NoJob /\ file[task[w]] # Never /\ End(w, "completed")
FailSilently(w) ==                                                    \* mutant
    /\ task[w] # NoJob /\ file[task[w]] = Never
    /\ task' = [task EXCEPT ![w] = NoJob]
    /\ UNCHANGED <<clock, open, requests, entry, twin, counted, queue, fileVars>>
\* The task raises before it has stored a file.
Fail(w) == task[w] # NoJob /\ file[task[w]] = Never /\ End(w, "error")

-----------------------------------------------------------------------------
ExportTick ==
    /\ clock < MaxClock /\ clock' = clock + 1
    /\ entry' = [j \in JobIds |-> IF entry[j][2] <= clock' THEN Gone ELSE entry[j]]
    /\ stored' = {f \in stored : clock' < file[f] + FileTTL}
    /\ UNCHANGED <<open, requests, twin, counted, queue, task, file, since>>

\* The interpreter exits: submit raises from now on, what was submitted is still run.
Shutdown == open /\ open' = FALSE /\ UNCHANGED <<clock, requests, entry, twin, counted, queue, task, fileVars>>

ExportInit ==
    /\ clock = 0 /\ open = TRUE
    /\ requests = <<>> /\ queue = <<>>
    /\ entry = [j \in JobIds |-> Gone]
    /\ twin = [u \in Users |-> [k \in RequestKeys |-> NoJob]]
    /\ counted = [u \in Users |-> {}]
    /\ task = [w \in Workers |-> NoJob]
    /\ file = [f \in FileIds |-> Never] /\ stored = {} /\ since = [f \in FileIds |-> {}]

Work(w) == Take(w) \/ MakeFile(w) \/ Complete(w) \/ Fail(w)

ExportNext ==
    \/ ExportTick \/ Shutdown
    \/ \E u \in Users, k \in RequestKeys : Enqueue(u, k) \/ EnqueueRefused(u, k)
    \/ \E w \in Workers : Work(w)
    \/ \E f \in FileIds : MakeOther(f) \/ Download(f)

ExportSpec == ExportInit /\ [][ExportNext]_exportVars

\* The pool's threads are scheduled and a task returns or raises.
WorkersRun == \A w \in Workers : WF_exportVars(Work(w))
ExportFairSpec == ExportSpec /\ WorkersRun

-----------------------------------------------------------------------------
(* Properties *)

ExportTypeOK ==
    /\ clock \in Ticks /\ open \in BOOLEAN
    /\ requests \in Seq(Users \X RequestKeys \X Ticks) /\ Len(requests) <= MaxJobs
    /\ entry \in [JobIds -> (Statuses \X Nat) \cup {Gone}]
    /\ twin \in [Users -> [RequestKeys -> Accepted \cup {NoJob}]]
    /\ counted \in [Users -> SUBSET Accepted]
    /\ queue \in Seq(Accepted)
    /\ task \in [Workers -> Accepted \cup {NoJob}]
    /\ file \in [FileIds -> Ticks \cup {Never}]
    /\ stored \subseteq FileIds /\ since \in [FileIds -> SUBSET FileIds]

\* "Count accepted submissions in the last minute": in no minute ending with an
\* accepted submission did its user get more of them than the limit, whatever idle
\* time lay between (enqueue_export_job).
InMinuteOf(j) == {i \in Accepted : UserOf(i) = UserOf(j) /\ TimeOf(i) <= TimeOf(j) /\ TimeOf(i) > TimeOf(j) - Minute}
RateIsBounded == \A j \in Accepted : Cardinality(InMinuteOf(j)) <= MaxPerMinute

\* No user has more pending and running jobs than the limit, through workers that
\* start and end jobs whose entries are dropped meanwhile (_run_job).
ActiveIsBounded == \A u \in Users : Cardinality(Active(u)) <= MaxActive

\* A retry within the deduplication time gets the job it retries: two jobs are accepted
\* for one request only when the first has failed or lost its entry.
Retry(i, j) == i < j /\ UserOf(i) = UserOf(j) /\ requests[i][2] = requests[j][2] /\ TimeOf(j) < TimeOf(i) + DedupeTTL
RetriesShareAJob == \A i, j \in Accepted : Retry(i, j) => StatusOf(i) \in {"error", "gone"}

\* A retry answered with a completed job gets a link to a file that is still there, or
\* one that as many other files as the cache holds, of whatever users, were stored or
\* downloaded after (get_export, and export_store.py's maxsize).
TwinIsDownloadable == \A u \in Users, k \in RequestKeys :
    HasTwin(u, k) /\ StatusOf(twin[u][k]) = "completed" =>
        Downloadable(twin[u][k]) \/ Cardinality(since[twin[u][k]]) >= FileCap

\* What a poll reports of a job only goes forward: an ended job keeps its end until its
\* entry goes, and an entry that went does not come back (_run_job's second look).
Forward == {<<"pending", "running">>, <<"running", "completed">>, <<"running", "error">>}
JobsGoForward == [][\A j \in Accepted : StatusOf(j)' # StatusOf(j) =>
                        entry'[j] = Gone \/ <<StatusOf(j), StatusOf(j)'>> \in Forward]_exportVars

\* Every job a request was told of ends, or loses its entry.
EveryJobEnds == \A j \in JobIds : StatusOf(j) \in {"pending", "running"} ~> StatusOf(j) \in {"completed", "error", "gone"}
=============================================================================
