--------------------------- MODULE BackgroundProofs ---------------------------
(***************************************************************************)
(* Two of the programs beside the requests.  ExportJobs keeps its limits   *)
(* and promises, and loses no job, for any users, workers, sizes and times *)
(* to live; LaborFeed loads every final day but those its history tells to *)
(* be lost, for any refreshes beside one another and any windows.          *)
(***************************************************************************)
EXTENDS ExportJobs, LaborFeed, FiniteSetTheorems, SequenceTheorems, WellFoundedInduction, TLAPS

EntryType == (Statuses \X Nat) \cup {Gone}
KeyOf(j) == requests[j][2]
Queued == {queue[n] : n \in DOMAIN queue}

\* Jobs are accepted in the order of time, and a file is made after its job.
Clocked ==
    /\ \A i, j \in Accepted : i <= j => TimeOf(i) <= TimeOf(j)
    /\ \A j \in Accepted : TimeOf(j) <= clock /\ (file[j] # Never => TimeOf(j) <= file[j])

Unused == \A j \in JobIds \ Accepted : entry[j] = Gone /\ file[j] = Never

\* A job waits once or is run by one worker, and its entry says which, if it is there.
Lined ==
    /\ \A m, n \in DOMAIN queue : queue[m] = queue[n] => m = n
    /\ \A j \in Queued : StatusOf(j) \in {"pending", "gone"}
    /\ \A w \in Workers : task[w] # NoJob => StatusOf(task[w]) \in {"running", "gone"} /\ task[w] \notin Queued
    /\ \A w, x \in Workers : task[w] = task[x] /\ task[w] # NoJob => w = x

\* Who got a job within the last minute is counted for it.
Counted == \A j \in Accepted : TimeOf(j) > clock - Minute => j \in counted[UserOf(j)]

\* While jobs are accepted, the job a request is compared with is the newest of its kind.
Twins ==
    open => \A j \in Accepted :
        LET t == twin[UserOf(j)][KeyOf(j)] IN
        t \in Accepted /\ j <= t /\ UserOf(t) = UserOf(j) /\ KeyOf(t) = KeyOf(j)

Filed == \A j \in Accepted : StatusOf(j) = "completed" => file[j] # Never

\* What the file cache holds was made, and what it pushed out made way for as many others.
FilesInv ==
    /\ \A f \in stored : file[f] # Never
    /\ \A f \in FileIds \ stored :
           file[f] # Never /\ clock < file[f] + FileTTL => Cardinality(since[f]) >= FileCap

ExportInv == /\ ExportTypeOK /\ Clocked /\ Unused /\ Lined /\ Counted /\ Twins /\ Filed
             /\ RateIsBounded /\ ActiveIsBounded /\ RetriesShareAJob

\* What a step may do to what is known of a job.
StepsForward(j) ==
    StatusOf(j)' # StatusOf(j) => entry'[j] = Gone \/ <<StatusOf(j), StatusOf(j)'>> \in Forward

-----------------------------------------------------------------------------
(* Types and tables *)

\* An entry is gone exactly if its status says so.
LEMMA EntryFacts ==
    ASSUME NEW e \in EntryType
    PROVE  e[1] \in Statuses \cup {"gone"} /\ (e = Gone <=> e[1] = "gone")
BY DEF EntryType, Statuses, Gone

\* What the types say of a job.
LEMMA JobTypes ==
    ASSUME ExportTypeOK
    PROVE  /\ Accepted \subseteq JobIds /\ Len(requests) \in Nat /\ MaxJobs \in Nat
           /\ \A j \in Accepted : /\ UserOf(j) \in Users /\ KeyOf(j) \in RequestKeys
                                  /\ TimeOf(j) \in Nat /\ j # NoJob
           /\ \A j \in JobIds : entry[j] \in EntryType
           /\ clock \in Nat /\ Minute \in Nat /\ NoJob \notin Accepted
           /\ JobIds \subseteq FileIds
<1>1. Len(requests) \in Nat /\ Len(requests) <= MaxJobs /\ MaxJobs \in Nat
  BY LimitAssumption DEF ExportTypeOK
<1>2. Accepted \subseteq JobIds
  BY <1>1 DEF Accepted, JobIds
<1>3. ASSUME NEW j \in Accepted
      PROVE  UserOf(j) \in Users /\ KeyOf(j) \in RequestKeys /\ TimeOf(j) \in Nat
  <2>1. requests[j] \in Users \X RequestKeys \X Ticks
    BY DEF ExportTypeOK, Accepted
  <2> QED
    BY <2>1, LimitAssumption DEF UserOf, KeyOf, TimeOf, Ticks
<1>4. NoJob \notin Accepted
  BY NothingAssumption, <1>1 DEF Accepted
<1>5. JobIds \subseteq FileIds
  BY LimitAssumption DEF JobIds, FileIds
<1> QED
  BY <1>1, <1>2, <1>3, <1>4, <1>5, LimitAssumption DEF ExportTypeOK, EntryType, Ticks

\* The queue's first job, and the ones after it.
LEMMA QueueFacts ==
    ASSUME NEW S, NEW s \in Seq(S), s # <<>>
    PROVE  /\ Head(s) \in S /\ 1 \in DOMAIN s /\ Head(s) = s[1] /\ Tail(s) \in Seq(S)
           /\ \A n \in DOMAIN Tail(s) : n + 1 \in DOMAIN s /\ n \in Nat /\ n >= 1 /\ Tail(s)[n] = s[n + 1]
<1>1. Len(s) \in Nat /\ Len(s) >= 1 /\ DOMAIN s = 1..Len(s)
  OBVIOUS
<1>2. Tail(s) \in Seq(S) /\ Len(Tail(s)) = Len(s) - 1 /\ Head(s) = s[1]
  BY <1>1
<1>3. DOMAIN Tail(s) = 1..(Len(s) - 1)
  BY <1>1, <1>2
<1>4. \A n \in DOMAIN Tail(s) : Tail(s)[n] = s[n + 1]
  BY <1>1, <1>3
<1> QED
  BY <1>1, <1>2, <1>3, <1>4

\* Sets of accepted jobs are finite.
LEMMA AcceptedFinite ==
    ASSUME ExportTypeOK PROVE IsFiniteSet(Accepted)
BY JobTypes, FS_Interval DEF Accepted

\* Nothing is accepted at first.
LEMMA ExportStart == ExportInit => ExportInv
<1> SUFFICES ASSUME ExportInit PROVE ExportInv
  OBVIOUS
<1>1. Accepted = {} /\ Len(requests) = 0
  BY DEF ExportInit, Accepted
<1>2. ExportTypeOK
  BY <1>1, LimitAssumption DEF ExportInit, ExportTypeOK, Ticks
<1>3. Clocked /\ Unused /\ Counted /\ Twins /\ Filed /\ RateIsBounded /\ RetriesShareAJob
  BY <1>1, <1>2, JobTypes DEF ExportInit, Clocked, Unused, Counted, Twins, Filed, RateIsBounded, RetriesShareAJob
<1>4. Lined
  BY DEF ExportInit, Lined, Queued
<1>5. ActiveIsBounded
  <2>1. \A u \in Users : Active(u) = {}
    BY <1>1 DEF Active
  <2> QED
    BY <2>1, FS_EmptySet, LimitAssumption DEF ActiveIsBounded
<1> QED
  BY <1>2, <1>3, <1>4, <1>5 DEF ExportInv

-----------------------------------------------------------------------------
(* What every step keeps that accepts no job *)

\* A step forward does not make an ended job pending or running again.
LEMMA ForwardKeeps ==
    ASSUME ExportTypeOK, ExportTypeOK', NEW j \in Accepted, requests' = requests, StepsForward(j)
    PROVE  /\ StatusOf(j) \in {"error", "gone"} => StatusOf(j)' \in {"error", "gone"}
           /\ StatusOf(j)' \in {"pending", "running"} => StatusOf(j) \in {"pending", "running"}
<1>1. entry[j] \in EntryType /\ entry'[j] \in EntryType
  BY JobTypes DEF ExportTypeOK, EntryType
<1>2. entry'[j] = Gone => StatusOf(j)' = "gone"
  BY DEF StatusOf, Gone
<1> QED
  BY <1>1, <1>2, EntryFacts DEF StepsForward, StatusOf, Forward

\* The limits hold on.
LEMMA LimitsKeep ==
    ASSUME ExportInv, ExportTypeOK', requests' = requests, \A j \in Accepted : StepsForward(j)
    PROVE  RateIsBounded' /\ ActiveIsBounded' /\ RetriesShareAJob'
<1>1. Accepted' = Accepted /\ \A j \in Accepted : UserOf(j)' = UserOf(j) /\ TimeOf(j)' = TimeOf(j)
  BY DEF Accepted, UserOf, TimeOf
<1>2. RateIsBounded'
  BY DEF ExportInv, RateIsBounded, InMinuteOf, Accepted, UserOf, TimeOf
<1>3. RetriesShareAJob'
  BY <1>1, ForwardKeeps DEF ExportInv, RetriesShareAJob, Retry, UserOf, TimeOf
<1>4. ASSUME NEW u \in Users PROVE Cardinality(Active(u)') <= MaxActive
  <2>1. Active(u)' \subseteq Active(u)
    <3>1. ASSUME NEW j \in Active(u)' PROVE j \in Active(u)
      <4>1. j \in Accepted /\ j \in JobIds /\ UserOf(j) = u /\ StatusOf(j)' \in {"pending", "running"}
        BY <1>1, JobTypes DEF Active, ExportInv
      <4>2. StatusOf(j) \in {"pending", "running"}
        BY <4>1, ForwardKeeps DEF ExportInv
      <4>3. entry[j] # Gone
        BY <4>2 DEF StatusOf, Gone
      <4> QED
        BY <4>1, <4>2, <4>3 DEF Active, Live
    <3> QED
      BY <3>1
  <2>2. IsFiniteSet(Active(u))
    BY AcceptedFinite, FS_Subset DEF Active, ExportInv
  <2>3. Cardinality(Active(u)) <= MaxActive
    BY DEF ExportInv, ActiveIsBounded
  <2> QED
    BY <2>1, <2>2, <2>3, FS_Subset, FS_CardinalityType, LimitAssumption
<1> QED
  BY <1>2, <1>3, <1>4 DEF ActiveIsBounded

\* What is known of jobs lasts while none is accepted.
LEMMA SameJobs ==
    ASSUME requests' = requests
    PROVE  /\ Accepted' = Accepted
           /\ \A j \in Accepted : UserOf(j)' = UserOf(j) /\ TimeOf(j)' = TimeOf(j) /\ KeyOf(j)' = KeyOf(j)
BY DEF Accepted, UserOf, TimeOf, KeyOf

\* Entries that only vanish leave the queue and the workers in order.
LEMMA EntriesVanish ==
    ASSUME ExportInv, UNCHANGED <<requests, queue, task, file>>,
           \A j \in JobIds : entry'[j] = entry[j] \/ entry'[j] = Gone
    PROVE  Lined' /\ Unused' /\ Filed' /\ \A j \in Accepted : StepsForward(j)
<1>1. \A j \in JobIds : StatusOf(j)' \in {StatusOf(j), "gone"}
  BY DEF StatusOf, Gone
<1>2. /\ Accepted \subseteq JobIds /\ Queued \subseteq Accepted /\ Queued' = Queued /\ Accepted' = Accepted
      /\ \A w \in Workers : task[w] # NoJob => task[w] \in Accepted
  BY JobTypes DEF ExportInv, ExportTypeOK, Queued, Accepted
<1>3. Lined'
  <2>1. Lined
    BY DEF ExportInv
  <2>2. \A j \in Queued : StatusOf(j)' \in {"pending", "gone"}
    BY <1>1, <1>2, <2>1 DEF Lined
  <2>3. \A w \in Workers : task[w] # NoJob => StatusOf(task[w])' \in {"running", "gone"}
    <3> SUFFICES ASSUME NEW w \in Workers, task[w] # NoJob PROVE StatusOf(task[w])' \in {"running", "gone"}
      OBVIOUS
    <3>1. PICK j \in JobIds : j = task[w]
      BY <1>2
    <3>2. StatusOf(j) \in {"running", "gone"} /\ StatusOf(task[w])' = StatusOf(j)'
      BY <2>1, <3>1 DEF Lined, StatusOf
    <3> QED
      BY <1>1, <3>2
  <2> QED
    BY <1>2, <2>1, <2>2, <2>3 DEF Lined, StatusOf
<1>4. Unused' /\ Filed'
  BY <1>1, <1>2 DEF ExportInv, Unused, Filed
<1>5. \A j \in Accepted : StepsForward(j)
  BY <1>2 DEF StepsForward, StatusOf
<1> QED
  BY <1>3, <1>4, <1>5

\* The clock moves: entries expire, and no more jobs are recent.
LEMMA TickKeeps == ASSUME ExportInv, ExportTick PROVE ExportInv' /\ \A j \in Accepted : StepsForward(j)
<1>1. /\ UNCHANGED <<open, requests, twin, counted, queue, task, file>> /\ clock' = clock + 1 /\ clock' \in Ticks
      /\ entry' = [j \in JobIds |-> IF entry[j][2] <= clock' THEN Gone ELSE entry[j]]
  BY LimitAssumption DEF ExportTick, ExportInv, ExportTypeOK, Ticks
<1>2. \A j \in JobIds : entry'[j] = entry[j] \/ entry'[j] = Gone
  BY <1>1
<1>3. Lined' /\ Unused' /\ Filed' /\ \A j \in Accepted : StepsForward(j)
  BY <1>1, <1>2, EntriesVanish
<1>4. ExportTypeOK'
  <2>1. stored' \subseteq stored /\ since' = since
    BY DEF ExportTick
  <2> QED
    BY <1>1, <2>1, SameJobs DEF ExportInv, ExportTypeOK
<1>5. clock' > clock /\ clock \in Nat /\ clock' \in Nat /\ Minute \in Nat /\ \A j \in Accepted : TimeOf(j) \in Nat
  BY <1>1, JobTypes DEF ExportInv
<1>6. Clocked' /\ Counted' /\ Twins'
  <2>1. Clocked'
    BY <1>1, <1>5, SameJobs DEF ExportInv, Clocked
  <2>2. Counted'
    BY <1>1, <1>5, SameJobs DEF ExportInv, Counted
  <2>3. Twins'
    BY <1>1 DEF ExportInv, Twins, Accepted, UserOf, KeyOf
  <2> QED
    BY <2>1, <2>2, <2>3
<1>7. RateIsBounded' /\ ActiveIsBounded' /\ RetriesShareAJob'
  BY <1>1, <1>3, <1>4, LimitsKeep
<1> QED
  BY <1>3, <1>4, <1>6, <1>7 DEF ExportInv

\* The executor closes.
LEMMA ShutdownKeeps == ASSUME ExportInv, Shutdown PROVE ExportInv' /\ \A j \in Accepted : StepsForward(j)
<1>1. UNCHANGED <<clock, requests, entry, twin, counted, queue, task, file, stored, since>> /\ open' = FALSE
  BY DEF Shutdown, fileVars
<1>2. Lined' /\ Unused' /\ Filed' /\ \A j \in Accepted : StepsForward(j)
  BY <1>1, EntriesVanish
<1>3. ExportTypeOK'
  BY <1>1, SameJobs DEF ExportInv, ExportTypeOK
<1>4. Clocked' /\ Counted' /\ Twins'
  BY <1>1 DEF ExportInv, Clocked, Counted, Twins, Accepted, UserOf, TimeOf
<1>5. RateIsBounded' /\ ActiveIsBounded' /\ RetriesShareAJob'
  BY <1>1, <1>2, <1>3, LimitsKeep
<1> QED
  BY <1>2, <1>3, <1>4, <1>5 DEF ExportInv

\* A job the executor refuses leaves a key without a twin, and asks for none again.
LEMMA RefusalKeeps ==
    ASSUME ExportInv, NEW u \in Users, NEW k \in RequestKeys, EnqueueRefused(u, k)
    PROVE  ExportInv' /\ \A j \in Accepted : StepsForward(j)
<1>1. /\ UNCHANGED <<clock, open, requests, counted, queue, task, file, stored, since>> /\ ~ open
      /\ twin' = [twin EXCEPT ![u][k] = NoJob]
  BY DEF EnqueueRefused, fileVars
<1>2. PICK kept \in Kept : entry' = [i \in JobIds |-> IF i \in kept THEN entry[i] ELSE Gone]
  BY DEF EnqueueRefused
<1>3. \A j \in JobIds : entry'[j] = entry[j] \/ entry'[j] = Gone
  BY <1>2
<1>4. Lined' /\ Unused' /\ Filed' /\ \A j \in Accepted : StepsForward(j)
  BY <1>1, <1>3, EntriesVanish
<1>5. ExportTypeOK'
  <2>1. entry' \in [JobIds -> EntryType]
    BY <1>2 DEF ExportInv, ExportTypeOK, EntryType
  <2>2. twin' \in [Users -> [RequestKeys -> Accepted \cup {NoJob}]]
    BY <1>1 DEF ExportInv, ExportTypeOK
  <2> QED
    BY <1>1, <2>1, <2>2, SameJobs DEF ExportInv, ExportTypeOK, EntryType
<1>6. Clocked' /\ Counted' /\ Twins'
  BY <1>1 DEF ExportInv, Clocked, Counted, Twins, Accepted, UserOf, TimeOf
<1>7. RateIsBounded' /\ ActiveIsBounded' /\ RetriesShareAJob'
  BY <1>1, <1>4, <1>5, LimitsKeep
<1> QED
  BY <1>4, <1>5, <1>6, <1>7 DEF ExportInv

\* What the worker steps leave alone: the times, the counts and the twins.
LEMMA OthersKeep ==
    ASSUME ExportInv, UNCHANGED <<clock, open, requests, twin, counted>>, ExportTypeOK',
           \A j \in Accepted : StepsForward(j),
           \A j \in Accepted : file'[j] = file[j] \/ file'[j] = clock,
           Unused', Lined', Filed'
    PROVE  ExportInv'
<1>1. Clocked'
  BY JobTypes DEF ExportInv, Clocked, Accepted, TimeOf
<1>2. Counted' /\ Twins'
  BY DEF ExportInv, Counted, Twins, Accepted, UserOf, TimeOf, KeyOf
<1>3. RateIsBounded' /\ ActiveIsBounded' /\ RetriesShareAJob'
  BY LimitsKeep
<1> QED
  BY <1>1, <1>2, <1>3 DEF ExportInv

\* A worker takes the first job that waits; it waits no longer.
LEMMA TakeKeeps ==
    ASSUME ExportInv, NEW w \in Workers, Take(w) PROVE ExportInv' /\ \A j \in Accepted : StepsForward(j)
<1>1. /\ task[w] = NoJob /\ queue # <<>> /\ queue' = Tail(queue)
      /\ UNCHANGED <<clock, open, requests, twin, counted, file, stored, since>>
  BY DEF Take, fileVars
<1>2. PICK j \in Accepted : j = Head(queue)
  BY <1>1, QueueFacts DEF ExportInv, ExportTypeOK
<1>3. /\ queue \in Seq(Accepted) /\ queue' \in Seq(Accepted) /\ 1 \in DOMAIN queue /\ j = queue[1]
      /\ \A n \in DOMAIN queue' : n + 1 \in DOMAIN queue /\ n \in Nat /\ n >= 1 /\ queue'[n] = queue[n + 1]
  BY <1>1, <1>2, QueueFacts DEF ExportInv, ExportTypeOK
<1>4. Lined /\ j \in Queued /\ StatusOf(j) \in {"pending", "gone"}
  BY <1>3 DEF ExportInv, Lined, Queued
<1>5. Queued' \subseteq Queued /\ j \notin Queued' /\ \A m, n \in DOMAIN queue' : queue'[m] = queue'[n] => m = n
  <2>1. Queued' \subseteq Queued
    BY <1>3 DEF Queued
  <2>2. \A n \in DOMAIN queue' : queue'[n] # j
    BY <1>3, <1>4 DEF Lined
  <2>3. \A m, n \in DOMAIN queue' : queue'[m] = queue'[n] => m = n
    BY <1>3, <1>4 DEF Lined
  <2> QED
    BY <2>1, <2>2, <2>3 DEF Queued
<1>6. Accepted' = Accepted /\ Accepted \subseteq JobIds /\ j \in JobIds
  BY <1>1, SameJobs, JobTypes DEF ExportInv
<1>7. CASE entry[j] = Gone
  <2>1. entry' = entry /\ task' = task
    BY <1>2, <1>7 DEF Take
  <2>2. ExportTypeOK'
    BY <1>1, <1>3, <1>6, <2>1 DEF ExportInv, ExportTypeOK
  <2>3. Lined'
    BY <1>4, <1>5, <2>1 DEF Lined, StatusOf
  <2>4. Unused' /\ Filed' /\ \A i \in Accepted : StepsForward(i)
    BY <1>1, <1>6, <2>1 DEF ExportInv, Unused, Filed, StepsForward, StatusOf
  <2> QED
    BY <1>1, <2>2, <2>3, <2>4, OthersKeep
<1>8. CASE entry[j] # Gone
  <2>1. entry' = [entry EXCEPT ![j] = Entry("running")] /\ task' = [task EXCEPT ![w] = j]
    BY <1>2, <1>8 DEF Take
  <2>2. Entry("running") \in EntryType /\ Entry("running")[1] = "running"
    BY JobTypes, LimitAssumption DEF ExportInv, Entry, EntryType, Statuses
  <2>3. entry \in [JobIds -> EntryType] /\ task \in [Workers -> Accepted \cup {NoJob}]
    BY DEF ExportInv, ExportTypeOK, EntryType
  <2>4. /\ StatusOf(j)' = "running" /\ \A i \in JobIds : i # j => entry'[i] = entry[i] /\ StatusOf(i)' = StatusOf(i)
        /\ task'[w] = j /\ \A x \in Workers : x # w => task'[x] = task[x]
    BY <1>6, <2>1, <2>2, <2>3 DEF StatusOf
  <2>5. StatusOf(j) = "pending"
    BY <1>4, <1>6, <1>8, <2>3, EntryFacts DEF StatusOf
  <2>6. ExportTypeOK'
    <3>1. entry' \in [JobIds -> EntryType] /\ task' \in [Workers -> Accepted \cup {NoJob}]
      BY <2>1, <2>2, <2>3
    <3> QED
      BY <1>1, <1>3, <1>6, <3>1 DEF ExportInv, ExportTypeOK, EntryType
  <2>7. Lined'
    <3>1. \A i \in Queued' : StatusOf(i)' \in {"pending", "gone"}
      <4>1. Queued \subseteq JobIds
        BY <1>3, <1>6 DEF Queued
      <4> QED
        BY <1>4, <1>5, <2>4, <4>1 DEF Lined
    <3>2. ASSUME NEW x \in Workers, task'[x] # NoJob
          PROVE  StatusOf(task[x])' \in {"running", "gone"} /\ task'[x] \notin Queued'
      <4>1. CASE x = w
        <5>1. task'[x] = j /\ StatusOf(task[x])' = StatusOf(j)'
          BY <2>4, <4>1 DEF StatusOf
        <5> QED
          BY <1>5, <2>4, <5>1
      <4>2. CASE x # w
        <5>1. task'[x] = task[x] /\ task[x] # NoJob
          BY <2>4, <3>2, <4>2
        <5>2. PICK i \in JobIds : i = task[x]
          BY <1>6, <2>3, <5>1
        <5>3. StatusOf(i) \in {"running", "gone"} /\ i \notin Queued
          BY <1>4, <5>1, <5>2 DEF Lined
        <5>4. StatusOf(task[x])' = StatusOf(i)' /\ i # j
          BY <1>4, <5>1, <5>2, <5>3 DEF StatusOf
        <5> QED
          BY <1>5, <2>4, <5>1, <5>2, <5>3, <5>4
      <4> QED
        BY <4>1, <4>2
    <3>3. ASSUME NEW x \in Workers, NEW y \in Workers, task'[x] = task'[y], task'[x] # NoJob PROVE x = y
      <4>1. \A z \in Workers : task[z] # NoJob => task[z] # j
        BY <1>4 DEF Lined
      <4> QED
        BY <1>4, <2>4, <3>3, <4>1 DEF Lined
    <3> QED
      BY <1>5, <3>1, <3>2, <3>3 DEF Lined
  <2>8. Unused' /\ Filed'
    BY <1>1, <1>6, <2>4 DEF ExportInv, Unused, Filed
  <2>9. \A i \in Accepted : StepsForward(i)
    BY <1>6, <2>4, <2>5 DEF StepsForward, Forward
  <2> QED
    BY <1>1, <2>6, <2>7, <2>8, <2>9, OthersKeep
<1> QED
  BY <1>7, <1>8

\* A file that is stored keeps the types of the cache.
LEMMA StoreTypes ==
    ASSUME ExportTypeOK, NEW f \in FileIds, StoreFile(f)
    PROVE  /\ file' \in [FileIds -> Ticks \cup {Never}]
           /\ stored' \subseteq FileIds /\ since' \in [FileIds -> SUBSET FileIds]
<1>1. /\ file' = [file EXCEPT ![f] = clock] /\ since' = UsedNow(f)
      /\ \E kept \in FilesKept : stored' = kept \cup {f}
  BY DEF StoreFile
<1>2. \A kept \in FilesKept : kept \subseteq stored
  BY DEF FilesKept
<1>3. UsedNow(f) \in [FileIds -> SUBSET FileIds]
  BY DEF ExportTypeOK, UsedNow
<1> QED
  BY <1>1, <1>2, <1>3 DEF ExportTypeOK

\* A task stores its file before its job completes.
LEMMA MakeFileKeeps ==
    ASSUME ExportInv, NEW w \in Workers, MakeFile(w) PROVE ExportInv' /\ \A j \in Accepted : StepsForward(j)
<1>1. PICK j \in Accepted : j = task[w]
  BY DEF MakeFile, ExportInv, ExportTypeOK
<1>2. StoreFile(j) /\ UNCHANGED <<clock, open, requests, entry, twin, counted, queue, task>>
  BY <1>1 DEF MakeFile
<1>3. /\ Accepted' = Accepted /\ Accepted \subseteq JobIds /\ j \in JobIds /\ JobIds \subseteq FileIds
      /\ file \in [FileIds -> Ticks \cup {Never}] /\ file' = [file EXCEPT ![j] = clock]
  BY <1>2, SameJobs, JobTypes DEF ExportInv, ExportTypeOK, StoreFile
<1>4. ExportTypeOK'
  BY <1>2, <1>3, StoreTypes DEF ExportInv, ExportTypeOK
<1>5. clock # Never
  BY JobTypes, NothingAssumption DEF ExportInv
<1>6. Lined' /\ Unused' /\ Filed' /\ \A i \in Accepted : StepsForward(i)
  BY <1>2, <1>3, <1>5 DEF ExportInv, Lined, Unused, Filed, StepsForward, StatusOf, Queued
<1> QED
  BY <1>2, <1>3, <1>4, <1>6, OthersKeep

\* Files that no job made leave the jobs alone, and so do downloads.
LEMMA OtherFilesKeep ==
    ASSUME ExportInv, NEW f \in FileIds, MakeOther(f) \/ Download(f)
    PROVE  ExportInv' /\ \A j \in Accepted : StepsForward(j)
<1>1. UNCHANGED <<clock, open, requests, entry, twin, counted, queue, task>>
  BY DEF MakeOther, Download
<1>2. Accepted' = Accepted /\ Accepted \subseteq JobIds /\ JobIds \subseteq FileIds
  BY <1>1, SameJobs, JobTypes DEF ExportInv
<1>3. /\ \A j \in JobIds : file'[j] = file[j]
      /\ file' \in [FileIds -> Ticks \cup {Never}]
      /\ stored' \subseteq FileIds /\ since' \in [FileIds -> SUBSET FileIds]
  <2>1. CASE MakeOther(f)
    <3>1. f \notin JobIds /\ StoreFile(f) /\ file' = [file EXCEPT ![f] = clock]
      BY <2>1 DEF MakeOther, StoreFile
    <3> QED
      BY <1>2, <3>1, StoreTypes DEF ExportInv, ExportTypeOK
  <2>2. CASE Download(f)
    BY <2>2 DEF Download, UsedNow, ExportInv, ExportTypeOK
  <2> QED
    BY <2>1, <2>2
<1>4. ExportTypeOK'
  BY <1>1, <1>2, <1>3 DEF ExportInv, ExportTypeOK
<1>5. Lined' /\ Unused' /\ Filed' /\ \A i \in Accepted : StepsForward(i)
  BY <1>1, <1>2, <1>3 DEF ExportInv, Lined, Unused, Filed, StepsForward, StatusOf, Queued
<1> QED
  BY <1>1, <1>2, <1>3, <1>4, <1>5, OthersKeep

\* The worker's last look at the entry: an outcome is written over "running" only.
LEMMA EndKeeps ==
    ASSUME ExportInv, NEW w \in Workers, task[w] # NoJob, NEW end \in {"completed", "error"}, End(w, end),
           end = "completed" => file[task[w]] # Never
    PROVE  ExportInv' /\ \A j \in Accepted : StepsForward(j)
<1>1. PICK j \in Accepted : j = task[w]
  BY DEF ExportInv, ExportTypeOK
<1>2. /\ task' = [task EXCEPT ![w] = NoJob]
      /\ UNCHANGED <<clock, open, requests, twin, counted, queue, file, stored, since>>
      /\ entry' = IF entry[j] = Gone THEN entry ELSE [entry EXCEPT ![j] = Entry(end)]
  BY <1>1 DEF End, fileVars
<1>3. Accepted' = Accepted /\ Accepted \subseteq JobIds /\ j \in JobIds
  BY <1>2, SameJobs, JobTypes DEF ExportInv
<1>4. Entry(end) \in EntryType /\ Entry(end)[1] = end
  BY JobTypes, LimitAssumption DEF ExportInv, Entry, EntryType, Statuses
<1>5. entry \in [JobIds -> EntryType] /\ task \in [Workers -> Accepted \cup {NoJob}]
  BY DEF ExportInv, ExportTypeOK, EntryType
<1>6. Lined /\ StatusOf(j) \in {"running", "gone"} /\ j \notin Queued
  BY <1>1 DEF ExportInv, Lined
<1>7. /\ \A i \in JobIds : i # j => entry'[i] = entry[i] /\ StatusOf(i)' = StatusOf(i)
      /\ entry[j] = Gone => entry'[j] = entry[j] /\ StatusOf(j)' = StatusOf(j)
      /\ entry[j] # Gone => StatusOf(j) = "running" /\ StatusOf(j)' = end
      /\ task'[w] = NoJob /\ \A x \in Workers : x # w => task'[x] = task[x]
  BY <1>2, <1>3, <1>4, <1>5, <1>6, EntryFacts DEF StatusOf
<1>8. ExportTypeOK'
  <2>1. entry' \in [JobIds -> EntryType] /\ task' \in [Workers -> Accepted \cup {NoJob}]
    BY <1>2, <1>4, <1>5
  <2> QED
    BY <1>2, <1>3, <2>1 DEF ExportInv, ExportTypeOK, EntryType
<1>9. Lined'
  <2>1. Queued' = Queued /\ Queued \subseteq JobIds
    BY <1>2, <1>3 DEF Queued, ExportInv, ExportTypeOK
  <2>2. \A i \in Queued : StatusOf(i)' \in {"pending", "gone"}
    BY <1>6, <1>7, <2>1 DEF Lined
  <2>3. ASSUME NEW x \in Workers, task'[x] # NoJob
        PROVE  StatusOf(task[x])' \in {"running", "gone"} /\ task'[x] \notin Queued
    <3>1. x # w /\ task'[x] = task[x] /\ task[x] # NoJob
      BY <1>7, <2>3
    <3>2. PICK i \in JobIds : i = task[x]
      BY <1>3, <1>5, <3>1
    <3>3. StatusOf(i) \in {"running", "gone"} /\ i \notin Queued /\ i # j
      BY <1>1, <1>6, <3>1, <3>2 DEF Lined
    <3>4. StatusOf(task[x])' = StatusOf(i)'
      BY <3>1, <3>2 DEF StatusOf
    <3> QED
      BY <1>7, <3>1, <3>2, <3>3, <3>4
  <2>4. ASSUME NEW x \in Workers, NEW y \in Workers, task'[x] = task'[y], task'[x] # NoJob PROVE x = y
    BY <1>6, <1>7, <2>4 DEF Lined
  <2>5. \A m, n \in DOMAIN queue' : queue'[m] = queue'[n] => m = n
    BY <1>2, <1>6 DEF Lined
  <2> QED
    BY <2>1, <2>2, <2>3, <2>4, <2>5 DEF Lined
<1>10. Unused' /\ Filed'
  <2>1. Unused'
    BY <1>2, <1>3, <1>7 DEF ExportInv, Unused
  <2>2. Filed'
    BY <1>1, <1>2, <1>3, <1>7 DEF ExportInv, Filed
  <2> QED
    BY <2>1, <2>2
<1>11. \A i \in Accepted : StepsForward(i)
  BY <1>3, <1>7 DEF StepsForward, Forward
<1> QED
  BY <1>2, <1>8, <1>9, <1>10, <1>11, OthersKeep

-----------------------------------------------------------------------------
(* A job is accepted *)

\* The new job is the last one, has its request and waits; the others stay what they
\* were, but may lose their entry.
LEMMA NewJob ==
    ASSUME ExportInv, NEW u \in Users, NEW k \in RequestKeys, Enqueue(u, k), NEW j, j = Len(requests) + 1
    PROVE  /\ j \in JobIds /\ j \in Nat /\ j \notin Accepted /\ Accepted' = Accepted \cup {j} /\ \A i \in Accepted : i < j
           /\ \A i \in Accepted : UserOf(i)' = UserOf(i) /\ TimeOf(i)' = TimeOf(i) /\ KeyOf(i)' = KeyOf(i)
           /\ UserOf(j)' = u /\ TimeOf(j)' = clock /\ KeyOf(j)' = k
           /\ entry' \in [JobIds -> EntryType] /\ entry'[j] # Gone /\ StatusOf(j)' = "pending"
           /\ \A i \in JobIds \ {j} : (entry'[i] = entry[i] \/ entry'[i] = Gone) /\ StatusOf(i)' \in {StatusOf(i), "gone"}
           /\ requests' = Append(requests, <<u, k, clock>>) /\ requests' \in Seq(Users \X RequestKeys \X Ticks)
<1>1. /\ requests \in Seq(Users \X RequestKeys \X Ticks) /\ Len(requests) \in Nat /\ clock \in Ticks
      /\ requests' = Append(requests, <<u, k, clock>>) /\ j \in JobIds /\ j \in Nat
  BY JobTypes DEF Enqueue, ExportInv, ExportTypeOK
<1>2. /\ Len(requests') = j /\ requests'[j] = <<u, k, clock>> /\ \A i \in Accepted : requests'[i] = requests[i]
      /\ requests' \in Seq(Users \X RequestKeys \X Ticks)
  BY <1>1 DEF Accepted
<1>3. j \notin Accepted /\ Accepted' = Accepted \cup {j} /\ \A i \in Accepted : i < j
  BY <1>1, <1>2 DEF Accepted
<1>4. /\ \A i \in Accepted : UserOf(i)' = UserOf(i) /\ TimeOf(i)' = TimeOf(i) /\ KeyOf(i)' = KeyOf(i)
      /\ UserOf(j)' = u /\ TimeOf(j)' = clock /\ KeyOf(j)' = k
  BY <1>2 DEF UserOf, TimeOf, KeyOf
<1>5. PICK kept \in Kept :
        entry' = [i \in JobIds |-> IF i = j THEN Entry("pending") ELSE IF i \in kept THEN entry[i] ELSE Gone]
  BY DEF Enqueue
<1>6. Entry("pending") \in EntryType /\ Entry("pending")[1] = "pending" /\ Entry("pending") # Gone
  BY JobTypes, LimitAssumption DEF ExportInv, Entry, EntryType, Statuses, Gone
<1>7. entry \in [JobIds -> EntryType]
  BY DEF ExportInv, ExportTypeOK, EntryType
<1>8. entry' \in [JobIds -> EntryType]
  <2>1. Gone \in EntryType
    BY DEF EntryType
  <2> QED
    BY <1>5, <1>6, <1>7, <2>1
<1>9. entry'[j] # Gone /\ StatusOf(j)' = "pending"
  BY <1>1, <1>5, <1>6 DEF StatusOf
<1>10. \A i \in JobIds \ {j} : (entry'[i] = entry[i] \/ entry'[i] = Gone) /\ StatusOf(i)' \in {StatusOf(i), "gone"}
  BY <1>5 DEF StatusOf, Gone
<1> QED
  BY <1>1, <1>2, <1>3, <1>4, <1>8, <1>9, <1>10

\* A job that is accepted keeps the types.
LEMMA EnqueueTypes ==
    ASSUME ExportInv, NEW u \in Users, NEW k \in RequestKeys, Enqueue(u, k) PROVE ExportTypeOK'
<1>1. PICK j : j = Len(requests) + 1
  OBVIOUS
<1>2. /\ j \in JobIds /\ Accepted' = Accepted \cup {j} /\ requests' = Append(requests, <<u, k, clock>>)
      /\ requests' \in Seq(Users \X RequestKeys \X Ticks) /\ entry' \in [JobIds -> EntryType]
  BY <1>1, NewJob
<1>3. /\ twin' = [twin EXCEPT ![u][k] = j] /\ queue' = Append(queue, j)
      /\ counted' = [counted EXCEPT ![u] = Recent(u) \cup {j}] /\ UNCHANGED <<clock, open, task, file, stored, since>>
  BY <1>1 DEF Enqueue, fileVars
<1>4. Len(requests') <= MaxJobs
  BY <1>1, <1>2, JobTypes DEF ExportInv, ExportTypeOK, JobIds
<1>5. twin' \in [Users -> [RequestKeys -> Accepted' \cup {NoJob}]]
  <2>1. twin \in [Users -> [RequestKeys -> Accepted' \cup {NoJob}]] /\ j \in Accepted'
    BY <1>2 DEF ExportInv, ExportTypeOK
  <2> QED
    BY <1>3, <2>1
<1>6. counted' \in [Users -> SUBSET Accepted']
  <2>1. counted \in [Users -> SUBSET Accepted'] /\ Recent(u) \cup {j} \in SUBSET Accepted'
    BY <1>2 DEF ExportInv, ExportTypeOK, Recent
  <2> QED
    BY <1>3, <2>1
<1>7. queue' \in Seq(Accepted')
  <2>1. queue \in Seq(Accepted') /\ j \in Accepted'
    BY <1>2 DEF ExportInv, ExportTypeOK
  <2> QED
    BY <1>3, <2>1
<1>8. task' \in [Workers -> Accepted' \cup {NoJob}]
  BY <1>2, <1>3 DEF ExportInv, ExportTypeOK
<1> QED
  BY <1>2, <1>3, <1>4, <1>5, <1>6, <1>7, <1>8 DEF ExportInv, ExportTypeOK, EntryType

\* The job stands in line behind the others.
LEMMA EnqueueLines ==
    ASSUME ExportInv, NEW u \in Users, NEW k \in RequestKeys, Enqueue(u, k)
    PROVE  /\ Clocked' /\ Unused' /\ Lined' /\ Counted' /\ Twins' /\ Filed'
           /\ \A i \in Accepted : StepsForward(i)
<1>1. PICK j : j = Len(requests) + 1
  OBVIOUS
<1>2. /\ j \in JobIds /\ j \in Nat /\ j \notin Accepted /\ Accepted' = Accepted \cup {j} /\ \A i \in Accepted : i < j
      /\ \A i \in Accepted : UserOf(i)' = UserOf(i) /\ TimeOf(i)' = TimeOf(i) /\ KeyOf(i)' = KeyOf(i)
      /\ UserOf(j)' = u /\ TimeOf(j)' = clock /\ KeyOf(j)' = k
      /\ entry'[j] # Gone /\ StatusOf(j)' = "pending"
      /\ \A i \in JobIds \ {j} : (entry'[i] = entry[i] \/ entry'[i] = Gone) /\ StatusOf(i)' \in {StatusOf(i), "gone"}
  BY <1>1, NewJob
<1>3. /\ twin' = [twin EXCEPT ![u][k] = j] /\ queue' = Append(queue, j)
      /\ counted' = [counted EXCEPT ![u] = Recent(u) \cup {j}] /\ UNCHANGED <<clock, open, task, file>> /\ open
  BY <1>1 DEF Enqueue, fileVars
<1>4. Accepted \subseteq JobIds /\ \A i \in Accepted : i # j /\ i \in Nat /\ TimeOf(i) \in Nat
  BY <1>2, JobTypes DEF ExportInv, JobIds
<1>5. Unused' /\ Filed'
  <2>1. file[j] = Never
    BY <1>2 DEF ExportInv, Unused
  <2>2. \A i \in JobIds \ Accepted' : i # j /\ i \notin Accepted
    BY <1>2
  <2>3. Unused'
    BY <1>2, <1>3, <2>2 DEF ExportInv, Unused
  <2>4. Filed'
    BY <1>2, <1>3, <1>4 DEF ExportInv, Filed
  <2> QED
    BY <2>3, <2>4
<1>6. Clocked'
  <2>1. file[j] = Never /\ Clocked /\ clock \in Nat
    BY <1>2, JobTypes DEF ExportInv, Unused
  <2>2. \A i \in Accepted : TimeOf(i)' <= clock' /\ (file'[i] # Never => TimeOf(i)' <= file'[i])
    BY <1>2, <1>3, <2>1 DEF Clocked
  <2>3. \A h, i \in Accepted : h <= i => TimeOf(h)' <= TimeOf(i)'
    BY <1>2, <2>1 DEF Clocked
  <2>4. \A h, i \in Accepted' : h <= i => TimeOf(h)' <= TimeOf(i)'
    <3>1. \A h \in Accepted : TimeOf(h)' <= TimeOf(j)' /\ ~ (j <= h)
      BY <1>2, <1>3, <1>4, <2>2
    <3> QED
      BY <1>2, <2>1, <2>3, <3>1
  <2> QED
    BY <1>2, <1>3, <2>1, <2>2, <2>4 DEF Clocked
<1>7. Lined'
  <2>1. Lined /\ queue \in Seq(Accepted) /\ Len(queue) \in Nat /\ task \in [Workers -> Accepted \cup {NoJob}]
    BY DEF ExportInv, ExportTypeOK
  <2>2. /\ DOMAIN queue = 1..Len(queue) /\ DOMAIN queue' = 1..(Len(queue) + 1) /\ queue'[Len(queue) + 1] = j
        /\ \A n \in DOMAIN queue : queue'[n] = queue[n] /\ queue[n] \in Accepted
    BY <1>3, <2>1
  <2>3. Queued' = Queued \cup {j} /\ Queued \subseteq Accepted
    BY <2>1, <2>2 DEF Queued
  <2>4. \A m, n \in DOMAIN queue' : queue'[m] = queue'[n] => m = n
    BY <1>2, <2>1, <2>2 DEF Lined
  <2>5. \A i \in Queued' : StatusOf(i)' \in {"pending", "gone"}
    BY <1>2, <1>4, <2>1, <2>3 DEF Lined
  <2>6. ASSUME NEW w \in Workers, task[w] # NoJob
        PROVE  StatusOf(task[w])' \in {"running", "gone"} /\ task[w] \notin Queued'
    <3>1. PICK i \in Accepted : i = task[w]
      BY <2>1, <2>6
    <3>2. StatusOf(i) \in {"running", "gone"} /\ i \notin Queued /\ StatusOf(task[w])' = StatusOf(i)'
      BY <1>3, <2>1, <2>6, <3>1 DEF Lined, StatusOf
    <3> QED
      BY <1>2, <1>4, <2>3, <3>1, <3>2
  <2> QED
    BY <1>3, <2>1, <2>4, <2>5, <2>6 DEF Lined
<1>8. Counted'
  <2>1. counted \in [Users -> SUBSET Accepted] /\ counted'[u] = Recent(u) \cup {j}
    BY <1>3 DEF ExportInv, ExportTypeOK
  <2>2. ASSUME NEW i \in Accepted, TimeOf(i) > clock - Minute PROVE i \in counted'[UserOf(i)]
    <3>1. i \in counted[UserOf(i)]
      BY <2>2 DEF ExportInv, Counted
    <3>2. CASE UserOf(i) = u
      BY <2>1, <2>2, <3>1, <3>2 DEF Recent
    <3>3. CASE UserOf(i) # u
      <4>1. UserOf(i) \in Users
        BY JobTypes DEF ExportInv
      <4> QED
        BY <1>3, <2>1, <3>1, <3>3, <4>1
    <3> QED
      BY <3>2, <3>3
  <2>3. ASSUME NEW i \in Accepted', TimeOf(i)' > clock - Minute PROVE i \in counted'[UserOf(i)']
    BY <1>2, <2>1, <2>2, <2>3
  <2> QED
    BY <1>3, <2>3 DEF Counted
<1>9. Twins'
  <2>1. twin \in [Users -> [RequestKeys -> Accepted \cup {NoJob}]]
    BY DEF ExportInv, ExportTypeOK
  <2>2. twin'[u][k] = j /\ \A v \in Users, h \in RequestKeys : v # u \/ h # k => twin'[v][h] = twin[v][h]
    BY <1>3, <2>1
  <2>3. ASSUME NEW i \in Accepted
        PROVE  \E t \in Accepted' : /\ t = twin'[UserOf(i)][KeyOf(i)] /\ i <= t
                                    /\ UserOf(t)' = UserOf(i) /\ KeyOf(t)' = KeyOf(i)
    <3>1. UserOf(i) \in Users /\ KeyOf(i) \in RequestKeys
      BY JobTypes DEF ExportInv
    <3>2. CASE UserOf(i) = u /\ KeyOf(i) = k
      BY <1>2, <1>4, <2>2, <3>2
    <3>3. CASE UserOf(i) # u \/ KeyOf(i) # k
      <4>1. PICK t \in Accepted : t = twin[UserOf(i)][KeyOf(i)] /\ i <= t /\ UserOf(t) = UserOf(i) /\ KeyOf(t) = KeyOf(i)
        BY <1>3 DEF ExportInv, Twins
      <4>2. twin'[UserOf(i)][KeyOf(i)] = t
        BY <2>2, <3>1, <3>3, <4>1
      <4> QED
        BY <1>2, <4>1, <4>2
    <3> QED
      BY <3>2, <3>3
  <2>4. ASSUME NEW i \in Accepted'
        PROVE  \E t \in Accepted' : /\ t = twin'[UserOf(i)'][KeyOf(i)'] /\ i <= t
                                    /\ UserOf(t)' = UserOf(i)' /\ KeyOf(t)' = KeyOf(i)'
    <3>1. CASE i = j
      BY <1>2, <2>2, <3>1
    <3>2. CASE i # j
      BY <1>2, <2>3, <2>4, <3>2
    <3> QED
      BY <3>1, <3>2
  <2> QED
    BY <2>4 DEF Twins, UserOf, KeyOf
<1>10. \A i \in Accepted : StepsForward(i)
  BY <1>2, <1>4 DEF StepsForward, StatusOf
<1> QED
  BY <1>5, <1>6, <1>7, <1>8, <1>9, <1>10

\* The submissions counted against the new one are those of the minute it ends.
LEMMA EnqueueRate ==
    ASSUME ExportInv, NEW u \in Users, NEW k \in RequestKeys, Enqueue(u, k) PROVE RateIsBounded'
<1>1. PICK j : j = Len(requests) + 1
  OBVIOUS
<1>2. /\ j \notin Accepted /\ Accepted' = Accepted \cup {j} /\ UserOf(j)' = u /\ TimeOf(j)' = clock
      /\ \A i \in Accepted : UserOf(i)' = UserOf(i) /\ TimeOf(i)' = TimeOf(i)
  BY <1>1, NewJob
<1>3. /\ IsFiniteSet(Accepted) /\ clock \in Nat /\ Minute \in Nat /\ Minute > 0 /\ MaxPerMinute \in Nat
      /\ \A i \in Accepted : TimeOf(i) <= clock /\ TimeOf(i) \in Nat
  BY AcceptedFinite, JobTypes, LimitAssumption DEF ExportInv, Clocked
<1>4. Cardinality(Recent(u)) < MaxPerMinute /\ IsFiniteSet(Recent(u)) /\ Recent(u) \subseteq Accepted
  <2>1. Recent(u) \subseteq Accepted
    BY DEF ExportInv, ExportTypeOK, Recent
  <2> QED
    BY <1>3, <2>1, FS_Subset DEF Enqueue, Admitted
<1>5. Cardinality(Recent(u) \cup {j}) <= MaxPerMinute /\ IsFiniteSet(Recent(u) \cup {j})
  <2>1. j \notin Recent(u) /\ Cardinality(Recent(u)) \in Nat
    BY <1>2, <1>4, FS_CardinalityType
  <2>2. Cardinality(Recent(u) \cup {j}) = Cardinality(Recent(u)) + 1 /\ IsFiniteSet(Recent(u) \cup {j})
    BY <1>4, <2>1, FS_AddElement
  <2> QED
    BY <1>3, <1>4, <2>1, <2>2
<1>6. ASSUME NEW i \in Accepted', NEW S, S = InMinuteOf(i)' PROVE Cardinality(S) <= MaxPerMinute
  <2>1. \A h \in S : /\ h \in Accepted' /\ UserOf(h)' = UserOf(i)'
                     /\ TimeOf(h)' <= TimeOf(i)' /\ TimeOf(h)' > TimeOf(i)' - Minute
    BY <1>6 DEF InMinuteOf
  <2>2. CASE UserOf(i)' = u /\ TimeOf(i)' = clock
    <3>1. \A h \in S : h # j => h \in Recent(u)
      BY <1>2, <2>1, <2>2 DEF ExportInv, Counted, Recent
    <3>2. S \subseteq Recent(u) \cup {j}
      BY <3>1
    <3>3. Cardinality(S) <= Cardinality(Recent(u) \cup {j}) /\ IsFiniteSet(S)
      BY <1>5, <3>2, FS_Subset
    <3> QED
      BY <1>3, <1>5, <3>3, FS_CardinalityType
  <2>3. CASE ~ (UserOf(i)' = u /\ TimeOf(i)' = clock)
    <3>2. i \in Accepted
      BY <1>2, <2>3
    <3>3. j \notin S
      BY <1>2, <1>3, <2>1, <2>3, <3>2
    <3>4. S \subseteq InMinuteOf(i)
      BY <1>2, <2>1, <3>2, <3>3 DEF InMinuteOf
    <3>5. IsFiniteSet(InMinuteOf(i)) /\ Cardinality(InMinuteOf(i)) <= MaxPerMinute
      BY <1>3, <3>2, FS_Subset DEF ExportInv, RateIsBounded, InMinuteOf
    <3> QED
      BY <1>3, <3>4, <3>5, FS_Subset, FS_CardinalityType
  <2> QED
    BY <2>2, <2>3
<1> QED
  BY <1>6 DEF RateIsBounded

\* The new job is one more than the active ones that were counted.
LEMMA EnqueueActive ==
    ASSUME ExportInv, NEW u \in Users, NEW k \in RequestKeys, Enqueue(u, k) PROVE ActiveIsBounded'
<1>1. PICK j : j = Len(requests) + 1
  OBVIOUS
<1>2. /\ j \in JobIds /\ j \notin Accepted /\ Accepted' = Accepted \cup {j} /\ UserOf(j)' = u
      /\ \A i \in Accepted : UserOf(i)' = UserOf(i)
      /\ \A i \in JobIds \ {j} : (entry'[i] = entry[i] \/ entry'[i] = Gone) /\ StatusOf(i)' \in {StatusOf(i), "gone"}
  BY <1>1, NewJob
<1>3. IsFiniteSet(Accepted) /\ MaxActive \in Nat
  BY AcceptedFinite, LimitAssumption DEF ExportInv
<1>4. ASSUME NEW v \in Users, NEW S, S = Active(v)' PROVE Cardinality(S) <= MaxActive
  <2>1. Active(v) \subseteq Accepted
    BY DEF Active
  <2>2. IsFiniteSet(Active(v)) /\ Cardinality(Active(v)) <= MaxActive /\ Cardinality(Active(v)) \in Nat
    BY <1>3, <2>1, FS_Subset, FS_CardinalityType DEF ExportInv, ActiveIsBounded
  <2>3. \A i \in S : i \in Accepted' /\ i \in JobIds /\ UserOf(i)' = v /\ StatusOf(i)' \in {"pending", "running"} /\ entry'[i] # Gone
    BY <1>4 DEF Active, Live
  <2>4. \A i \in S : i # j => i \in Active(v)
    BY <1>2, <2>3 DEF Active, Live
  <2>5. CASE v = u
    <3>1. Cardinality(Active(u)) < MaxActive
      BY DEF Enqueue, Admitted
    <3>2. Cardinality(Active(u) \cup {j}) <= MaxActive /\ IsFiniteSet(Active(u) \cup {j})
      <4>1. j \notin Active(u) /\ Cardinality(Active(u)) \in Nat /\ IsFiniteSet(Active(u))
        BY <1>2, <2>1, <2>2, <2>5
      <4>2. Cardinality(Active(u) \cup {j}) = Cardinality(Active(u)) + 1 /\ IsFiniteSet(Active(u) \cup {j})
        BY <4>1, FS_AddElement
      <4> QED
        BY <1>3, <3>1, <4>1, <4>2
    <3>3. S \subseteq Active(u) \cup {j}
      BY <2>4, <2>5
    <3>4. IsFiniteSet(S) /\ Cardinality(S) <= Cardinality(Active(u) \cup {j})
      BY <3>2, <3>3, FS_Subset
    <3> QED
      BY <1>3, <3>2, <3>4, FS_CardinalityType
  <2>6. CASE v # u
    <3>1. S \subseteq Active(v)
      BY <1>2, <2>3, <2>4, <2>6
    <3>2. IsFiniteSet(S) /\ Cardinality(S) <= Cardinality(Active(v))
      BY <2>2, <3>1, FS_Subset
    <3> QED
      BY <1>3, <2>2, <3>2, FS_CardinalityType
  <2> QED
    BY <2>5, <2>6
<1> QED
  BY <1>4 DEF ActiveIsBounded

\* The request has no twin: what was accepted for it before is over or too old.
LEMMA EnqueueRetries ==
    ASSUME ExportInv, NEW u \in Users, NEW k \in RequestKeys, Enqueue(u, k) PROVE RetriesShareAJob'
<1>1. PICK j : j = Len(requests) + 1
  OBVIOUS
<1>2. /\ j \in Nat /\ j \in JobIds /\ j \notin Accepted /\ Accepted' = Accepted \cup {j} /\ \A i \in Accepted : i < j
      /\ UserOf(j)' = u /\ TimeOf(j)' = clock /\ KeyOf(j)' = k
      /\ \A i \in Accepted : UserOf(i)' = UserOf(i) /\ TimeOf(i)' = TimeOf(i) /\ KeyOf(i)' = KeyOf(i)
      /\ \A i \in JobIds \ {j} : StatusOf(i)' \in {StatusOf(i), "gone"}
  BY <1>1, NewJob
<1>3. ASSUME NEW i \in Accepted PROVE i # j /\ i \in JobIds \ {j} /\ i \in Nat /\ TimeOf(i) \in Nat
  BY <1>2, JobTypes DEF ExportInv, JobIds
<1>4. ASSUME NEW i \in Accepted, UserOf(i) = u, KeyOf(i) = k, clock < TimeOf(i) + DedupeTTL
      PROVE  StatusOf(i) \in {"error", "gone"}
  <2>1. PICK t \in Accepted : t = twin[u][k] /\ i <= t /\ UserOf(t) = u /\ KeyOf(t) = k
    BY <1>4 DEF Enqueue, ExportInv, Twins
  <2>2. t # NoJob /\ TimeOf(i) <= TimeOf(t) /\ TimeOf(t) <= clock /\ DedupeTTL \in Nat /\ clock \in Nat
    BY <2>1, JobTypes, LimitAssumption DEF ExportInv, Clocked
  <2>3. clock < TimeOf(t) + DedupeTTL /\ TimeOf(t) < TimeOf(i) + DedupeTTL
    BY <1>3, <1>4, <2>2
  <2>4. StatusOf(t) \notin {"pending", "running", "completed"}
    BY <2>1, <2>2, <2>3 DEF Enqueue, Admitted, HasTwin, DedupeHolds
  <2>5. entry[t] \in EntryType
    BY <1>3 DEF ExportInv, ExportTypeOK, EntryType
  <2>6. StatusOf(t) \in {"error", "gone"}
    BY <2>4, <2>5, EntryFacts DEF StatusOf, Statuses
  <2>7. CASE i = t
    BY <2>6, <2>7
  <2>8. CASE i # t
    <3>1. Retry(i, t)
      BY <1>3, <1>4, <2>1, <2>3, <2>8 DEF Retry, KeyOf
    <3> QED
      BY <3>1 DEF ExportInv, RetriesShareAJob
  <2> QED
    BY <2>7, <2>8
<1>5. ASSUME NEW h \in Accepted', NEW i \in Accepted', Retry(h, i)' PROVE StatusOf(h)' \in {"error", "gone"}
  <2>1. /\ h < i /\ UserOf(h)' = UserOf(i)' /\ KeyOf(h)' = KeyOf(i)' /\ TimeOf(i)' < TimeOf(h)' + DedupeTTL
    BY <1>5 DEF Retry, KeyOf
  <2>2. h \in Accepted
    BY <1>2, <1>3, <2>1
  <2>3. StatusOf(h) \in {"error", "gone"} => StatusOf(h)' \in {"error", "gone"}
    BY <1>2, <1>3, <2>2
  <2>4. CASE i = j
    BY <1>2, <1>4, <2>1, <2>2, <2>3, <2>4
  <2>5. CASE i # j
    <3>1. i \in Accepted
      BY <1>2, <2>5
    <3>2. Retry(h, i)
      BY <1>2, <2>1, <2>2, <3>1 DEF Retry, KeyOf
    <3> QED
      BY <2>2, <2>3, <3>1, <3>2 DEF ExportInv, RetriesShareAJob
  <2> QED
    BY <2>4, <2>5
<1> QED
  BY <1>5 DEF RetriesShareAJob

\* The three together.
LEMMA EnqueueKeeps ==
    ASSUME ExportInv, NEW u \in Users, NEW k \in RequestKeys, Enqueue(u, k)
    PROVE  ExportInv' /\ \A j \in Accepted : StepsForward(j)
BY EnqueueTypes, EnqueueLines, EnqueueRate, EnqueueActive, EnqueueRetries DEF ExportInv

-----------------------------------------------------------------------------
(* The specification *)

\* Every step keeps the invariant and moves every job forward.
LEMMA ExportStep ==
    ASSUME ExportInv, [ExportNext]_exportVars PROVE ExportInv' /\ \A j \in Accepted : StepsForward(j)
<1>1. ASSUME NEW w \in Workers, Work(w) PROVE ExportInv' /\ \A j \in Accepted : StepsForward(j)
  <2>1. CASE Complete(w)
    BY <2>1, EndKeeps DEF Complete
  <2>2. CASE Fail(w)
    <3>1. task[w] # NoJob /\ End(w, "error")
      BY <2>2 DEF Fail
    <3> QED
      BY <3>1, EndKeeps
  <2> QED
    BY <1>1, <2>1, <2>2, TakeKeeps, MakeFileKeeps DEF Work
<1>2. CASE UNCHANGED exportVars
  <2>1. UNCHANGED <<clock, open, requests, entry, twin, counted, queue, task, file, stored, since>>
    BY <1>2 DEF exportVars, fileVars
  <2>2. Lined' /\ Unused' /\ Filed' /\ \A j \in Accepted : StepsForward(j)
    BY <2>1, EntriesVanish
  <2>3. ExportTypeOK'
    BY <2>1, SameJobs DEF ExportInv, ExportTypeOK
  <2> QED
    BY <2>1, <2>2, <2>3, OthersKeep
<1> QED
  BY <1>1, <1>2, TickKeeps, ShutdownKeeps, EnqueueKeeps, RefusalKeeps, OtherFilesKeep DEF ExportNext

\* ExportInv holds throughout.
LEMMA ExportHolds == ExportSpec => []ExportInv
BY ExportStart, ExportStep, PTL DEF ExportSpec

\* The variables keep their types.
THEOREM ExportTypes == ExportSpec => []ExportTypeOK
BY ExportHolds, PTL DEF ExportInv

\* No minute that ends with an accepted submission holds more of its user's than the
\* limit (enqueue_export_job's count), for any limit and however long users are idle.
THEOREM RateHolds == ExportSpec => []RateIsBounded
BY ExportHolds, PTL DEF ExportInv

\* No user has more active jobs than the limit, whichever entries are dropped.
THEOREM ActiveHolds == ExportSpec => []ActiveIsBounded
BY ExportHolds, PTL DEF ExportInv

\* Two jobs are accepted for one request within the deduplication time only when the
\* first failed or lost its entry.
THEOREM RetriesShare == ExportSpec => []RetriesShareAJob
BY ExportHolds, PTL DEF ExportInv

-----------------------------------------------------------------------------
(* The files *)

\* Sets of files are finite.
LEMMA FilesFinite ==
    ASSUME NEW S \in SUBSET FileIds PROVE IsFiniteSet(S) /\ Cardinality(S) \in Nat
<1>1. MaxJobs + MaxOthers \in Int
  BY LimitAssumption
<1>2. IsFiniteSet(FileIds)
  BY <1>1, FS_Interval DEF FileIds
<1> QED
  BY <1>2, FS_Subset, FS_CardinalityType

\* A file that was used is counted by every other that was made.
LEMMA UseCounts ==
    ASSUME ExportTypeOK, ExportTypeOK', NEW f \in FileIds, since' = UsedNow(f),
           NEW g \in FileIds, g # f, file[g] # Never
    PROVE  since'[g] = since[g] \cup {f} /\ Cardinality(since'[g]) >= Cardinality(since[g])
<1>1. since'[g] = since[g] \cup {f}
  BY DEF UsedNow
<1>2. since'[g] \in SUBSET FileIds
  BY DEF ExportTypeOK
<1>3. IsFiniteSet(since'[g])
  BY <1>2, FilesFinite
<1> QED
  BY <1>1, <1>3, FS_Subset

\* A full cache pushes out the file that all others it holds were used after.
LEMMA StoreKeeps ==
    ASSUME ExportTypeOK, ExportTypeOK', FilesInv, clock' = clock, NEW f \in FileIds, StoreFile(f)
    PROVE  FilesInv'
<1>1. PICK kept \in FilesKept : stored' = kept \cup {f}
  BY DEF StoreFile
<1>2. file[f] = Never /\ file' = [file EXCEPT ![f] = clock] /\ since' = UsedNow(f) /\ f \notin stored
  BY DEF StoreFile, FilesInv
<1>3. /\ file \in [FileIds -> Ticks \cup {Never}] /\ clock \in Ticks /\ Never \notin Ticks
      /\ stored \subseteq FileIds /\ FileCap \in Nat
  BY LimitAssumption, NothingAssumption DEF ExportTypeOK, Ticks
<1>4. kept \subseteq stored /\ file'[f] # Never /\ \A g \in FileIds : g # f => file'[g] = file[g]
  BY <1>1, <1>2, <1>3 DEF FilesKept
<1>5. \A g \in stored' : file'[g] # Never
  BY <1>1, <1>3, <1>4 DEF FilesInv
<1>6. ASSUME NEW g \in FileIds \ stored', file'[g] # Never, clock < file'[g] + FileTTL
      PROVE  Cardinality(since'[g]) >= FileCap
  <2>1. g # f /\ file[g] # Never /\ clock < file[g] + FileTTL
    BY <1>1, <1>4, <1>6
  <2>2. since'[g] = since[g] \cup {f} /\ Cardinality(since'[g]) >= Cardinality(since[g])
    BY <1>2, <2>1, UseCounts
  <2>3. /\ Cardinality(since[g]) \in Nat /\ IsFiniteSet(since'[g]) /\ Cardinality(since'[g]) \in Nat
        /\ IsFiniteSet(stored) /\ Cardinality(stored) \in Nat
    <3>1. since[g] \in SUBSET FileIds /\ since'[g] \in SUBSET FileIds /\ stored \in SUBSET FileIds
      BY DEF ExportTypeOK
    <3> QED
      BY <3>1, FilesFinite
  <2>4. CASE g \notin stored
    BY <1>3, <2>1, <2>2, <2>3, <2>4 DEF FilesInv
  <2>5. CASE g \in stored
    <3>1. g \notin kept
      BY <1>1, <1>6
    <3>2. Cardinality(stored) >= FileCap /\ stored \ {g} \subseteq since[g]
      <4>1. kept # stored
        BY <2>5, <3>1
      <4>2. ~ Cardinality(stored) < FileCap
        BY <4>1 DEF FilesKept
      <4>3. PICK h \in stored : Oldest(h) /\ kept = stored \ {h}
        BY <4>2 DEF FilesKept
      <4>4. h = g
        BY <2>5, <3>1, <4>3
      <4> QED
        BY <1>3, <2>3, <4>2, <4>3, <4>4 DEF Oldest
    <3>3. (stored \ {g}) \cup {f} \subseteq since'[g]
      BY <2>2, <3>2
    <3>4. IsFiniteSet(stored \ {g}) /\ Cardinality(stored \ {g}) = Cardinality(stored) - 1
      BY <2>3, <2>5, FS_RemoveElement
    <3>5. Cardinality((stored \ {g}) \cup {f}) = Cardinality(stored)
      <4>1. Cardinality((stored \ {g}) \cup {f}) = Cardinality(stored \ {g}) + 1
        BY <1>2, <3>4, FS_AddElement
      <4> QED
        BY <2>3, <3>4, <4>1
    <3>6. Cardinality((stored \ {g}) \cup {f}) <= Cardinality(since'[g])
      BY <2>3, <3>3, FS_Subset
    <3> QED
      BY <1>3, <2>3, <3>2, <3>5, <3>6
  <2> QED
    BY <2>4, <2>5
<1> QED
  BY <1>5, <1>6 DEF FilesInv

\* A download changes the order of use only.
LEMMA DownloadKeeps ==
    ASSUME ExportTypeOK, ExportTypeOK', FilesInv, NEW f \in FileIds, Download(f)
    PROVE  FilesInv'
<1>1. f \in stored /\ since' = UsedNow(f) /\ UNCHANGED <<clock, file, stored>>
  BY DEF Download, Downloadable
<1>2. ASSUME NEW g \in FileIds \ stored, file[g] # Never, clock < file[g] + FileTTL
      PROVE  Cardinality(since'[g]) >= FileCap
  <2>1. Cardinality(since[g]) >= FileCap /\ FileCap \in Nat
    BY <1>2, LimitAssumption DEF FilesInv
  <2>2. Cardinality(since'[g]) >= Cardinality(since[g])
    BY <1>1, <1>2, UseCounts
  <2>3. Cardinality(since'[g]) \in Nat /\ Cardinality(since[g]) \in Nat
    <3>1. since[g] \in SUBSET FileIds /\ since'[g] \in SUBSET FileIds
      BY DEF ExportTypeOK
    <3> QED
      BY <3>1, FilesFinite
  <2> QED
    BY <2>1, <2>2, <2>3
<1> QED
  BY <1>1, <1>2 DEF FilesInv

\* A tick drops what has expired.
LEMMA FilesTick == ASSUME ExportTypeOK, FilesInv, ExportTick PROVE FilesInv'
<1>1. /\ clock' = clock + 1 /\ UNCHANGED <<file, since>>
      /\ stored' = {f \in stored : clock' < file[f] + FileTTL}
  BY DEF ExportTick
<1>2. clock \in Nat /\ FileTTL \in Nat /\ \A f \in FileIds : file[f] # Never => file[f] \in Nat
  BY LimitAssumption DEF ExportTypeOK, Ticks
<1>3. ASSUME NEW f \in FileIds \ stored', file[f] # Never, clock' < file[f] + FileTTL
      PROVE  f \notin stored /\ clock < file[f] + FileTTL
  BY <1>1, <1>2, <1>3
<1> QED
  BY <1>1, <1>3 DEF FilesInv

\* Every step keeps the files that way.
LEMMA FilesStep ==
    ASSUME ExportInv, ExportInv', FilesInv, [ExportNext]_exportVars PROVE FilesInv'
<1>0. ExportTypeOK /\ ExportTypeOK'
  BY DEF ExportInv
<1>1. CASE UNCHANGED <<clock, fileVars>>
  BY <1>1 DEF fileVars, FilesInv
<1>2. ASSUME NEW w \in Workers, Work(w) PROVE FilesInv'
  <2>1. CASE MakeFile(w)
    <3>1. PICK j \in FileIds : j = task[w]
      BY <2>1, JobTypes DEF MakeFile, ExportInv, ExportTypeOK
    <3> QED
      BY <1>0, <2>1, <3>1, StoreKeeps DEF MakeFile
  <2>2. CASE ~ MakeFile(w)
    BY <1>1, <1>2, <2>2 DEF Work, Take, Complete, Fail, End
  <2> QED
    BY <2>1, <2>2
<1>3. ASSUME NEW f \in FileIds, MakeOther(f) \/ Download(f) PROVE FilesInv'
  BY <1>0, <1>3, StoreKeeps, DownloadKeeps DEF MakeOther
<1>4. ASSUME NEW u \in Users, NEW k \in RequestKeys, Enqueue(u, k) \/ EnqueueRefused(u, k) PROVE FilesInv'
  BY <1>1, <1>4 DEF Enqueue, EnqueueRefused
<1>5. CASE Shutdown
  BY <1>1, <1>5 DEF Shutdown
<1>6. CASE UNCHANGED exportVars
  BY <1>1, <1>6 DEF exportVars
<1> QED
  BY <1>0, <1>2, <1>3, <1>4, <1>5, <1>6, FilesTick DEF ExportNext

\* FilesInv holds throughout.
LEMMA FilesHold == ExportSpec => []FilesInv
<1>1. ExportInit => FilesInv
  BY DEF ExportInit, FilesInv
<1> QED
  BY <1>1, ExportHolds, FilesStep, PTL DEF ExportSpec

\* A completed twin's file was made, outlives the time in which the twin answers, and
\* is stored unless it was pushed out.
LEMMA TwinsHaveFiles == ExportInv /\ FilesInv => TwinIsDownloadable
<1> SUFFICES ASSUME ExportInv, FilesInv, NEW u \in Users, NEW k \in RequestKeys,
                    HasTwin(u, k), StatusOf(twin[u][k]) = "completed"
             PROVE  Downloadable(twin[u][k]) \/ Cardinality(since[twin[u][k]]) >= FileCap
  BY DEF TwinIsDownloadable
<1>1. PICK j \in Accepted : j = twin[u][k]
  BY DEF HasTwin, ExportInv, ExportTypeOK
<1>2. clock < TimeOf(j) + DedupeTTL /\ file[j] # Never /\ TimeOf(j) <= file[j]
  BY <1>1 DEF HasTwin, DedupeHolds, ExportInv, Filed, Clocked
<1>3. j \in FileIds /\ TimeOf(j) \in Nat /\ clock \in Nat /\ {DedupeTTL, FileTTL} \subseteq Nat
  BY JobTypes, LimitAssumption DEF ExportInv
<1>4. file[j] \in Nat
  BY <1>2, <1>3, LimitAssumption DEF ExportInv, ExportTypeOK, Ticks
<1>5. clock < file[j] + FileTTL
  BY <1>2, <1>3, <1>4, TTLAssumption
<1> QED
  BY <1>1, <1>2, <1>3, <1>5 DEF Downloadable, FilesInv

\* A retry answered with a completed job gets a file that can be downloaded, unless as
\* many others as the cache holds were used since: for any sizes, as long as the
\* deduplication time is not longer than a file is kept.
THEOREM TwinsDownload == ExportSpec => []TwinIsDownloadable
BY ExportHolds, FilesHold, TwinsHaveFiles, PTL

\* What is reported of a job only goes forward (_run_job).
THEOREM JobsMoveForward == ExportSpec => JobsGoForward
<1>1. ExportInv /\ [ExportNext]_exportVars =>
        [\A j \in Accepted : StatusOf(j)' # StatusOf(j) =>
            entry'[j] = Gone \/ <<StatusOf(j), StatusOf(j)'>> \in Forward]_exportVars
  BY ExportStep DEF StepsForward
<1> QED
  BY <1>1, ExportHolds, PTL DEF ExportSpec, JobsGoForward

\* The safety side of EveryJobEnds: an entry that says a job waits or runs is not left
\* without the queue or the worker that will change it.
NoJobIsLost ==
    \A j \in Accepted : /\ StatusOf(j) = "pending" => j \in Queued
                        /\ StatusOf(j) = "running" => \E w \in Workers : task[w] = j

\* Entries that only vanish lose no job.
LEMMA VanishedIsNotLost ==
    ASSUME ExportInv, NoJobIsLost, UNCHANGED <<requests, queue, task>>,
           \A j \in JobIds : entry'[j] = entry[j] \/ entry'[j] = Gone
    PROVE  NoJobIsLost'
<1>1. Accepted' = Accepted /\ Queued' = Queued /\ \A j \in Accepted : StatusOf(j)' \in {StatusOf(j), "gone"}
  BY JobTypes DEF ExportInv, Accepted, Queued, StatusOf, Gone
<1> QED
  BY <1>1 DEF NoJobIsLost

\* A new job waits, behind those that waited.
LEMMA NewIsQueued ==
    ASSUME ExportInv, NoJobIsLost, NEW u \in Users, NEW k \in RequestKeys, Enqueue(u, k)
    PROVE  NoJobIsLost'
<1>1. PICK j : j = Len(requests) + 1
  OBVIOUS
<1>2. /\ j \in JobIds /\ j \notin Accepted /\ Accepted' = Accepted \cup {j} /\ StatusOf(j)' = "pending"
      /\ \A i \in JobIds \ {j} : StatusOf(i)' \in {StatusOf(i), "gone"}
  BY <1>1, NewJob
<1>3. queue' = Append(queue, j) /\ task' = task /\ queue \in Seq(Accepted) /\ Accepted \subseteq JobIds
  BY <1>1, JobTypes DEF Enqueue, ExportInv, ExportTypeOK
<1>4. Queued \cup {j} \subseteq Queued'
  <2>1. \A n \in DOMAIN queue : n \in DOMAIN queue' /\ queue'[n] = queue[n]
    BY <1>3
  <2>2. Len(queue) + 1 \in DOMAIN queue' /\ queue'[Len(queue) + 1] = j
    BY <1>3
  <2> QED
    BY <2>1, <2>2 DEF Queued
<1>5. \A i \in Accepted : i \in JobIds \ {j}
  BY <1>2, <1>3
<1> QED
  BY <1>2, <1>3, <1>4, <1>5 DEF NoJobIsLost

\* The job that leaves the queue is run or has no entry.
LEMMA TakenIsRun ==
    ASSUME ExportInv, NoJobIsLost, NEW w \in Workers, Take(w) PROVE NoJobIsLost'
<1>1. /\ task[w] = NoJob /\ queue # <<>> /\ queue' = Tail(queue) /\ Accepted' = Accepted
      /\ queue \in Seq(Accepted) /\ Accepted \subseteq JobIds /\ NoJob \notin Accepted
  BY SameJobs, JobTypes DEF Take, ExportInv, ExportTypeOK
<1>2. PICK j \in Accepted : j = Head(queue)
  BY <1>1, QueueFacts
<1>3. Queued \subseteq Queued' \cup {j}
  <2>1. Len(queue) \in Nat /\ DOMAIN queue = 1..Len(queue) /\ DOMAIN queue' = 1..(Len(queue) - 1)
    BY <1>1
  <2>2. ASSUME NEW n \in DOMAIN queue, n # 1 PROVE queue[n] \in Queued'
    <3>1. n - 1 \in DOMAIN queue' /\ queue'[n - 1] = queue[n]
      BY <1>1, <2>1, <2>2
    <3> QED
      BY <3>1 DEF Queued
  <2>3. queue[1] = j
    BY <1>1, <1>2, QueueFacts
  <2> QED
    BY <2>2, <2>3 DEF Queued
<1>4. CASE entry[j] = Gone
  <2>1. entry' = entry /\ task' = task /\ StatusOf(j) = "gone"
    BY <1>2, <1>4 DEF Take, StatusOf, Gone
  <2>2. \A i \in Accepted : StatusOf(i)' = StatusOf(i)
    BY <2>1 DEF StatusOf
  <2> QED
    BY <1>1, <1>3, <2>1, <2>2 DEF NoJobIsLost
<1>5. CASE entry[j] # Gone
  <2>1. entry' = [entry EXCEPT ![j] = Entry("running")] /\ task' = [task EXCEPT ![w] = j]
    BY <1>2, <1>5 DEF Take
  <2>2. entry \in [JobIds -> EntryType] /\ task \in [Workers -> Accepted \cup {NoJob}]
    BY DEF ExportInv, ExportTypeOK, EntryType
  <2>3. /\ \A i \in Accepted : i # j => StatusOf(i)' = StatusOf(i)
        /\ StatusOf(j)' = "running" /\ task'[w] = j /\ \A x \in Workers : x # w => task'[x] = task[x]
    BY <1>1, <2>1, <2>2 DEF StatusOf, Entry
  <2>4. ASSUME NEW i \in Accepted, i # j
        PROVE  /\ StatusOf(i)' = "pending" => i \in Queued'
               /\ StatusOf(i)' = "running" => \E x \in Workers : task'[x] = i
    BY <1>1, <1>3, <2>3, <2>4 DEF NoJobIsLost
  <2> QED
    BY <1>1, <2>3, <2>4 DEF NoJobIsLost
<1> QED
  BY <1>4, <1>5

\* A worker leaves a job with its end.
LEMMA EndedIsNotLost ==
    ASSUME ExportInv, NoJobIsLost, NEW w \in Workers, NEW end \in {"completed", "error"}, End(w, end),
           task[w] # NoJob
    PROVE  NoJobIsLost'
<1>1. /\ Accepted' = Accepted /\ Accepted \subseteq JobIds /\ queue' = queue
      /\ entry \in [JobIds -> EntryType] /\ task \in [Workers -> Accepted \cup {NoJob}]
  BY SameJobs, JobTypes DEF End, ExportInv, ExportTypeOK, EntryType
<1>2. PICK j \in Accepted : j = task[w]
  BY <1>1
<1>3. /\ task' = [task EXCEPT ![w] = NoJob]
      /\ entry' = IF entry[j] = Gone THEN entry ELSE [entry EXCEPT ![j] = Entry(end)]
  BY <1>2 DEF End
<1>4. /\ \A i \in Accepted : i # j => StatusOf(i)' = StatusOf(i)
      /\ StatusOf(j)' \in {"gone", end} /\ \A x \in Workers : x # w => task'[x] = task[x]
  BY <1>1, <1>3 DEF StatusOf, Entry, Gone
<1>5. ASSUME NEW i \in Accepted, i # j, StatusOf(i)' = "running" PROVE \E x \in Workers : task'[x] = i
  <2>1. PICK x \in Workers : task[x] = i
    BY <1>4, <1>5 DEF NoJobIsLost
  <2> QED
    BY <1>2, <1>4, <1>5, <2>1
<1>6. \A i \in Accepted : StatusOf(i)' = "pending" => i \in Queued'
  BY <1>1, <1>4 DEF NoJobIsLost, Queued
<1> QED
  BY <1>1, <1>4, <1>5, <1>6 DEF NoJobIsLost

\* Every step loses no job.
LEMMA NoneIsLost ==
    ASSUME ExportInv, NoJobIsLost, [ExportNext]_exportVars PROVE NoJobIsLost'
<1>1. CASE ExportTick
  BY <1>1, VanishedIsNotLost DEF ExportTick
<1>2. CASE Shutdown
  BY <1>2, VanishedIsNotLost DEF Shutdown
<1>3. ASSUME NEW u \in Users, NEW k \in RequestKeys, EnqueueRefused(u, k) PROVE NoJobIsLost'
  <2>1. PICK kept \in Kept : entry' = [i \in JobIds |-> IF i \in kept THEN entry[i] ELSE Gone]
    BY <1>3 DEF EnqueueRefused
  <2>2. \A i \in JobIds : entry'[i] = entry[i] \/ entry'[i] = Gone
    BY <2>1
  <2> QED
    BY <1>3, <2>2, VanishedIsNotLost DEF EnqueueRefused
<1>4. ASSUME NEW w \in Workers, Work(w) PROVE NoJobIsLost'
  <2>1. CASE MakeFile(w)
    BY <2>1, VanishedIsNotLost DEF MakeFile
  <2>2. CASE Complete(w)
    BY <2>2, EndedIsNotLost DEF Complete
  <2>3. CASE Fail(w)
    <3>1. task[w] # NoJob /\ End(w, "error")
      BY <2>3 DEF Fail
    <3> QED
      BY <3>1, EndedIsNotLost
  <2> QED
    BY <1>4, <2>1, <2>2, <2>3, TakenIsRun DEF Work
<1>5. CASE UNCHANGED exportVars
  BY <1>5, VanishedIsNotLost DEF exportVars
<1>6. ASSUME NEW f \in FileIds, MakeOther(f) \/ Download(f) PROVE NoJobIsLost'
  BY <1>6, VanishedIsNotLost DEF MakeOther, Download
<1> QED
  BY <1>1, <1>2, <1>3, <1>4, <1>5, <1>6, NewIsQueued DEF ExportNext

\* A job whose entry says it waits is in the queue, and one whose entry says it runs has
\* a worker, through workers that end jobs whose entries went, entries pushed out of a
\* full cache and submissions the executor refuses: what EveryJobEnds rests on
\* (_run_job, enqueue_export_job).
THEOREM JobsAreHeld == ExportSpec => []NoJobIsLost
<1>1. ExportInit => NoJobIsLost
  BY DEF ExportInit, NoJobIsLost, StatusOf, Gone, Accepted
<1> QED
  BY <1>1, NoneIsLost, ExportHolds, PTL DEF ExportSpec
-----------------------------------------------------------------------------
(* LaborFeed: types *)

\* The larger of two numbers.
LEMMA MaxOfTwo ==
    ASSUME NEW a \in Int, NEW b \in Int PROVE Max({a, b}) = IF a >= b THEN a ELSE b
<1> DEFINE m == IF a >= b THEN a ELSE b
<1>1. m \in {a, b} /\ \A y \in {a, b} : m >= y
  OBVIOUS
<1>2. \A x \in {a, b} : (\A y \in {a, b} : x >= y) => x = m
  OBVIOUS
<1> QED BY <1>1, <1>2 DEF Max

\* The smaller of two numbers.
LEMMA MinOfTwo ==
    ASSUME NEW a \in Int, NEW b \in Int PROVE Min({a, b}) = IF a <= b THEN a ELSE b
<1> DEFINE m == IF a <= b THEN a ELSE b
<1>1. m \in {a, b} /\ \A y \in {a, b} : m <= y
  OBVIOUS
<1>2. \A x \in {a, b} : (\A y \in {a, b} : x <= y) => x = m
  OBVIOUS
<1> QED BY <1>1, <1>2 DEF Min

\* The largest of three numbers, of which the third is no less than the second.
LEMMA MaxOfThree ==
    ASSUME NEW a \in Int, NEW b \in Int, NEW c \in Int, b <= c
    PROVE  Max({a, b, c}) = IF a >= c THEN a ELSE c
<1> DEFINE m == IF a >= c THEN a ELSE c
<1>1. m \in {a, b, c} /\ \A y \in {a, b, c} : m >= y
  OBVIOUS
<1>2. \A x \in {a, b, c} : (\A y \in {a, b, c} : x >= y) => x = m
  OBVIOUS
<1> QED BY <1>1, <1>2 DEF Max

\* The last of the numbers from one to another.
LEMMA MaxOfRange == ASSUME NEW a \in Int, NEW b \in Int, a <= b PROVE Max(a..b) = b
<1>1. b \in a..b /\ \A y \in a..b : b >= y
  OBVIOUS
<1>2. \A x \in a..b : (\A y \in a..b : x >= y) => x = b
  OBVIOUS
<1> QED BY <1>1, <1>2 DEF Max

\* What a refresh's clone is made of.
LEMMA CopyOfDays ==
    ASSUME NEW D \in SUBSET LaborDays, NEW f \in [D -> {0, 1}] PROVE f \in Copies
BY DEF Copies

LEMMA NothingOfNoDay == NoHours \in Copies
<1>1. NoHours \in [{} -> {0, 1}]
  BY DEF NoHours
<1> QED BY <1>1, CopyOfDays

\* The chunk of a refresh with these dates.
ChunkOf(r) == r.next..Min({r.until, r.next + ChunkDays - 1})

LEMMA ChunkOfPull == ASSUME NEW p PROVE Chunk(p) = ChunkOf(pull[p])
BY DEF Chunk, ChunkOf

Stored == {"staged", "swapping"}
Held == {"fetched"} \cup Stored

\* A refresh at time t: it covers the days from its start to the day it began, reaches back
\* as far as the incremental window at least, and its copy has the days of its step.
GoodPull(r, t) ==
    /\ r \in Pull
    /\ r.from <= r.next /\ r.next <= r.until + 1 /\ r.until <= t
    /\ r.from = 0 \/ r.from <= r.until - (IncrementalDays - 1)
    /\ r.step \in Held => r.next <= r.until
    /\ r.step = "fetched" => r.copy \in [ChunkOf(r) -> {0, 1}]
    /\ r.step \in Stored => r.copy \in [LaborDays -> {0, 1}]

LaborShape ==
    /\ now \in LaborDays /\ corrections \in 0..MaxCorrections /\ stops \in 0..MaxStops
    /\ feed \in [LaborDays -> {0, 1}] /\ hours \in [LaborDays -> {0, 1}]
    /\ standing \in BOOLEAN /\ stray \subseteq LaborDays /\ lost \subseteq LaborDays
    /\ watermark \in LaborDays \cup {NoDate}
    /\ reached \in LaborDays \cup {-1} /\ reached <= now
    /\ DOMAIN pull = Refreshers /\ pull = [q \in Refreshers |-> pull[q]]
    /\ \A q \in Refreshers : GoodPull(pull[q], now)

LEMMA LaborConstants ==
    /\ LastLaborDay \in Nat /\ LaborDays = 0..LastLaborDay /\ NoDate \notin Int
    /\ {ChunkDays, IncrementalDays, RecentDays, CorrectionDays} \subseteq Nat \ {0}
    /\ IncrementalDays <= RecentDays
BY LaborDayAssumption, LaborWindowAssumption DEF LaborDays

\* The last of some days is one of them.
LEMMA LastDayOf ==
    ASSUME NEW n \in Nat, NEW S \in SUBSET (0..n), S # {} PROVE Max(S) \in S
<1> DEFINE T == {n - d : d \in S}
           R == {ss \in Nat \X Nat : ss[1] < ss[2]}
<1>0. T # {}
  <2>1. PICK d \in S : TRUE
    OBVIOUS
  <2>2. n - d \in T
    OBVIOUS
  <2> QED BY <2>2
<1>1. T \subseteq Nat
  <2> SUFFICES ASSUME NEW d \in S PROVE n - d \in Nat
    OBVIOUS
  <2>1. d \in 0..n
    OBVIOUS
  <2> QED BY <2>1
<1>2. IsWellFoundedOn(R, Nat)
  <2>1. R = OpToRel(<, Nat)
    BY DEF OpToRel
  <2> QED BY <2>1, NatLessThanWellFounded
<1>3. PICK t \in T : \A u \in T : <<u, t>> \notin R
  <2> HIDE DEF T, R
  <2> QED BY <1>0, <1>1, <1>2, WFMin
<1>4. \A u \in T : ~(u < t)
  BY <1>1, <1>3
<1>5. PICK d \in S : t = n - d
  OBVIOUS
<1>6. \A e \in S : d >= e
  <2> TAKE e \in S
  <2>1. n - e \in T
    OBVIOUS
  <2>2. ~(n - e < n - d)
    BY <1>4, <1>5, <2>1
  <2>3. e \in 0..n /\ d \in 0..n
    OBVIOUS
  <2> QED BY <2>2, <2>3
<1> QED BY <1>6 DEF Max

\* A refresh starts on a day of the past, as far back as the incremental window or further.
LEMMA StartOfWindow ==
    ASSUME now \in LaborDays, watermark \in LaborDays \cup {NoDate},
           NEW start \in {IncrementalStart, RecentStart, 0}
    PROVE  /\ start \in LaborDays /\ start <= now
           /\ start = 0 \/ start <= now - (IncrementalDays - 1)
<1> USE LaborDayAssumption, LaborWindowAssumption DEF LaborDays
<1>1. now \in Nat /\ now <= LastLaborDay /\ (watermark # NoDate => watermark \in Int)
  OBVIOUS
<1>n. {RecentDays, IncrementalDays} \subseteq Nat \ {0} /\ IncrementalDays <= RecentDays
  OBVIOUS
<1> DEFINE r == now - (RecentDays - 1)
           b == now - (IncrementalDays - 1)
<1>2. r \in Int /\ b \in Int /\ r <= b /\ b <= now
  BY <1>1, <1>n
<1>3. CASE start = 0
  BY <1>1, <1>3
<1>4. ASSUME start = RecentStart PROVE start = (IF 0 >= r THEN 0 ELSE r)
  <2>1. Max({0, r}) = IF 0 >= r THEN 0 ELSE r
    <3> HIDE DEF r
    <3> QED BY <1>2, MaxOfTwo
  <2> QED BY <1>4, <2>1 DEF RecentStart
<1>5. CASE start = RecentStart
  <2> HIDE DEF r
  <2>1. start \in Nat /\ start <= now /\ (start = 0 \/ start <= b)
    <3> HIDE DEF b
    <3> QED BY <1>1, <1>2, <1>4, <1>5
  <2> QED BY <1>1, <2>1
<1>6. CASE start = IncrementalStart /\ watermark # NoDate
  <2> DEFINE w == Min({watermark, now})
             a == w - (RecentDays - 1)
  <2>1. w \in Int /\ w <= now
    BY <1>1, <1>6, MinOfTwo
  <2>2. a \in Int /\ a <= b
    <3> HIDE DEF w
    <3> QED BY <1>1, <1>n, <2>1
  <2>3. start = Max({0, a, b})
    BY <1>6 DEF IncrementalStart
  <2>4. start = IF 0 >= b THEN 0 ELSE b
    <3> HIDE DEF a, b
    <3> QED BY <1>2, <2>2, <2>3, MaxOfThree
  <2>5. start \in Nat /\ start <= now /\ (start = 0 \/ start <= b)
    <3> HIDE DEF b
    <3> QED BY <1>1, <1>2, <2>4
  <2> QED BY <1>1, <2>5
<1>7. CASE start = IncrementalStart /\ watermark = NoDate
  BY <1>5, <1>7 DEF IncrementalStart
<1> QED BY <1>3, <1>5, <1>6, <1>7

\* The days of a chunk.
LEMMA ChunkDates ==
    ASSUME NEW r, r.next \in Nat, r.until \in LaborDays, r.next <= r.until
    PROVE  /\ ChunkOf(r) \subseteq LaborDays /\ r.next \in ChunkOf(r)
           /\ \A d \in LaborDays : d < r.next \/ d \in ChunkOf(r) \/ d > Max(ChunkOf(r))
           /\ \A d \in ChunkOf(r) : r.next <= d /\ d <= Max(ChunkOf(r))
           /\ Max(ChunkOf(r)) \in LaborDays /\ r.next <= Max(ChunkOf(r))
           /\ Max(ChunkOf(r)) <= r.until
<1> USE LaborDayAssumption, LaborWindowAssumption DEF LaborDays
<1> DEFINE k == r.next + ChunkDays - 1
           m == Min({r.until, k})
<1>1. m \in Int /\ r.next <= m /\ m <= r.until
  <2>1. k \in Int /\ r.next <= k /\ r.until \in Int
    OBVIOUS
  <2> HIDE DEF k
  <2> QED BY <2>1, MinOfTwo
<1>2. ChunkOf(r) = r.next..m
  BY DEF ChunkOf
<1> HIDE DEF m
<1>3. Max(ChunkOf(r)) = m
  BY <1>1, <1>2, MaxOfRange
<1>4. ChunkOf(r) \subseteq LaborDays
  BY <1>1, <1>2
<1> HIDE DEF ChunkOf
<1> QED BY <1>1, <1>2, <1>3, <1>4

\* What is known of the dates of a refresh.
LEMMA PullDates ==
    ASSUME NEW r, NEW t \in LaborDays, GoodPull(r, t)
    PROVE  /\ {r.from, r.next, r.until} \subseteq Nat /\ r.until \in LaborDays
           /\ r.from \in LaborDays /\ r.next \in 0..(LastLaborDay + 1)
           /\ r.missed \subseteq LaborDays /\ r.stray \subseteq LaborDays
BY LaborConstants DEF GoodPull, Pull

LEMMA NoPullIsGood ==
    ASSUME NEW t \in LaborDays, NEW s \in {"idle", "ended"}
    PROVE  GoodPull([NoPull EXCEPT !.step = s], t) /\ GoodPull(NoPull, t)
BY LaborConstants, NothingOfNoDay DEF GoodPull, Pull, NoPull, Held, Stored

LEMMA RestIsGood == ASSUME NEW t \in LaborDays, NEW p PROVE GoodPull(Rest(p), t)
BY NoPullIsGood DEF Rest

\* A refresh of which more days are known to be missed is one with the same dates.
LEMMA MissedIsGood ==
    ASSUME NEW r, NEW t, GoodPull(r, t), NEW M \in SUBSET LaborDays
    PROVE  LET q == [r EXCEPT !.missed = @ \cup M] IN
           /\ GoodPull(q, t)
           /\ q.step = r.step /\ q.from = r.from /\ q.next = r.next /\ q.until = r.until
           /\ q.copy = r.copy /\ q.missed = r.missed \cup M
<1> DEFINE q == [r EXCEPT !.missed = @ \cup M]
<1>1. r \in Pull
  BY DEF GoodPull
<1>2. /\ q \in Pull
      /\ q.step = r.step /\ q.from = r.from /\ q.next = r.next /\ q.until = r.until
      /\ q.copy = r.copy /\ q.missed = r.missed \cup M
  BY <1>1 DEF Pull
<1>3. ChunkOf(q) = ChunkOf(r)
  BY <1>2 DEF ChunkOf
<1> QED BY <1>2, <1>3 DEF GoodPull

\* Time only helps.
LEMMA LaterIsGood ==
    ASSUME NEW r, NEW t \in LaborDays, NEW u \in LaborDays, t <= u, GoodPull(r, t) PROVE GoodPull(r, u)
<1>1. r.until \in Nat
  BY PullDates
<1> QED BY <1>1, LaborConstants DEF GoodPull

LEMMA OlderAreDays == ASSUME NEW q, NEW D \in SUBSET LaborDays PROVE Older(q, D) \in SUBSET LaborDays
BY DEF Older

\* What a refresh stores leaves the other refreshes as they are, but for what they miss.
LEMMA OthersMiss ==
    ASSUME LaborShape, NEW D \in SUBSET LaborDays, NEW q \in Refreshers
    PROVE  LET r == Missing(D)[q] IN
           /\ GoodPull(r, now)
           /\ r.step = pull[q].step /\ r.from = pull[q].from /\ r.next = pull[q].next
           /\ r.until = pull[q].until /\ r.copy = pull[q].copy
           /\ pull[q].step \in Held => r.missed = pull[q].missed \cup Older(q, D)
<1>1. GoodPull(pull[q], now)
  BY DEF LaborShape
<1>2. CASE Holds(q)
  <2>1. Missing(D)[q] = [pull[q] EXCEPT !.missed = @ \cup Older(q, D)]
    BY <1>2 DEF Missing
  <2> QED BY <1>1, <2>1, OlderAreDays, MissedIsGood
<1>3. CASE ~Holds(q)
  <2>1. Missing(D)[q] = pull[q] /\ pull[q].step \notin Held
    BY <1>3 DEF Missing, Holds, Held, Stored
  <2> QED BY <1>1, <2>1
<1> QED BY <1>2, <1>3

LEMMA ShapeGivesTypes == LaborShape => LaborTypeOK
BY DEF LaborShape, LaborTypeOK, GoodPull

\* A refresh's step changes its own dates and copy.
LEMMA StepOfOne ==
    ASSUME LaborShape, NEW p \in Refreshers, NEW r, GoodPull(r, now), pull' = [pull EXCEPT ![p] = r]
    PROVE  /\ DOMAIN pull' = Refreshers /\ pull' = [q \in Refreshers |-> pull'[q]]
           /\ pull'[p] = r /\ \A q \in Refreshers \ {p} : pull'[q] = pull[q]
           /\ \A q \in Refreshers : GoodPull(pull'[q], now)
BY DEF LaborShape

\* A refresh's step that stores days changes what the others miss as well.
LEMMA StepOfAll ==
    ASSUME LaborShape, NEW p \in Refreshers, NEW r, GoodPull(r, now), NEW D \in SUBSET LaborDays,
           pull' = [Missing(D) EXCEPT ![p] = r]
    PROVE  /\ DOMAIN pull' = Refreshers /\ pull' = [q \in Refreshers |-> pull'[q]]
           /\ pull'[p] = r /\ \A q \in Refreshers \ {p} : pull'[q] = Missing(D)[q]
           /\ \A q \in Refreshers : GoodPull(pull'[q], now)
<1>1. Missing(D) = [q \in Refreshers |-> Missing(D)[q]]
  BY DEF Missing
<1>2. \A q \in Refreshers : GoodPull(Missing(D)[q], now)
  BY OthersMiss
<1> HIDE DEF Missing
<1> QED BY <1>1, <1>2

\* The chunk of a refresh that has one.
LEMMA ChunkOfGood ==
    ASSUME NEW r, NEW t \in LaborDays, GoodPull(r, t), r.next <= r.until
    PROVE  ChunkOf(r) \in SUBSET LaborDays /\ Max(ChunkOf(r)) \in LaborDays
BY PullDates, ChunkDates

LEMMA BegunIsGood ==
    ASSUME now \in LaborDays, watermark \in LaborDays \cup {NoDate},
           NEW start \in {IncrementalStart, RecentStart, 0}
    PROVE  LET r == [NoPull EXCEPT !.step = "next", !.from = start, !.next = start,
                                   !.until = now, !.seen = watermark] IN
           GoodPull(r, now) /\ r.from = start /\ r.next = start /\ r.step = "next"
<1>1. start \in LaborDays /\ start <= now /\ (start = 0 \/ start <= now - (IncrementalDays - 1))
  BY StartOfWindow
<1>2. start \in 0..(LastLaborDay + 1) /\ start <= now + 1 /\ start <= start /\ now <= now
  BY <1>1, LaborConstants
<1> QED
  BY <1>1, <1>2, NothingOfNoDay DEF GoodPull, Pull, NoPull, Held, Stored

LEMMA FetchedIsGood ==
    ASSUME LaborShape, NEW p \in Refreshers, pull[p].next <= pull[p].until
    PROVE  LET r == [pull[p] EXCEPT !.step = "fetched", !.copy = [d \in Chunk(p) |-> feed[d]]] IN
           /\ GoodPull(r, now) /\ r.step = "fetched" /\ r.from = pull[p].from
           /\ r.next = pull[p].next /\ r.until = pull[p].until /\ r.missed = pull[p].missed
           /\ r.copy = [d \in ChunkOf(pull[p]) |-> feed[d]]
<1> DEFINE f == [d \in Chunk(p) |-> feed[d]]
           r == [pull[p] EXCEPT !.step = "fetched", !.copy = f]
<1>1. GoodPull(pull[p], now) /\ pull[p] \in Pull
  BY DEF LaborShape, GoodPull
<1>2. Chunk(p) = ChunkOf(pull[p]) /\ ChunkOf(pull[p]) \in SUBSET LaborDays
  BY <1>1, ChunkOfPull, ChunkOfGood DEF LaborShape
<1>3. f \in [ChunkOf(pull[p]) -> {0, 1}] /\ f \in Copies
  <2>1. f \in [ChunkOf(pull[p]) -> {0, 1}]
    BY <1>2 DEF LaborShape
  <2> QED BY <1>2, <2>1, CopyOfDays
<1>f. f = [d \in ChunkOf(pull[p]) |-> feed[d]]
  BY <1>2
<1> HIDE DEF f
<1>4. /\ r \in Pull /\ r.step = "fetched" /\ r.from = pull[p].from /\ r.next = pull[p].next
      /\ r.until = pull[p].until /\ r.missed = pull[p].missed /\ r.copy = f
  BY <1>1, <1>3 DEF Pull
<1>5. ChunkOf(r) = ChunkOf(pull[p])
  BY <1>4 DEF ChunkOf
<1>6. GoodPull(r, now)
  <2> HIDE DEF r
  <2> QED BY <1>1, <1>3, <1>4, <1>5 DEF GoodPull, Held, Stored
<1> QED BY <1>4, <1>6, <1>f DEF f

LEMMA StagedIsGood ==
    ASSUME LaborShape, NEW p \in Refreshers, pull[p].step = "fetched", NEW days \in SUBSET LaborDays
    PROVE  LET r == [pull[p] EXCEPT !.step = "staged", !.copy = CopyOf(p, days),
                                    !.stray = stray \cap days, !.missed = MissedOf(p, days)] IN
           /\ GoodPull(r, now) /\ r.step = "staged" /\ r.from = pull[p].from
           /\ r.next = pull[p].next /\ r.until = pull[p].until
           /\ r.copy = CopyOf(p, days) /\ r.missed = MissedOf(p, days)
<1> DEFINE f == CopyOf(p, days)
           m == MissedOf(p, days)
           y == stray \cap days
           r == [pull[p] EXCEPT !.step = "staged", !.copy = f, !.stray = y, !.missed = m]
<1>1. GoodPull(pull[p], now) /\ pull[p] \in Pull /\ pull[p].next <= pull[p].until
  BY DEF LaborShape, GoodPull, Held
<1>2. Chunk(p) = ChunkOf(pull[p]) /\ ChunkOf(pull[p]) \in SUBSET LaborDays
  BY <1>1, ChunkOfPull, ChunkOfGood DEF LaborShape
<1>3. f \in [LaborDays -> {0, 1}] /\ f \in Copies
  <2>1. pull[p].copy \in [ChunkOf(pull[p]) -> {0, 1}]
    BY <1>1 DEF GoodPull
  <2>2. f \in [LaborDays -> {0, 1}]
    BY <1>2, <2>1 DEF CopyOf, LaborShape
  <2> QED BY <2>2, CopyOfDays
<1>4. m \subseteq LaborDays /\ y \subseteq LaborDays
  BY PullDates, <1>1 DEF MissedOf, LaborShape
<1> HIDE DEF f, m, y
<1>5. /\ r \in Pull /\ r.step = "staged" /\ r.from = pull[p].from /\ r.next = pull[p].next
      /\ r.until = pull[p].until /\ r.missed = m /\ r.copy = f
  BY <1>1, <1>3, <1>4 DEF Pull
<1>6. GoodPull(r, now)
  <2> HIDE DEF r
  <2> QED BY <1>1, <1>3, <1>5 DEF GoodPull, Held, Stored
<1> QED BY <1>5, <1>6 DEF f, m, y

LEMMA SwappingIsGood ==
    ASSUME LaborShape, NEW p \in Refreshers, pull[p].step = "staged"
    PROVE  LET r == [pull[p] EXCEPT !.step = "swapping"] IN
           /\ GoodPull(r, now) /\ r.step = "swapping" /\ r.from = pull[p].from
           /\ r.next = pull[p].next /\ r.until = pull[p].until
           /\ r.copy = pull[p].copy /\ r.missed = pull[p].missed
<1> DEFINE r == [pull[p] EXCEPT !.step = "swapping"]
<1>1. GoodPull(pull[p], now) /\ pull[p] \in Pull
  BY DEF LaborShape, GoodPull
<1>2. /\ r \in Pull /\ r.step = "swapping" /\ r.from = pull[p].from /\ r.next = pull[p].next
      /\ r.until = pull[p].until /\ r.copy = pull[p].copy /\ r.missed = pull[p].missed
  BY <1>1 DEF Pull
<1> HIDE DEF r
<1>3. GoodPull(r, now)
  BY <1>1, <1>2 DEF GoodPull, Held, Stored
<1> QED BY <1>2, <1>3 DEF r

LEMMA SwappedIsGood ==
    ASSUME LaborShape, NEW p \in Refreshers, pull[p].step = "swapping"
    PROVE  LET r == [pull[p] EXCEPT !.step = "next", !.next = Max(Chunk(p)) + 1,
                                    !.copy = NoHours, !.stray = {}, !.missed = {}] IN
           /\ GoodPull(r, now) /\ r.step = "next" /\ r.from = pull[p].from
           /\ r.next = Max(ChunkOf(pull[p])) + 1 /\ r.until = pull[p].until
<1> DEFINE n == Max(Chunk(p)) + 1
           r == [pull[p] EXCEPT !.step = "next", !.next = n,
                                !.copy = NoHours, !.stray = {}, !.missed = {}]
<1>1. GoodPull(pull[p], now) /\ pull[p] \in Pull /\ pull[p].next <= pull[p].until /\ now \in LaborDays
  BY DEF LaborShape, GoodPull, Held, Stored
<1>n. n = Max(ChunkOf(pull[p])) + 1
  BY ChunkOfPull
<1>2. n \in 0..(LastLaborDay + 1) /\ pull[p].from <= n /\ n <= pull[p].until + 1
  <2>1. /\ Max(ChunkOf(pull[p])) \in LaborDays /\ pull[p].next <= Max(ChunkOf(pull[p]))
        /\ Max(ChunkOf(pull[p])) <= pull[p].until
    BY <1>1, PullDates, ChunkDates
  <2>2. pull[p].from \in Nat /\ pull[p].from <= pull[p].next /\ pull[p].until \in Nat /\ pull[p].next \in Nat
    BY <1>1, PullDates DEF GoodPull
  <2> DEFINE m == Max(ChunkOf(pull[p]))
  <2>3. m \in 0..LastLaborDay /\ pull[p].next <= m /\ m <= pull[p].until /\ n = m + 1
    BY <1>n, <2>1, LaborConstants
  <2> HIDE DEF n, m
  <2>4. n \in 0..(LastLaborDay + 1)
    BY <2>3, LaborConstants
  <2> QED BY <2>2, <2>3, <2>4
<1> HIDE DEF n
<1>3. /\ r \in Pull /\ r.step = "next" /\ r.from = pull[p].from /\ r.next = n /\ r.until = pull[p].until
  BY <1>1, <1>2, NothingOfNoDay DEF Pull
<1>4. GoodPull(r, now)
  <2> HIDE DEF r
  <2> QED BY <1>1, <1>2, <1>3 DEF GoodPull, Held, Stored
<1> QED BY <1>n, <1>3, <1>4 DEF n

\* The refreshes of a step and the dates they leave.
LEMMA BeginIsStep ==
    ASSUME LaborShape, NEW p \in Refreshers, NEW start \in {IncrementalStart, RecentStart, 0},
           BeginPull(p, start)
    PROVE  /\ pull' = [q \in Refreshers |-> pull'[q]] /\ DOMAIN pull' = Refreshers
           /\ \A q \in Refreshers : GoodPull(pull'[q], now)
           /\ \A q \in Refreshers \ {p} : pull'[q] = pull[q]
           /\ pull'[p].step = "next" /\ pull'[p].next = pull'[p].from
<1> DEFINE r == [NoPull EXCEPT !.step = "next", !.from = start, !.next = start,
                               !.until = now, !.seen = watermark]
<1>1. GoodPull(r, now) /\ r.step = "next" /\ r.next = r.from
  BY BegunIsGood DEF LaborShape
<1>2. pull' = [pull EXCEPT ![p] = r]
  BY DEF BeginPull
<1> HIDE DEF r
<1> QED BY <1>1, <1>2, StepOfOne

LEMMA FetchIsStep ==
    ASSUME LaborShape, NEW p \in Refreshers, FetchChunk(p)
    PROVE  /\ pull' = [q \in Refreshers |-> pull'[q]] /\ DOMAIN pull' = Refreshers
           /\ \A q \in Refreshers : GoodPull(pull'[q], now)
           /\ \A q \in Refreshers \ {p} : pull'[q] = pull[q]
           /\ pull'[p].step = "fetched" /\ pull'[p].from = pull[p].from
           /\ pull'[p].next = pull[p].next /\ pull'[p].until = pull[p].until
           /\ pull'[p].copy = [d \in ChunkOf(pull[p]) |-> feed[d]]
<1> DEFINE r == [pull[p] EXCEPT !.step = "fetched", !.copy = [d \in Chunk(p) |-> feed[d]]]
<1>1. /\ GoodPull(r, now) /\ r.step = "fetched" /\ r.from = pull[p].from
      /\ r.next = pull[p].next /\ r.until = pull[p].until
      /\ r.copy = [d \in ChunkOf(pull[p]) |-> feed[d]]
  BY FetchedIsGood DEF FetchChunk
<1>2. pull' = [pull EXCEPT ![p] = r]
  BY DEF FetchChunk, LaborShape
<1> HIDE DEF r
<1> QED BY <1>1, <1>2, StepOfOne

LEMMA StageIsStep ==
    ASSUME LaborShape, NEW p \in Refreshers, StageChunk(p)
    PROVE  /\ pull' = [q \in Refreshers |-> pull'[q]] /\ DOMAIN pull' = Refreshers
           /\ \A q \in Refreshers : GoodPull(pull'[q], now)
           /\ \A q \in Refreshers \ {p} : pull'[q] = pull[q]
           /\ pull'[p].step = "staged" /\ pull'[p].from = pull[p].from
           /\ pull'[p].next = pull[p].next /\ pull'[p].until = pull[p].until
           /\ \E days \in SUBSET LaborDays :
                pull'[p].copy = CopyOf(p, days) /\ pull'[p].missed = MissedOf(p, days)
<1>1. PICK days \in Cloned(p) :
            pull' = [pull EXCEPT ![p] =
                        [pull[p] EXCEPT !.step = "staged", !.copy = CopyOf(p, days),
                                        !.stray = stray \cap days, !.missed = MissedOf(p, days)]]
  BY ZenonT(30) DEF StageChunk
<1>2. days \in SUBSET LaborDays
  BY GlimpsesAssumption DEF Cloned, LaborDays
<1> DEFINE r == [pull[p] EXCEPT !.step = "staged", !.copy = CopyOf(p, days),
                                !.stray = stray \cap days, !.missed = MissedOf(p, days)]
<1>3. /\ GoodPull(r, now) /\ r.step = "staged" /\ r.from = pull[p].from
      /\ r.next = pull[p].next /\ r.until = pull[p].until
      /\ r.copy = CopyOf(p, days) /\ r.missed = MissedOf(p, days)
  BY <1>2, StagedIsGood DEF StageChunk
<1>4. pull' = [pull EXCEPT ![p] = r]
  BY <1>1
<1> HIDE DEF r
<1> QED BY <1>2, <1>3, <1>4, StepOfOne

LEMMA SwapOutIsStep ==
    ASSUME LaborShape, NEW p \in Refreshers, SwapChunkOut(p)
    PROVE  /\ pull' = [q \in Refreshers |-> pull'[q]] /\ DOMAIN pull' = Refreshers
           /\ \A q \in Refreshers : GoodPull(pull'[q], now)
           /\ \A q \in Refreshers \ {p} : pull'[q] = pull[q]
           /\ pull'[p].step = "swapping" /\ pull'[p].from = pull[p].from
           /\ pull'[p].next = pull[p].next /\ pull'[p].until = pull[p].until
           /\ pull'[p].copy = pull[p].copy /\ pull'[p].missed = pull[p].missed
<1> DEFINE r == [pull[p] EXCEPT !.step = "swapping"]
<1>1. /\ GoodPull(r, now) /\ r.step = "swapping" /\ r.from = pull[p].from
      /\ r.next = pull[p].next /\ r.until = pull[p].until
      /\ r.copy = pull[p].copy /\ r.missed = pull[p].missed
  BY SwappingIsGood DEF SwapChunkOut
<1>2. pull' = [pull EXCEPT ![p] = r]
  BY DEF SwapChunkOut, LaborShape
<1> HIDE DEF r
<1> QED BY <1>1, <1>2, StepOfOne

LEMMA SwapInIsStep ==
    ASSUME LaborShape, NEW p \in Refreshers, SwapChunkIn(p)
    PROVE  /\ pull' = [q \in Refreshers |-> pull'[q]] /\ DOMAIN pull' = Refreshers
           /\ \A q \in Refreshers : GoodPull(pull'[q], now)
           /\ \A q \in Refreshers \ {p} : pull'[q] = Missing(Chunk(p))[q]
           /\ pull'[p].step = "next" /\ pull'[p].from = pull[p].from
           /\ pull'[p].next = Max(ChunkOf(pull[p])) + 1 /\ pull'[p].until = pull[p].until
           /\ Chunk(p) \in SUBSET LaborDays
<1> DEFINE r == [pull[p] EXCEPT !.step = "next", !.next = Max(Chunk(p)) + 1,
                                !.copy = NoHours, !.stray = {}, !.missed = {}]
<1>1. /\ GoodPull(r, now) /\ r.step = "next" /\ r.from = pull[p].from
      /\ r.next = Max(ChunkOf(pull[p])) + 1 /\ r.until = pull[p].until
  BY SwappedIsGood DEF SwapChunkIn
<1>2. pull' = [Missing(Chunk(p)) EXCEPT ![p] = r]
  BY DEF SwapChunkIn
<1>3. Chunk(p) \in SUBSET LaborDays
  <2>1. GoodPull(pull[p], now) /\ pull[p].next <= pull[p].until /\ now \in LaborDays
    BY DEF LaborShape, GoodPull, Held, Stored, SwapChunkIn
  <2> QED BY <2>1, ChunkOfGood, ChunkOfPull
<1> HIDE DEF r
<1> QED BY <1>1, <1>2, <1>3, StepOfAll

LEMMA FinishIsStep ==
    ASSUME LaborShape, NEW p \in Refreshers, FinishPull(p)
    PROVE  /\ pull' = [q \in Refreshers |-> pull'[q]] /\ DOMAIN pull' = Refreshers
           /\ \A q \in Refreshers : GoodPull(pull'[q], now)
           /\ \A q \in Refreshers \ {p} : pull'[q] = Missing(Outage(p))[q]
           /\ pull'[p] = Rest(p) /\ Outage(p) \in SUBSET LaborDays
<1>1. pull' = [Missing(Outage(p)) EXCEPT ![p] = Rest(p)]
  BY DEF FinishPull
<1>2. GoodPull(Rest(p), now) /\ Outage(p) \in SUBSET LaborDays
  BY RestIsGood DEF Outage, LaborShape
<1> QED BY <1>1, <1>2, StepOfAll

LEMMA StopIsStep ==
    ASSUME LaborShape, NEW p \in Refreshers, StopPull(p)
    PROVE  /\ pull' = [q \in Refreshers |-> pull'[q]] /\ DOMAIN pull' = Refreshers
           /\ \A q \in Refreshers : GoodPull(pull'[q], now)
           /\ \A q \in Refreshers \ {p} : pull'[q] = pull[q]
           /\ pull'[p] = Rest(p)
<1>1. pull' = [pull EXCEPT ![p] = Rest(p)]
  BY DEF StopPull
<1>2. GoodPull(Rest(p), now)
  BY RestIsGood DEF LaborShape
<1> QED BY <1>1, <1>2, StepOfOne

LEMMA LastIsKept == ASSUME NEW a \in Int, NEW b \in Int PROVE Max({a, b}) \in {a, b} /\ Max({a, b}) >= a
BY MaxOfTwo

\* Every step keeps the dates in order.
LEMMA ShapeKept == ASSUME LaborShape, [LaborNext]_laborVars PROVE LaborShape'
<1> USE LaborBounds
<1>a. now \in LaborDays /\ now \in Nat
  BY LaborConstants DEF LaborShape
<1>1. ASSUME NEW d \in LaborDays, Correct(d) PROVE LaborShape'
  <2>1. feed' \in [LaborDays -> {0, 1}] /\ corrections' \in 0..MaxCorrections
    BY <1>1 DEF Correct, LaborShape
  <2> QED BY <1>1, <2>1 DEF Correct, LaborShape, dataset
<1>2. CASE NextLaborDay
  <2>1. now' \in LaborDays /\ now <= now' /\ UNCHANGED <<feed, dataset, watermark, pull, reached, corrections, stops>>
    BY <1>2, <1>a, LaborConstants DEF NextLaborDay
  <2>2. \A q \in Refreshers : GoodPull(pull[q], now')
    BY <1>a, <2>1, LaterIsGood DEF LaborShape
  <2>3. reached <= now'
    BY <1>a, <2>1, LaborConstants DEF LaborShape
  <2> QED BY <2>1, <2>2, <2>3 DEF LaborShape, dataset
<1>3. ASSUME NEW p \in Refreshers, NEW start \in {IncrementalStart, RecentStart, 0}, BeginPull(p, start)
      PROVE  LaborShape'
  <2>1. /\ pull' = [q \in Refreshers |-> pull'[q]] /\ DOMAIN pull' = Refreshers
        /\ \A q \in Refreshers : GoodPull(pull'[q], now)
    BY <1>3, BeginIsStep
  <2> QED BY <1>3, <2>1 DEF BeginPull, LaborShape, dataset
<1>4. ASSUME NEW p \in Refreshers, FetchChunk(p) PROVE LaborShape'
  <2>1. /\ pull' = [q \in Refreshers |-> pull'[q]] /\ DOMAIN pull' = Refreshers
        /\ \A q \in Refreshers : GoodPull(pull'[q], now)
    BY <1>4, FetchIsStep
  <2>2. UNCHANGED <<now, feed, dataset, watermark, reached, corrections, stops>>
    BY <1>4 DEF FetchChunk
  <2> QED BY <2>1, <2>2 DEF LaborShape, dataset
<1>5. ASSUME NEW p \in Refreshers, StageChunk(p) PROVE LaborShape'
  <2>1. /\ pull' = [q \in Refreshers |-> pull'[q]] /\ DOMAIN pull' = Refreshers
        /\ \A q \in Refreshers : GoodPull(pull'[q], now)
    BY <1>5, StageIsStep
  <2>2. UNCHANGED <<now, feed, dataset, watermark, reached, corrections, stops>>
    BY <1>5 DEF StageChunk
  <2> QED BY <2>1, <2>2 DEF LaborShape, dataset
<1>6. ASSUME NEW p \in Refreshers, SwapChunkOut(p) PROVE LaborShape'
  <2>1. /\ pull' = [q \in Refreshers |-> pull'[q]] /\ DOMAIN pull' = Refreshers
        /\ \A q \in Refreshers : GoodPull(pull'[q], now)
    BY <1>6, SwapOutIsStep
  <2>2. /\ UNCHANGED <<now, feed, watermark, reached, corrections, stops>>
        /\ standing' = FALSE /\ hours' = EmptyDataset /\ stray' = {} /\ lost' = LaborDays
    BY <1>6 DEF SwapChunkOut
  <2>3. hours' \in [LaborDays -> {0, 1}]
    BY <2>2 DEF EmptyDataset
  <2> QED BY <2>1, <2>2, <2>3 DEF LaborShape
<1>7. ASSUME NEW p \in Refreshers, SwapChunkIn(p) PROVE LaborShape'
  <2>1. /\ pull' = [q \in Refreshers |-> pull'[q]] /\ DOMAIN pull' = Refreshers
        /\ \A q \in Refreshers : GoodPull(pull'[q], now)
        /\ Chunk(p) \in SUBSET LaborDays
    BY <1>7, SwapInIsStep
  <2>2. UNCHANGED <<now, feed, watermark, reached, corrections, stops>>
    BY <1>7 DEF SwapChunkIn
  <2>3. /\ hours' \in [LaborDays -> {0, 1}] /\ standing' \in BOOLEAN
        /\ stray' \subseteq LaborDays /\ lost' \subseteq LaborDays
    <3>1. GoodPull(pull[p], now) /\ pull[p].copy \in [LaborDays -> {0, 1}]
      BY <1>7 DEF SwapChunkIn, LaborShape, GoodPull, Stored
    <3>2. pull[p].stray \subseteq LaborDays /\ pull[p].missed \subseteq LaborDays
      BY <1>a, <3>1, PullDates
    <3>3. CASE CloneReplaces(p)
      BY <3>1, <3>2, <3>3 DEF CloneReplaces
    <3>4. CASE CloneGoesInside(p)
      BY <2>1, <3>4 DEF CloneGoesInside, LaborShape
    <3> QED BY <1>7, <3>3, <3>4 DEF SwapChunkIn
  <2> QED BY <2>1, <2>2, <2>3 DEF LaborShape
<1>8. ASSUME NEW p \in Refreshers, FinishPull(p) PROVE LaborShape'
  <2>1. /\ pull' = [q \in Refreshers |-> pull'[q]] /\ DOMAIN pull' = Refreshers
        /\ \A q \in Refreshers : GoodPull(pull'[q], now)
        /\ Outage(p) \in SUBSET LaborDays
    BY <1>8, FinishIsStep
  <2>2. /\ UNCHANGED <<now, feed, hours, stray, corrections, stops>>
        /\ standing' = TRUE /\ lost' = lost \cup Outage(p)
        /\ reached' = Max({reached, pull[p].until})
        /\ watermark' = IF LoadedDays = {} THEN NoDate ELSE Max(LoadedDays)
    BY <1>8 DEF FinishPull
  <2>3. reached' \in LaborDays \cup {-1} /\ reached' <= now
    <3>1. pull[p].until \in LaborDays /\ pull[p].until \in Int /\ pull[p].until <= now
      BY <1>a, PullDates, LaborConstants DEF LaborShape, GoodPull
    <3>2. reached \in Int /\ reached \in LaborDays \cup {-1} /\ reached <= now
      BY LaborConstants DEF LaborShape
    <3>3. reached' \in {reached, pull[p].until}
      BY <2>2, <3>1, <3>2, LastIsKept
    <3> QED BY <3>1, <3>2, <3>3
  <2>4. watermark' \in LaborDays \cup {NoDate}
    <3>1. LoadedDays \subseteq 0..LastLaborDay
      BY LaborConstants DEF LoadedDays, LaborShape
    <3> QED BY <2>2, <3>1, LastDayOf, LaborConstants
  <2> QED BY <2>1, <2>2, <2>3, <2>4 DEF LaborShape
<1>9. ASSUME NEW p \in Refreshers, StopPull(p) PROVE LaborShape'
  <2>1. /\ pull' = [q \in Refreshers |-> pull'[q]] /\ DOMAIN pull' = Refreshers
        /\ \A q \in Refreshers : GoodPull(pull'[q], now)
    BY <1>9, StopIsStep
  <2>2. /\ stops' \in 0..MaxStops /\ watermark' \in LaborDays \cup {NoDate}
        /\ UNCHANGED <<now, feed, dataset, reached, corrections>>
    <3>1. pull[p].seen \in LaborDays \cup {NoDate}
      BY DEF LaborShape, GoodPull, Pull
    <3>2. /\ stops \in 0..MaxStops /\ stops < MaxStops /\ stops' = stops + 1
          /\ watermark' \in {watermark, pull[p].seen} /\ watermark \in LaborDays \cup {NoDate}
          /\ UNCHANGED <<now, feed, dataset, reached, corrections>>
      BY <1>9 DEF StopPull, LaborShape
    <3> QED BY <3>1, <3>2
  <2> QED BY <2>1, <2>2 DEF LaborShape, dataset
<1>10. CASE UNCHANGED laborVars
  BY <1>10 DEF laborVars, dataset, LaborShape
<1> QED
  BY <1>1, <1>2, <1>3, <1>4, <1>5, <1>6, <1>7, <1>8, <1>9, <1>10
  DEF LaborNext, ContinuePull, IncrementalRefresh, RecentRepair, LaborBackfill, Refreshers

\* The refresh begins with the dates in order.
LEMMA ShapeStarts == LaborInit => LaborShape
<1> SUFFICES ASSUME LaborInit PROVE LaborShape
  OBVIOUS
<1>1. now \in LaborDays /\ -1 <= now /\ reached = -1
  BY LaborConstants DEF LaborInit
<1>2. GoodPull(NoPull, now)
  BY <1>1, NoPullIsGood
<1>3. hours \in [LaborDays -> {0, 1}]
  BY DEF LaborInit, EmptyDataset
<1>4. /\ DOMAIN pull = Refreshers /\ pull = [q \in Refreshers |-> pull[q]]
      /\ \A q \in Refreshers : GoodPull(pull[q], now)
  BY <1>2 DEF LaborInit
<1>5. corrections \in 0..MaxCorrections /\ stops \in 0..MaxStops
  BY LaborBounds DEF LaborInit
<1> QED BY <1>1, <1>3, <1>4, <1>5 DEF LaborInit, LaborShape

\* The variables of the labor refresh keep their types, however many refreshes run beside
\* one another (labor_etl.py, labor_state.py).
THEOREM LaborTypes == LaborSpec => []LaborTypeOK
BY ShapeStarts, ShapeKept, ShapeGivesTypes, PTL DEF LaborSpec

-----------------------------------------------------------------------------
(* LaborFeed: no day is left out *)

\* The days a refresh has stored that were final when it began, and the days for which the
\* dataset has to answer: those, and the ones that were final for the last success.
Loaded(r) == {d \in LaborDays : r.from <= d /\ d < r.next /\ d <= r.until - CorrectionDays}
Final == {d \in LaborDays : d <= reached - CorrectionDays}
DueDays == Final \cup {d \in LaborDays : \E q \in Refreshers : d \in Loaded(pull[q])}

\* The days of a refresh's chunk that were final when it began.
FinalInChunk(r) == {d \in ChunkOf(r) : d <= r.until - CorrectionDays}

\* The copy that a refresh holds has the feed's records for what it answers for, of due
\* days D and a feed f.
CopyOK(r, D, f) ==
    r.step \in Held =>
        \A d \in DOMAIN r.copy : d \in (D \ r.missed) \cup FinalInChunk(r) => r.copy[d] = f[d]

LaborInv ==
    /\ LaborShape
    /\ \A d \in DueDays \ lost : hours[d] = feed[d]
    /\ \A q \in Refreshers : CopyOK(pull[q], DueDays, feed)

LEMMA InvGivesFinal == LaborInv => FinalDaysAreLoaded
BY DEF LaborInv, FinalDaysAreLoaded, DueDays, Final

\* Due days are no longer corrected.
LEMMA DueIsOld ==
    ASSUME LaborShape
    PROVE  /\ \A d \in DueDays : d \in LaborDays /\ d <= now - CorrectionDays
           /\ \A q \in Refreshers : \A d \in FinalInChunk(pull[q]) : d <= now - CorrectionDays
<1>0. now \in Nat /\ CorrectionDays \in Nat /\ LaborDays \subseteq Nat /\ reached \in Int /\ reached <= now
  BY LaborConstants DEF LaborShape
<1>1. ASSUME NEW q \in Refreshers PROVE pull[q].until \in Nat /\ pull[q].until <= now /\ pull[q].next \in Nat
  <2>1. GoodPull(pull[q], now) /\ now \in LaborDays
    BY DEF LaborShape
  <2> QED BY <2>1, PullDates DEF GoodPull
<1>2. ASSUME NEW d \in Final PROVE d \in LaborDays /\ d <= now - CorrectionDays
  BY <1>0 DEF Final
<1>3. ASSUME NEW q \in Refreshers, NEW d \in Loaded(pull[q]) PROVE d \in LaborDays /\ d <= now - CorrectionDays
  BY <1>0, <1>1 DEF Loaded
<1>4. ASSUME NEW q \in Refreshers, NEW d \in FinalInChunk(pull[q]) PROVE d <= now - CorrectionDays
  <2>1. d \in Int /\ d <= pull[q].until - CorrectionDays
    BY <1>1 DEF FinalInChunk, ChunkOf
  <2> QED BY <1>0, <1>1, <2>1
<1> QED BY <1>2, <1>3, <1>4 DEF DueDays

\* Two refreshes with the same dates answer for the same days.
LEMMA SameDates ==
    ASSUME NEW r, NEW s, r.from = s.from, r.next = s.next, r.until = s.until
    PROVE  Loaded(r) = Loaded(s) /\ ChunkOf(r) = ChunkOf(s) /\ FinalInChunk(r) = FinalInChunk(s)
BY DEF Loaded, ChunkOf, FinalInChunk

\* A copy stays right while it misses the new due days that its chunk does not have.
LEMMA CopyStays ==
    ASSUME NEW r, NEW s, NEW f, NEW D, NEW E, NEW N, NEW M,
           s.step = r.step, s.from = r.from, s.next = r.next, s.until = r.until, s.copy = r.copy,
           s.step \in Held => s.missed = r.missed \cup M,
           E \subseteq D \cup N, N \subseteq M \cup FinalInChunk(r), CopyOK(r, D, f)
    PROVE  CopyOK(s, E, f)
<1>1. FinalInChunk(s) = FinalInChunk(r)
  BY SameDates
<1> QED BY <1>1 DEF CopyOK

\* A refresh at rest, and one that has begun, answers for no day.
LEMMA NothingLoaded ==
    ASSUME NEW r, r.next = r.from, r.from \in Nat PROVE Loaded(r) = {}
BY LaborConstants DEF Loaded

LEMMA RestLoads == ASSUME NEW p PROVE Loaded(Rest(p)) = {} /\ Rest(p).step \notin Held
<1>1. Rest(p).next = 0 /\ Rest(p).from = 0 /\ Rest(p).step \in {"idle", "ended"}
  BY DEF Rest, NoPull
<1> QED BY <1>1, NothingLoaded DEF Held, Stored

\* What a step of one refresh, which leaves the dates of the others, adds to the due days.
LEMMA DueGrows ==
    ASSUME NEW p \in Refreshers, reached' = reached, NEW N,
           \A q \in Refreshers \ {p} : Loaded(pull'[q]) \subseteq Loaded(pull[q]),
           Loaded(pull'[p]) \subseteq Loaded(pull[p]) \cup N
    PROVE  DueDays' \subseteq DueDays \cup N
<1> SUFFICES ASSUME NEW d \in DueDays' PROVE d \in DueDays \cup N
  OBVIOUS
<1>1. CASE d \in Final'
  BY <1>1 DEF DueDays, Final
<1>2. ASSUME NEW q \in Refreshers, d \in Loaded(pull'[q]), d \in LaborDays PROVE d \in DueDays \cup N
  <2>1. d \in Loaded(pull[q]) \cup N
    BY <1>2
  <2> QED BY <1>2, <2>1 DEF DueDays
<1>3. d \in Final' \/ (d \in LaborDays /\ \E q \in Refreshers : d \in Loaded(pull'[q]))
  BY DEF DueDays
<1> QED BY <1>1, <1>2, <1>3

\* The others' copies stay right through a step that adds no due day.
LEMMA OthersStay ==
    ASSUME NEW p \in Refreshers, NEW E, E \subseteq DueDays,
           \A q \in Refreshers \ {p} : pull'[q] = pull[q],
           \A q \in Refreshers : CopyOK(pull[q], DueDays, feed)
    PROVE  \A q \in Refreshers \ {p} : CopyOK(pull'[q], E, feed)
BY DEF CopyOK

\* What the dataset and the refreshes' copies have to answer for, at a step of p.
FinalGoal(p, E, h, L, f) ==
    /\ \A d \in E \ L : h[d] = f[d]
    /\ \A q \in Refreshers \ {p} : CopyOK(pull'[q], E, f)
    /\ CopyOK(pull'[p], E, f)

LEMMA GoalIsInv ==
    ASSUME LaborShape', NEW p \in Refreshers, FinalGoal(p, DueDays', hours', lost', feed')
    PROVE  LaborInv'
BY DEF LaborInv, FinalGoal

LEMMA CorrectKeeps ==
    ASSUME LaborInv, LaborShape', NEW e \in LaborDays, Correct(e) PROVE LaborInv'
<1>1. /\ e > now - CorrectionDays /\ UNCHANGED <<now, dataset, pull, reached>>
      /\ \A d : d # e => feed'[d] = feed[d]
  BY DEF Correct, LaborInv, LaborShape
<1>2. DueDays' = DueDays
  BY <1>1 DEF DueDays, Final
<1>3. LaborShape /\ now \in Int /\ CorrectionDays \in Nat /\ e \in Int
  BY LaborConstants DEF LaborInv, LaborShape
<1>4. \A d \in DueDays : d # e
  BY <1>1, <1>3, DueIsOld, LaborConstants
<1>5. \A q \in Refreshers : \A d \in FinalInChunk(pull[q]) : d # e
  <2>1. ~(e <= now - CorrectionDays)
    BY <1>1, <1>3
  <2> QED BY <1>3, <2>1, DueIsOld
<1>6. \A d \in DueDays' \ lost' : hours'[d] = feed'[d]
  BY <1>1, <1>2, <1>4 DEF LaborInv, dataset
<1>7. ASSUME NEW q \in Refreshers PROVE CopyOK(pull'[q], DueDays', feed')
  <2>1. CopyOK(pull[q], DueDays, feed)
    BY DEF LaborInv
  <2>2. \A d \in (DueDays \ pull[q].missed) \cup FinalInChunk(pull[q]) : feed'[d] = feed[d]
    BY <1>1, <1>4, <1>5
  <2> QED BY <1>1, <1>2, <2>1, <2>2 DEF CopyOK
<1> QED BY <1>6, <1>7 DEF LaborInv

LEMMA LaborDayKeeps == ASSUME LaborInv, LaborShape', NextLaborDay PROVE LaborInv'
<1>1. UNCHANGED <<feed, hours, lost, pull, reached>>
  BY DEF NextLaborDay, dataset
<1>2. DueDays' = DueDays
  BY <1>1 DEF DueDays, Final
<1> QED BY <1>1, <1>2 DEF LaborInv

LEMMA BeginKeeps ==
    ASSUME LaborInv, LaborShape', NEW p \in Refreshers,
           NEW start \in {IncrementalStart, RecentStart, 0}, BeginPull(p, start)
    PROVE  LaborInv'
<1>1. /\ \A q \in Refreshers \ {p} : pull'[q] = pull[q]
      /\ pull'[p].step = "next" /\ pull'[p].next = pull'[p].from /\ GoodPull(pull'[p], now)
  BY BeginIsStep DEF LaborInv
<1>2. UNCHANGED <<now, feed, hours, lost, reached>> /\ now \in LaborDays
  BY DEF BeginPull, dataset, LaborInv, LaborShape
<1>3. Loaded(pull'[p]) = {}
  BY <1>1, <1>2, PullDates, NothingLoaded
<1>4. DueDays' \subseteq DueDays \cup {}
  BY <1>1, <1>2, <1>3, DueGrows
<1>5. CopyOK(pull'[p], DueDays', feed)
  BY <1>1 DEF CopyOK, Held, Stored
<1>6. \A q \in Refreshers \ {p} : CopyOK(pull'[q], DueDays', feed)
  BY <1>1, <1>4, OthersStay DEF LaborInv
<1>7. \A d \in DueDays' \ lost' : hours'[d] = feed'[d]
  BY <1>2, <1>4 DEF LaborInv
<1> QED BY <1>2, <1>5, <1>6, <1>7, GoalIsInv DEF FinalGoal

LEMMA FetchKeeps ==
    ASSUME LaborInv, LaborShape', NEW p \in Refreshers, FetchChunk(p) PROVE LaborInv'
<1>1. /\ \A q \in Refreshers \ {p} : pull'[q] = pull[q]
      /\ pull'[p].from = pull[p].from /\ pull'[p].next = pull[p].next /\ pull'[p].until = pull[p].until
      /\ pull'[p].copy = [d \in ChunkOf(pull[p]) |-> feed[d]]
  BY FetchIsStep DEF LaborInv
<1>2. UNCHANGED <<now, feed, hours, lost, reached>>
  BY DEF FetchChunk, dataset
<1>3. Loaded(pull'[p]) = Loaded(pull[p])
  BY <1>1, SameDates
<1>4. DueDays' \subseteq DueDays \cup {}
  BY <1>1, <1>2, <1>3, DueGrows
<1>5. CopyOK(pull'[p], DueDays', feed)
  BY <1>1 DEF CopyOK
<1>6. \A q \in Refreshers \ {p} : CopyOK(pull'[q], DueDays', feed)
  BY <1>1, <1>4, OthersStay DEF LaborInv
<1>7. \A d \in DueDays' \ lost' : hours'[d] = feed'[d]
  BY <1>2, <1>4 DEF LaborInv
<1> QED BY <1>2, <1>5, <1>6, <1>7, GoalIsInv DEF FinalGoal

LEMMA StageKeeps ==
    ASSUME LaborInv, LaborShape', NEW p \in Refreshers, StageChunk(p) PROVE LaborInv'
<1>1. /\ \A q \in Refreshers \ {p} : pull'[q] = pull[q]
      /\ pull'[p].from = pull[p].from /\ pull'[p].next = pull[p].next /\ pull'[p].until = pull[p].until
      /\ \E days \in SUBSET LaborDays :
           pull'[p].copy = CopyOf(p, days) /\ pull'[p].missed = MissedOf(p, days)
  BY StageIsStep DEF LaborInv
<1>2. UNCHANGED <<now, feed, hours, lost, reached>>
  BY DEF StageChunk, dataset
<1>3. Loaded(pull'[p]) = Loaded(pull[p]) /\ FinalInChunk(pull'[p]) = FinalInChunk(pull[p])
  BY <1>1, SameDates
<1>4. DueDays' \subseteq DueDays \cup {}
  BY <1>1, <1>2, <1>3, DueGrows
<1>5. CopyOK(pull'[p], DueDays', feed)
  <2>1. PICK days \in SUBSET LaborDays :
            pull'[p].copy = CopyOf(p, days) /\ pull'[p].missed = MissedOf(p, days)
    BY <1>1
  <2>2. GoodPull(pull[p], now) /\ pull[p].step = "fetched"
    BY DEF StageChunk, LaborInv, LaborShape
  <2>3. Chunk(p) = ChunkOf(pull[p]) /\ DOMAIN pull[p].copy = ChunkOf(pull[p])
    BY <2>2, ChunkOfPull DEF GoodPull
  <2>4. \A d \in ChunkOf(pull[p]) : d \in (DueDays \ pull[p].missed) \cup FinalInChunk(pull[p]) =>
            pull[p].copy[d] = feed[d]
    BY <2>2, <2>3 DEF LaborInv, CopyOK, Held
  <2> SUFFICES ASSUME NEW d \in LaborDays,
                      d \in (DueDays' \ MissedOf(p, days)) \cup FinalInChunk(pull[p])
               PROVE  CopyOf(p, days)[d] = feed[d]
    BY <1>3, <2>1 DEF CopyOK, CopyOf
  <2>5. CASE d \in ChunkOf(pull[p])
    BY <1>4, <2>3, <2>4, <2>5 DEF CopyOf, MissedOf
  <2>6. CASE d \notin ChunkOf(pull[p])
    <3>1. d \in days /\ d \in DueDays \ lost
      BY <1>4, <2>3, <2>6 DEF MissedOf, FinalInChunk
    <3>2. CopyOf(p, days)[d] = hours[d]
      BY <2>3, <2>6, <3>1 DEF CopyOf
    <3> QED BY <3>1, <3>2 DEF LaborInv
  <2> QED BY <2>5, <2>6
<1>6. \A q \in Refreshers \ {p} : CopyOK(pull'[q], DueDays', feed)
  BY <1>1, <1>4, OthersStay DEF LaborInv
<1>7. \A d \in DueDays' \ lost' : hours'[d] = feed'[d]
  BY <1>2, <1>4 DEF LaborInv
<1> QED BY <1>2, <1>5, <1>6, <1>7, GoalIsInv DEF FinalGoal

LEMMA SwapOutKeeps ==
    ASSUME LaborInv, LaborShape', NEW p \in Refreshers, SwapChunkOut(p) PROVE LaborInv'
<1>1. /\ \A q \in Refreshers \ {p} : pull'[q] = pull[q]
      /\ pull'[p].from = pull[p].from /\ pull'[p].next = pull[p].next /\ pull'[p].until = pull[p].until
      /\ pull'[p].copy = pull[p].copy /\ pull'[p].missed = pull[p].missed
  BY SwapOutIsStep DEF LaborInv
<1>2. UNCHANGED <<now, feed, reached>> /\ lost' = LaborDays /\ pull[p].step \in Held
  BY DEF SwapChunkOut, Held, Stored
<1>3. Loaded(pull'[p]) = Loaded(pull[p]) /\ FinalInChunk(pull'[p]) = FinalInChunk(pull[p])
  BY <1>1, SameDates
<1>4. DueDays' \subseteq DueDays \cup {}
  BY <1>1, <1>2, <1>3, DueGrows
<1>5. CopyOK(pull'[p], DueDays', feed)
  <2>1. CopyOK(pull[p], DueDays, feed)
    BY DEF LaborInv
  <2> QED BY <1>1, <1>2, <1>3, <1>4, <2>1 DEF CopyOK
<1>6. \A q \in Refreshers \ {p} : CopyOK(pull'[q], DueDays', feed)
  BY <1>1, <1>4, OthersStay DEF LaborInv
<1>7. \A d \in DueDays' \ lost' : hours'[d] = feed'[d]
  <2>1. DueDays' \subseteq LaborDays
    BY <1>4 DEF DueDays, Final
  <2> QED BY <1>2, <2>1
<1> QED BY <1>2, <1>5, <1>6, <1>7, GoalIsInv DEF FinalGoal

\* The others miss the days a refresh stores, or have them as final themselves.
LEMMA OthersMissThem ==
    ASSUME LaborInv, NEW p \in Refreshers, NEW S \in SUBSET LaborDays, NEW N \in SUBSET S,
           NEW E, E \subseteq DueDays \cup N,
           \A q \in Refreshers \ {p} : pull'[q] = Missing(S)[q]
    PROVE  \A q \in Refreshers \ {p} : CopyOK(pull'[q], E, feed)
<1> SUFFICES ASSUME NEW q \in Refreshers \ {p} PROVE CopyOK(pull'[q], E, feed)
  OBVIOUS
<1> DEFINE s == pull'[q]
           M == Older(q, S)
<1>1. /\ s.step = pull[q].step /\ s.from = pull[q].from /\ s.next = pull[q].next
      /\ s.until = pull[q].until /\ s.copy = pull[q].copy
      /\ s.step \in Held => s.missed = pull[q].missed \cup M
  <2>1. s = Missing(S)[q]
    OBVIOUS
  <2> HIDE DEF s
  <2> QED BY <2>1, OthersMiss DEF LaborInv
<1>2. N \subseteq M \cup FinalInChunk(pull[q])
  <2> SUFFICES ASSUME NEW d \in N, d \notin M PROVE d \in FinalInChunk(pull[q])
    OBVIOUS
  <2>1. d \in LaborDays /\ d \in Chunk(q) /\ ~(d > pull[q].until - CorrectionDays)
    BY DEF Older
  <2>2. d \in Int /\ pull[q].until - CorrectionDays \in Int
    <3>1. GoodPull(pull[q], now) /\ now \in LaborDays
      BY DEF LaborInv, LaborShape
    <3>2. pull[q].until \in Nat
      BY <3>1, PullDates
    <3> QED BY <2>1, <3>2, LaborConstants
  <2> QED BY <2>1, <2>2, ChunkOfPull DEF FinalInChunk
<1>3. CopyOK(pull[q], DueDays, feed)
  BY DEF LaborInv
<1> HIDE DEF s, M
<1>4. CopyOK(s, E, feed)
  BY <1>1, <1>2, <1>3, CopyStays
<1> QED BY <1>4 DEF s

LEMMA SwapInKeeps ==
    ASSUME LaborInv, LaborShape', NEW p \in Refreshers, SwapChunkIn(p) PROVE LaborInv'
<1> DEFINE r == pull[p]
           N == FinalInChunk(r)
<1>1. /\ \A q \in Refreshers \ {p} : pull'[q] = Missing(Chunk(p))[q]
      /\ pull'[p].step = "next" /\ pull'[p].from = r.from
      /\ pull'[p].next = Max(ChunkOf(r)) + 1 /\ pull'[p].until = r.until
      /\ Chunk(p) \in SUBSET LaborDays
  BY SwapInIsStep DEF LaborInv
<1>2. UNCHANGED <<now, feed, reached>> /\ r.step \in Stored /\ now \in LaborDays
  BY DEF SwapChunkIn, Stored, LaborInv, LaborShape
<1>3. GoodPull(r, now) /\ r.next <= r.until /\ Chunk(p) = ChunkOf(r)
  BY <1>2, ChunkOfPull DEF LaborInv, LaborShape, GoodPull, Held
<1>n. N \in SUBSET Chunk(p)
  BY <1>3 DEF FinalInChunk
<1>4. Loaded(pull'[p]) \subseteq Loaded(r) \cup N
  <2> SUFFICES ASSUME NEW d \in LaborDays, r.from <= d, d < Max(ChunkOf(r)) + 1,
                      d <= r.until - CorrectionDays
               PROVE  d \in Loaded(r) \cup N
    BY <1>1 DEF Loaded
  <2>1. d < r.next \/ d \in ChunkOf(r) \/ d > Max(ChunkOf(r))
    BY <1>2, <1>3, PullDates, ChunkDates
  <2>2. Max(ChunkOf(r)) \in Int /\ d \in Int
    BY <1>2, <1>3, ChunkOfGood, LaborConstants
  <2>3. ~(d > Max(ChunkOf(r)))
    BY <2>2
  <2> QED BY <2>1, <2>3 DEF Loaded, FinalInChunk
<1>5. \A q \in Refreshers \ {p} : Loaded(pull'[q]) \subseteq Loaded(pull[q])
  <2> SUFFICES ASSUME NEW q \in Refreshers \ {p} PROVE Loaded(pull'[q]) = Loaded(pull[q])
    OBVIOUS
  <2>1. LET s == Missing(Chunk(p))[q] IN
            s.from = pull[q].from /\ s.next = pull[q].next /\ s.until = pull[q].until
    BY <1>1, OthersMiss DEF LaborInv
  <2>2. pull'[q] = Missing(Chunk(p))[q]
    BY <1>1
  <2> QED BY <2>1, <2>2 DEF Loaded
<1>6. DueDays' \subseteq DueDays \cup N
  <2> HIDE DEF N
  <2> QED BY <1>2, <1>4, <1>5, DueGrows
<1>7. CopyOK(pull'[p], DueDays', feed)
  BY <1>1 DEF CopyOK, Held, Stored
<1>8. \A q \in Refreshers \ {p} : CopyOK(pull'[q], DueDays', feed)
  <2> HIDE DEF N
  <2> QED BY <1>1, <1>6, <1>n, OthersMissThem
<1>9. \A d \in DueDays' \ lost' : hours'[d] = feed[d]
  <2>1. CASE CloneReplaces(p)
    <3>1. hours' = r.copy /\ lost' = r.missed
      BY <2>1 DEF CloneReplaces
    <3>2. r.copy \in [LaborDays -> {0, 1}] /\ CopyOK(r, DueDays, feed)
      BY <1>2, <1>3 DEF GoodPull, LaborInv
    <3>3. DueDays' \subseteq LaborDays
      BY <1>6, <1>n, <1>1 DEF DueDays, Final
    <3> HIDE DEF r
    <3> QED BY <1>2, <1>6, <3>1, <3>2, <3>3 DEF CopyOK, Held
  <2>2. CASE CloneGoesInside(p)
    BY <1>6, <1>n, <2>2 DEF CloneGoesInside, LaborInv
  <2> QED BY <2>1, <2>2 DEF SwapChunkIn
<1> QED BY <1>2, <1>7, <1>8, <1>9, GoalIsInv DEF FinalGoal

\* The days that the end of a refresh makes due are those it has stored and an outage's.
LEMMA FinishDue ==
    ASSUME LaborShape, NEW p \in Refreshers, FinishPull(p) PROVE Final' \subseteq DueDays \cup Outage(p)
<1> DEFINE r == pull[p]
<1>1. GoodPull(r, now) /\ now \in LaborDays /\ r.next > r.until /\ reached' = Max({reached, r.until})
  BY DEF LaborShape, FinishPull
<1>2. /\ {r.from, r.next, r.until} \subseteq Nat
      /\ r.from = 0 \/ r.from <= r.until - (IncrementalDays - 1)
  BY <1>1, PullDates DEF GoodPull
<1>3. reached \in Int /\ {CorrectionDays, IncrementalDays} \subseteq Nat /\ LaborDays \subseteq Nat
  BY LaborConstants DEF LaborShape
<1>4. reached' = reached \/ reached' = r.until
  BY <1>1, <1>2, <1>3, LastIsKept
<1> SUFFICES ASSUME NEW d \in LaborDays, d <= reached' - CorrectionDays PROVE d \in DueDays \cup Outage(p)
  BY DEF Final
<1>5. CASE d <= reached - CorrectionDays
  BY <1>5 DEF DueDays, Final
<1>6. CASE ~(d <= reached - CorrectionDays) /\ r.from <= d
  <2>1. d <= r.until - CorrectionDays /\ d < r.next
    BY <1>1, <1>2, <1>3, <1>4, <1>6
  <2>2. d \in Loaded(r)
    BY <1>6, <2>1 DEF Loaded
  <2> QED BY <2>2 DEF DueDays
<1>7. CASE ~(d <= reached - CorrectionDays) /\ ~(r.from <= d)
  <2>1. d > reached - CorrectionDays /\ d < r.from /\ d <= r.until - IncrementalDays
    BY <1>2, <1>3, <1>7
  <2> QED BY <2>1 DEF Outage
<1> QED BY <1>5, <1>6, <1>7

LEMMA FinishKeeps ==
    ASSUME LaborInv, LaborShape', NEW p \in Refreshers, FinishPull(p) PROVE LaborInv'
<1>1. /\ \A q \in Refreshers \ {p} : pull'[q] = Missing(Outage(p))[q]
      /\ pull'[p] = Rest(p) /\ Outage(p) \in SUBSET LaborDays
  BY FinishIsStep DEF LaborInv
<1>2. UNCHANGED <<now, feed, hours>> /\ lost' = lost \cup Outage(p)
  BY DEF FinishPull
<1>3. \A q \in Refreshers \ {p} : Loaded(pull'[q]) = Loaded(pull[q])
  <2> SUFFICES ASSUME NEW q \in Refreshers \ {p} PROVE Loaded(pull'[q]) = Loaded(pull[q])
    OBVIOUS
  <2>1. LET s == Missing(Outage(p))[q] IN
            s.from = pull[q].from /\ s.next = pull[q].next /\ s.until = pull[q].until
    BY <1>1, OthersMiss DEF LaborInv
  <2>2. pull'[q] = Missing(Outage(p))[q]
    BY <1>1
  <2> QED BY <2>1, <2>2 DEF Loaded
<1>4. DueDays' \subseteq DueDays \cup Outage(p)
  <2> SUFFICES ASSUME NEW d \in DueDays' PROVE d \in DueDays \cup Outage(p)
    OBVIOUS
  <2>1. CASE d \in Final'
    BY <2>1, FinishDue DEF LaborInv
  <2>2. ASSUME d \in LaborDays, NEW q \in Refreshers, d \in Loaded(pull'[q]) PROVE d \in DueDays
    <3>1. q # p
      BY <1>1, <2>2, RestLoads
    <3>2. d \in Loaded(pull[q])
      BY <1>3, <2>2, <3>1
    <3> QED BY <2>2, <3>2 DEF DueDays
  <2>3. d \in Final' \/ (d \in LaborDays /\ \E q \in Refreshers : d \in Loaded(pull'[q]))
    BY DEF DueDays
  <2> QED BY <2>1, <2>2, <2>3
<1>5. CopyOK(pull'[p], DueDays', feed)
  BY <1>1, RestLoads DEF CopyOK
<1>6. \A q \in Refreshers \ {p} : CopyOK(pull'[q], DueDays', feed)
  <2> HIDE DEF Outage
  <2> QED BY <1>1, <1>4, OthersMissThem
<1>7. \A d \in DueDays' \ lost' : hours'[d] = feed'[d]
  BY <1>2, <1>4 DEF LaborInv
<1> QED BY <1>2, <1>5, <1>6, <1>7, GoalIsInv DEF FinalGoal

LEMMA StopKeeps ==
    ASSUME LaborInv, LaborShape', NEW p \in Refreshers, StopPull(p) PROVE LaborInv'
<1>1. pull'[p] = Rest(p) /\ \A q \in Refreshers \ {p} : pull'[q] = pull[q]
  BY StopIsStep DEF LaborInv
<1>2. UNCHANGED <<now, feed, hours, lost, reached>>
  BY DEF StopPull, dataset
<1>3. DueDays' \subseteq DueDays \cup {}
  <2>1. Loaded(pull'[p]) = {}
    BY <1>1, RestLoads
  <2> QED BY <1>1, <1>2, <2>1, DueGrows
<1>4. CopyOK(pull'[p], DueDays', feed)
  BY <1>1, RestLoads DEF CopyOK
<1>5. \A q \in Refreshers \ {p} : CopyOK(pull'[q], DueDays', feed)
  BY <1>1, <1>3, OthersStay DEF LaborInv
<1>6. \A d \in DueDays' \ lost' : hours'[d] = feed'[d]
  BY <1>2, <1>3 DEF LaborInv
<1> QED BY <1>2, <1>4, <1>5, <1>6, GoalIsInv DEF FinalGoal

\* Every step keeps the final days.
LEMMA FinalKept == ASSUME LaborInv, [LaborNext]_laborVars PROVE LaborInv'
<1>1. LaborShape'
  BY ShapeKept DEF LaborInv
<1>2. ASSUME NEW d \in LaborDays, Correct(d) PROVE LaborInv'
  BY <1>1, <1>2, CorrectKeeps
<1>3. CASE NextLaborDay
  BY <1>1, <1>3, LaborDayKeeps
<1>4. ASSUME NEW p \in Refreshers, NEW start \in {IncrementalStart, RecentStart, 0}, BeginPull(p, start)
      PROVE  LaborInv'
  BY <1>1, <1>4, BeginKeeps
<1>5. ASSUME NEW p \in Refreshers, ContinuePull(p) PROVE LaborInv'
  BY <1>1, <1>5, FetchKeeps, StageKeeps, SwapOutKeeps, SwapInKeeps, FinishKeeps DEF ContinuePull
<1>6. ASSUME NEW p \in Refreshers, StopPull(p) PROVE LaborInv'
  BY <1>1, <1>6, StopKeeps
<1>7. CASE UNCHANGED laborVars
  <2>1. UNCHANGED <<feed, hours, lost, pull, reached>>
    BY <1>7 DEF laborVars, dataset
  <2>2. DueDays' = DueDays
    BY <2>1 DEF DueDays, Final
  <2> QED BY <1>1, <2>1, <2>2 DEF LaborInv
<1> QED
  BY <1>2, <1>3, <1>4, <1>5, <1>6, <1>7
  DEF LaborNext, IncrementalRefresh, RecentRepair, LaborBackfill, Refreshers

\* No day that was final when a refresh that succeeded began is missing or old but those
\* told apart as lost, for any number of refreshes beside one another, any windows, and any
\* failures and outages (_resolve_window, _iter_windows, _swap_dataset_dirs).
THEOREM FinalDaysLoaded == LaborSpec => []FinalDaysAreLoaded
<1>1. LaborInit => LaborInv
  <2> SUFFICES ASSUME LaborInit PROVE LaborInv
    OBVIOUS
  <2>1. \A q \in Refreshers : pull[q] = NoPull
    BY DEF LaborInit
  <2>2. Loaded(NoPull) = {}
    BY NothingLoaded DEF NoPull
  <2>3. Final = {}
    BY LaborConstants DEF LaborInit, Final
  <2>4. DueDays = {}
    BY <2>1, <2>2, <2>3 DEF DueDays
  <2>5. CopyOK(NoPull, DueDays, feed)
    BY DEF CopyOK, NoPull, Held, Stored
  <2> QED BY <2>1, <2>4, <2>5, ShapeStarts DEF LaborInv
<1> QED BY <1>1, InvGivesFinal, FinalKept, PTL DEF LaborSpec
=============================================================================
