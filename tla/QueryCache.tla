------------------------------ MODULE QueryCache ------------------------------
(***************************************************************************)
(* The query cache of app/services/fact_store.py, shared by the threads of *)
(* a web process while refreshes publish new versions of the dataset:      *)
(* _execute_df, reload_if_version_changed and get_dataset_version.         *)
(*                                                                         *)
(* A Future is known by the thread that made it.  A thread that waits on   *)
(* one does so inside `with _duck_lock', so the lock is a variable here.   *)
(* The request's own cache, which no other thread sees, is left out.       *)
(***************************************************************************)
EXTENDS Naturals

CONSTANTS
    Threads, Queries,
    MaxVersion,     \* bound on the versions published
    NoThread, NoVersion

ASSUME NoThreadAssumption == NoThread \notin Threads
ASSUME VersionAssumption == MaxVersion \in Nat /\ NoVersion \notin Nat

Versions == 0..MaxVersion
KeyWithoutVersion(q, v) == <<q, 0>>                                   \* mutant
\* A query is cached under its text, its parameters and the dataset's version.
Key(q, v) == <<q, v>>
Keys == Queries \X Versions
Frame == Versions \cup {NoVersion}      \* the version whose rows a frame holds

VARIABLES
    published,  \* version of the dataset on disk
    noticed,    \* version this process read last from the manifest
    cache,      \* _duck_cache
    inflight,   \* _inflight_queries: who made the Future of each key
    done,       \* the frame a thread's Future was completed with
    lock,       \* who holds _duck_lock while waiting
    pc,
    query, asked,   \* what a thread asks for, and of which version
    conn,       \* the version its connection was registered at
    frame       \* the rows it has

shared == <<cache, inflight, done, lock>>
request == <<query, asked>>
vars == <<published, noticed, shared, pc, request, conn, frame>>

-----------------------------------------------------------------------------
\* A refresh swaps a new version in.
Refresh ==
    /\ published < MaxVersion /\ published' = published + 1
    /\ UNCHANGED <<noticed, shared, pc, request, conn, frame>>

\* get_dataset_version: what was read last, for two seconds, or the manifest.
GetVersion(v) == v \in {noticed, published} /\ noticed' = v

\* TTLCache forgets an entry.
Forget(k) ==
    /\ cache[k] # NoVersion /\ lock = NoThread
    /\ cache' = [cache EXCEPT ![k] = NoVersion]
    /\ UNCHANGED <<published, noticed, inflight, done, lock, pc, request, conn, frame>>

-----------------------------------------------------------------------------
(* _execute_df *)

MyKey(t) == Key(query[t], asked[t])
Go(t, step) == pc' = [pc EXCEPT ![t] = step]

\* The next query of a request, or the first of a new one, with no connection yet.
Ask(t, q) ==
    /\ pc[t] = "idle"
    /\ \E v \in Versions : GetVersion(v) /\ asked' = [asked EXCEPT ![t] = v]
    /\ query' = [query EXCEPT ![t] = q]
    /\ conn' \in {conn, [conn EXCEPT ![t] = NoVersion]}
    /\ frame' = [frame EXCEPT ![t] = NoVersion]
    /\ Go(t, "look")
    /\ UNCHANGED <<published, shared>>

Hit(t) ==
    /\ pc[t] = "look" /\ lock = NoThread
    /\ cache[MyKey(t)] # NoVersion
    /\ frame' = [frame EXCEPT ![t] = cache[MyKey(t)]]
    /\ Go(t, "idle")
    /\ UNCHANGED <<published, noticed, shared, request, conn>>

\* Someone runs the query: wait for the Future, and keep the lock.
Join(t) ==
    /\ pc[t] = "look" /\ lock = NoThread
    /\ cache[MyKey(t)] = NoVersion /\ inflight[MyKey(t)] # NoThread
    /\ lock' = t
    /\ Go(t, "waiting")
    /\ UNCHANGED <<published, noticed, cache, inflight, done, request, conn, frame>>

\* inflight.result() returns.
Receive(t) ==
    /\ pc[t] = "waiting"
    /\ done[inflight[MyKey(t)]] # NoVersion
    /\ frame' = [frame EXCEPT ![t] = done[inflight[MyKey(t)]]]
    /\ lock' = NoThread
    /\ Go(t, "idle")
    /\ UNCHANGED <<published, noticed, cache, inflight, done, request, conn>>

Lead(t) ==
    /\ pc[t] = "look" /\ lock = NoThread
    /\ cache[MyKey(t)] = NoVersion /\ inflight[MyKey(t)] = NoThread
    /\ inflight' = [inflight EXCEPT ![MyKey(t)] = t]
    /\ done' = [done EXCEPT ![t] = NoVersion]
    /\ Go(t, "connect")
    /\ UNCHANGED <<published, noticed, cache, lock, request, conn, frame>>

\* get_duckdb_conn and reload_if_version_changed, up to the lock.
Connect(t) ==
    /\ pc[t] = "connect"
    /\ \E v \in Versions :
        /\ GetVersion(v)
        /\ conn' = [conn EXCEPT ![t] = v]
        /\ Go(t, IF conn[t] \in {NoVersion, v} THEN "run" ELSE "clear")
    /\ UNCHANGED <<published, shared, request, frame>>

\* The version changed under the connection: every entry and Future is forgotten.
Clear(t) ==
    /\ pc[t] = "clear" /\ lock = NoThread
    /\ cache' = [k \in Keys |-> NoVersion]
    /\ inflight' = [k \in Keys |-> NoThread]
    /\ Go(t, "run")
    /\ UNCHANGED <<published, noticed, done, lock, request, conn, frame>>

\* The query reads the parquet files there are, or fails.
Run(t) ==
    /\ pc[t] = "run"
    /\ \/ frame' = [frame EXCEPT ![t] = published] /\ Go(t, "publish")
       \/ UNCHANGED frame /\ Go(t, "cleanup")
    /\ UNCHANGED <<published, noticed, shared, request, conn>>

\* The frame is stored, and the Future now found under the key is completed, which
\* raises InvalidStateError when another thread has completed it.
Publish(t) ==
    /\ pc[t] = "publish" /\ lock = NoThread
    /\ cache' = [cache EXCEPT ![MyKey(t)] = frame[t]]
    /\ LET maker == inflight[MyKey(t)] IN
        IF maker = NoThread THEN UNCHANGED <<done, frame>>
        ELSE IF done[maker] = NoVersion
             THEN done' = [done EXCEPT ![maker] = frame[t]] /\ UNCHANGED frame
             ELSE frame' = [frame EXCEPT ![t] = NoVersion] /\ UNCHANGED done
    /\ Go(t, "cleanup")
    /\ UNCHANGED <<published, noticed, inflight, lock, request, conn>>

\* `finally': a Future of a failed query is dropped without being completed.
Cleanup(t) ==
    /\ pc[t] = "cleanup" /\ lock = NoThread
    /\ inflight' = [inflight EXCEPT ![MyKey(t)] = NoThread]
    /\ Go(t, "idle")
    /\ UNCHANGED <<published, noticed, cache, done, lock, request, conn, frame>>

-----------------------------------------------------------------------------
Init ==
    /\ published = 0 /\ noticed = 0
    /\ cache = [k \in Keys |-> NoVersion]
    /\ inflight = [k \in Keys |-> NoThread]
    /\ done = [t \in Threads |-> NoVersion]
    /\ lock = NoThread
    /\ pc = [t \in Threads |-> "idle"]
    /\ query \in [Threads -> Queries]
    /\ asked = [t \in Threads |-> 0]
    /\ conn = [t \in Threads |-> NoVersion]
    /\ frame = [t \in Threads |-> NoVersion]

Continue(t) ==
    \/ Hit(t) \/ Join(t) \/ Receive(t) \/ Lead(t) \/ Connect(t) \/ Clear(t)
    \/ Run(t) \/ Publish(t) \/ Cleanup(t)

Next ==
    \/ Refresh
    \/ \E k \in Keys : Forget(k)
    \/ \E t \in Threads : (\E q \in Queries : Ask(t, q)) \/ Continue(t)

Spec == Init /\ [][Next]_vars

\* Threads are scheduled and take the lock in turn; DuckDB answers or raises.
FairSpec == Spec /\ \A t \in Threads : SF_vars(Continue(t))

-----------------------------------------------------------------------------
(* Properties *)

TypeOK ==
    /\ published \in Versions
    /\ noticed \in 0..published
    /\ cache \in [Keys -> Frame]
    /\ inflight \in [Keys -> Threads \cup {NoThread}]
    /\ done \in [Threads -> Frame]
    /\ lock \in Threads \cup {NoThread}
    /\ pc \in [Threads -> {"idle", "look", "waiting", "connect", "clear", "run", "publish", "cleanup"}]
    /\ query \in [Threads -> Queries]
    /\ asked \in [Threads -> Versions]
    /\ conn \in [Threads -> Frame]
    /\ frame \in [Threads -> Frame]

\* The rows a query is given, run, cached or awaited, are never older than the version
\* of the dataset it was asked of, across refreshes and reloads (_execute_df).
RowsAreCurrent == \A t \in Threads : frame[t] # NoVersion => frame[t] >= asked[t]

\* Every query returns or raises (_execute_df): no thread waits forever for another.
EveryQueryReturns == \A t \in Threads : pc[t] # "idle" ~> pc[t] = "idle"
=============================================================================
