-------------------------- MODULE SingleFlightCache --------------------------
(***************************************************************************)
(* TTLValueCache of app/core/cache_manager.py: the cache behind the page   *)
(* bundles, the drill-downs, the labour pages and the filter options of    *)
(* one web process, shared by its threads.                                 *)
(*                                                                         *)
(* Every block under the cache's lock is one step.  A Future is known by   *)
(* the thread that made it, and completing it answers those who wait on it.*)
(* clear() is never called by the application and is left out.             *)
(***************************************************************************)
EXTENDS Naturals, FiniteSets, Functions

CONSTANTS
    Threads, Keys,
    Ttl,        \* seconds each key is kept
    MaxSize,    \* entries the cache keeps
    MaxTime,    \* bound on the clock
    NoThread, NoValue

ASSUME TtlAssumption == Ttl \in [Keys -> Nat]
ASSUME SizeAssumption == MaxSize \in Nat \ {0}
ASSUME TimeAssumption == MaxTime \in Nat
ASSUME NoThreadAssumption == NoThread \notin Threads

Value == [key: Keys, at: Nat]       \* what was put for a key, and when
Entry == [value: Value, expiry: Nat]

ASSUME NoValueAssumption == NoValue \notin Value

VARIABLES
    now,
    store,      \* the entries kept, by key
    inflight,   \* who computes each key
    pc,
    key,        \* the key a thread asks for
    began,      \* when it asked
    wait,       \* whose Future it waits on
    answer      \* what it was given last

request == <<key, began>>
vars == <<now, store, inflight, pc, request, wait, answer>>

-----------------------------------------------------------------------------
Tick == /\ now < MaxTime /\ now' = now + 1
        /\ UNCHANGED <<store, inflight, pc, request, wait, answer>>

\* _evict_if_needed: over the limit, one entry that expires first goes.
StalestIn(s) == {k \in DOMAIN s : \A j \in DOMAIN s : s[k].expiry <= s[j].expiry}
Evictions(s) == IF Cardinality(DOMAIN s) <= MaxSize THEN {s}
                ELSE {Restrict(s, DOMAIN s \ {k}) : k \in StalestIn(s)}

With(s, k) ==
    [j \in DOMAIN s \cup {k} |->
        IF j = k THEN [value |-> [key |-> k, at |-> now], expiry |-> now + Ttl[k]] ELSE s[j]]
Dropping(k) == Restrict(store, DOMAIN store \ {k})

NeverStale(k, time) == k \in DOMAIN store                             \* mutant
Fresh(k, time) == k \in DOMAIN store /\ store[k].expiry >= time

-----------------------------------------------------------------------------
(* get and set *)

Fetch(t, k) ==
    /\ pc[t] = "idle"
    /\ key' = [key EXCEPT ![t] = k] /\ began' = [began EXCEPT ![t] = now]
    /\ answer' = [answer EXCEPT ![t] = IF Fresh(k, now) THEN store[k].value ELSE NoValue]
    /\ store' = IF Fresh(k, now) THEN store ELSE Dropping(k)
    /\ UNCHANGED <<now, inflight, pc, wait>>

Put(t, k) ==
    /\ pc[t] = "idle"
    /\ store' \in Evictions(With(store, k))
    /\ UNCHANGED <<now, inflight, pc, request, wait, answer>>

-----------------------------------------------------------------------------
(* get_or_compute *)

\* The clock is read before the lock is taken.
Request(t, k) ==
    /\ pc[t] = "idle"
    /\ pc' = [pc EXCEPT ![t] = "look"]
    /\ key' = [key EXCEPT ![t] = k] /\ began' = [began EXCEPT ![t] = now]
    /\ answer' = [answer EXCEPT ![t] = NoValue]
    /\ UNCHANGED <<now, store, inflight, wait>>

Hit(t) ==
    /\ pc[t] = "look" /\ Fresh(key[t], began[t])
    /\ pc' = [pc EXCEPT ![t] = "idle"]
    /\ answer' = [answer EXCEPT ![t] = store[key[t]].value]
    /\ UNCHANGED <<now, store, inflight, request, wait>>

\* Someone computes the key: wait for its Future, after the lock is let go.
Join(t) ==
    /\ pc[t] = "look" /\ ~Fresh(key[t], began[t])
    /\ inflight[key[t]] # NoThread
    /\ store' = Dropping(key[t])
    /\ wait' = [wait EXCEPT ![t] = inflight[key[t]]]
    /\ pc' = [pc EXCEPT ![t] = "waiting"]
    /\ UNCHANGED <<now, inflight, request, answer>>

LeadAnyway(t) ==                                                      \* mutant
    /\ pc[t] = "look" /\ ~Fresh(key[t], began[t])
    /\ store' = Dropping(key[t])
    /\ inflight' = [inflight EXCEPT ![key[t]] = t]
    /\ pc' = [pc EXCEPT ![t] = "building"]
    /\ UNCHANGED <<now, request, wait, answer>>
Lead(t) ==
    /\ pc[t] = "look" /\ ~Fresh(key[t], began[t])
    /\ inflight[key[t]] = NoThread
    /\ store' = Dropping(key[t])
    /\ inflight' = [inflight EXCEPT ![key[t]] = t]
    /\ pc' = [pc EXCEPT ![t] = "building"]
    /\ UNCHANGED <<now, request, wait, answer>>

\* The Future of t is completed: those who wait on it go on, and t with them.
Served(t) == {t} \cup {u \in Threads : pc[u] = "waiting" /\ wait[u] = t}
Complete(t, value) ==
    /\ pc' = [u \in Threads |-> IF u \in Served(t) THEN "idle" ELSE pc[u]]
    /\ wait' = [u \in Threads |-> IF u \in Served(t) THEN NoThread ELSE wait[u]]
    /\ answer' = [u \in Threads |-> IF u \in Served(t) THEN value ELSE answer[u]]
    /\ inflight' = [inflight EXCEPT ![key[t]] = NoThread]

Publish(t) ==
    /\ pc[t] = "building"
    /\ store' \in Evictions(With(store, key[t]))
    /\ Complete(t, [key |-> key[t], at |-> now])
    /\ UNCHANGED <<now, request>>

FailSilently(t) ==                                                    \* mutant
    /\ pc[t] = "building"
    /\ pc' = [pc EXCEPT ![t] = "idle"]
    /\ inflight' = [inflight EXCEPT ![key[t]] = NoThread]
    /\ UNCHANGED <<now, store, request, wait, answer>>
\* The builder raises: so do those who wait for it.
Fail(t) ==
    /\ pc[t] = "building"
    /\ Complete(t, NoValue)
    /\ UNCHANGED <<now, store, request>>

-----------------------------------------------------------------------------
Init ==
    /\ now = 0
    /\ store = [k \in {} |-> NoValue]
    /\ inflight = [k \in Keys |-> NoThread]
    /\ pc = [t \in Threads |-> "idle"]
    /\ key \in [Threads -> Keys]
    /\ began = [t \in Threads |-> 0]
    /\ wait = [t \in Threads |-> NoThread]
    /\ answer = [t \in Threads |-> NoValue]

Look(t) == Hit(t) \/ Join(t) \/ Lead(t)
Build(t) == Publish(t) \/ Fail(t)

Next ==
    \/ Tick
    \/ \E t \in Threads : \/ \E k \in Keys : Fetch(t, k) \/ Put(t, k) \/ Request(t, k)
                          \/ Look(t) \/ Build(t)

Spec == Init /\ [][Next]_vars

\* Threads are scheduled, and a builder's queries end or raise.
FairSpec == Spec /\ \A t \in Threads : WF_vars(Look(t)) /\ WF_vars(Build(t))

-----------------------------------------------------------------------------
(* Properties *)

TypeOK ==
    /\ now \in Nat
    /\ DOMAIN store \in SUBSET Keys
    /\ \A k \in DOMAIN store : store[k] \in Entry
    /\ inflight \in [Keys -> Threads \cup {NoThread}]
    /\ pc \in [Threads -> {"idle", "look", "waiting", "building"}]
    /\ key \in [Threads -> Keys]
    /\ began \in [Threads -> Nat]
    /\ wait \in [Threads -> Threads \cup {NoThread}]
    /\ answer \in [Threads -> Value \cup {NoValue}]

\* The cache never holds more entries than its limit (_evict_if_needed).
BoundedStore == Cardinality(DOMAIN store) <= MaxSize

\* Single flight: no two threads compute one key at the same time.
OneBuilderPerKey ==
    \A t, u \in Threads :
        pc[t] = "building" /\ pc[u] = "building" /\ key[t] = key[u] => t = u

\* Whoever waits, waits on the Future of a thread that is computing the same key and
\* will be asked to complete it: no Future is forgotten.
WaitersHaveABuilder ==
    \A t \in Threads : pc[t] = "waiting" =>
        /\ wait[t] \in Threads /\ pc[wait[t]] = "building" /\ key[wait[t]] = key[t]

\* An answer is for the key asked for, and was put no longer than its time to live
\* before the asking, whether it was stored, awaited or computed (get, get_or_compute).
AnswersAreFresh ==
    \A t \in Threads : answer[t] # NoValue =>
        answer[t].key = key[t] /\ answer[t].at + Ttl[key[t]] >= began[t]

\* Every thread that asks is answered or raises; none waits forever (get_or_compute).
EveryRequestReturns == \A t \in Threads : pc[t] # "idle" ~> pc[t] = "idle"
=============================================================================
