-------------------------- MODULE SingleFlightProofs --------------------------
(***************************************************************************)
(* For any threads, keys, lifetimes and size of the cache: who waits has a *)
(* builder, one key has one builder, answers are fresh, the store bounded. *)
(***************************************************************************)
EXTENDS SingleFlightCache, FiniteSetTheorems, TLAPS

\* The Futures in flight are those of the threads that compute, and only theirs are
\* waited on.  This is what makes the three handlers of a Future inductive together.
Flights ==
    /\ \A t \in Threads : pc[t] = "building" => inflight[key[t]] = t
    /\ \A k \in Keys : inflight[k] # NoThread =>
            pc[inflight[k]] = "building" /\ key[inflight[k]] = k
    /\ \A t \in Threads : pc[t] = "waiting" =>
            wait[t] # NoThread /\ wait[t] = inflight[key[t]]

\* An entry is of its key and expires its lifetime after it was put; nobody asked later
\* than now.
Stamps ==
    /\ \A k \in DOMAIN store :
            store[k].value.key = k /\ store[k].expiry = store[k].value.at + Ttl[k]
    /\ \A t \in Threads : began[t] <= now

Bounded == IsFiniteSet(DOMAIN store) /\ BoundedStore

StoreOK == DOMAIN store \in SUBSET Keys /\ \A k \in DOMAIN store : store[k] \in Entry

-----------------------------------------------------------------------------
\* What _evict_if_needed leaves after a put: entries that were there or the new one,
\* with their types and stamps, no more of them than the limit.
LEMMA PutKeepsStore ==
    ASSUME TypeOK, Stamps, Bounded, NEW k \in Keys, store' \in Evictions(With(store, k))
    PROVE  /\ StoreOK'
           /\ \A j \in DOMAIN store' :
                  store'[j].value.key = j /\ store'[j].expiry = store'[j].value.at + Ttl[j]
           /\ Bounded'
<1> DEFINE s == With(store, k)
<1>1. /\ DOMAIN s = DOMAIN store \cup {k}
      /\ \A j \in DOMAIN s : s[j] \in Entry
      /\ \A j \in DOMAIN s : s[j].value.key = j /\ s[j].expiry = s[j].value.at + Ttl[j]
  BY TtlAssumption DEF With, TypeOK, Stamps, Entry, Value
<1>2. /\ IsFiniteSet(DOMAIN s) /\ Cardinality(DOMAIN s) \in Nat
      /\ Cardinality(DOMAIN s) <= MaxSize + 1
  <2>1. IsFiniteSet(DOMAIN store) /\ Cardinality(DOMAIN store) <= MaxSize
    BY DEF Bounded, BoundedStore
  <2>2. Cardinality(DOMAIN store) \in Nat
    BY <2>1, FS_CardinalityType
  <2>3. /\ IsFiniteSet(DOMAIN store \cup {k})
        /\ Cardinality(DOMAIN store \cup {k})
             = IF k \in DOMAIN store THEN Cardinality(DOMAIN store) ELSE Cardinality(DOMAIN store) + 1
    BY <2>1, FS_AddElement
  <2>4. Cardinality(DOMAIN store \cup {k}) \in Nat
    BY <2>3, FS_CardinalityType
  <2> QED BY <1>1, <2>1, <2>2, <2>3, <2>4, SizeAssumption
<1>3. k \in Keys /\ DOMAIN s \subseteq Keys
  BY <1>1 DEF TypeOK
<1> HIDE DEF s
<1>4. CASE Cardinality(DOMAIN s) <= MaxSize
  <2>1. store' = s
    BY <1>4 DEF Evictions, s
  <2> QED BY <1>1, <1>2, <1>3, <1>4, <2>1 DEF StoreOK, Bounded, BoundedStore
<1>5. CASE ~(Cardinality(DOMAIN s) <= MaxSize)
  <2>1. PICK j \in StalestIn(s) : store' = Restrict(s, DOMAIN s \ {j})
    BY <1>5 DEF Evictions, s
  <2>2. j \in DOMAIN s
    BY <2>1 DEF StalestIn
  <2>3. DOMAIN store' = DOMAIN s \ {j} /\ \A i \in DOMAIN store' : store'[i] = s[i]
    BY <2>1 DEF Restrict
  <2>4. /\ IsFiniteSet(DOMAIN s \ {j})
        /\ Cardinality(DOMAIN s \ {j}) = Cardinality(DOMAIN s) - 1
    BY <1>2, <2>2, FS_RemoveElement
  <2>5. Cardinality(DOMAIN s \ {j}) <= MaxSize
    BY <1>2, <2>4, SizeAssumption
  <2>6. Bounded'
    BY <2>3, <2>4, <2>5 DEF Bounded, BoundedStore
  <2> QED BY <1>1, <1>3, <2>3, <2>6 DEF StoreOK
<1> QED BY <1>4, <1>5

\* Dropping an entry keeps what is said of the others.
LEMMA DropKeepsStore ==
    ASSUME TypeOK, Stamps, Bounded, NEW k \in Keys, store' = Dropping(k)
    PROVE  /\ StoreOK'
           /\ \A j \in DOMAIN store' :
                  store'[j].value.key = j /\ store'[j].expiry = store'[j].value.at + Ttl[j]
           /\ Bounded'
<1>1. DOMAIN store' = DOMAIN store \ {k} /\ \A j \in DOMAIN store' : store'[j] = store[j]
  BY DEF Dropping, Restrict
<1>2. StoreOK'
  BY <1>1 DEF StoreOK, TypeOK
<1>3. \A j \in DOMAIN store' :
          store'[j].value.key = j /\ store'[j].expiry = store'[j].value.at + Ttl[j]
  BY <1>1 DEF Stamps
<1>4. Bounded'
  <2>1. IsFiniteSet(DOMAIN store) /\ Cardinality(DOMAIN store) <= MaxSize
    BY DEF Bounded, BoundedStore
  <2>2. DOMAIN store' \subseteq DOMAIN store
    BY <1>1
  <2>3. /\ IsFiniteSet(DOMAIN store')
        /\ Cardinality(DOMAIN store') <= Cardinality(DOMAIN store)
    BY <2>1, <2>2, FS_Subset
  <2>4. Cardinality(DOMAIN store') \in Nat /\ Cardinality(DOMAIN store) \in Nat
    BY <2>1, <2>3, FS_CardinalityType
  <2> QED BY <2>1, <2>3, <2>4, SizeAssumption DEF Bounded, BoundedStore
<1> QED BY <1>2, <1>3, <1>4

-----------------------------------------------------------------------------
IInv == TypeOK /\ Flights /\ Stamps /\ Bounded /\ AnswersAreFresh

\* The invariant holds of an empty cache.
LEMMA InitHolds == Init => IInv
<1> SUFFICES ASSUME Init PROVE IInv
  OBVIOUS
<1>1. DOMAIN store = {}
  BY DEF Init
<1>2. TypeOK
  BY <1>1 DEF Init, TypeOK
<1>3. Flights
  BY DEF Init, Flights
<1>4. Stamps
  BY <1>1 DEF Init, Stamps
<1>5. Bounded
  <2>1. IsFiniteSet(DOMAIN store) /\ Cardinality(DOMAIN store) = 0
    BY <1>1, FS_EmptySet
  <2> QED BY <2>1, SizeAssumption DEF Bounded, BoundedStore
<1>6. AnswersAreFresh
  BY DEF Init, AnswersAreFresh
<1> QED BY <1>2, <1>3, <1>4, <1>5, <1>6 DEF IInv

\* A step that leaves store, inflight, wait and answers alone and moves no thread.
LEMMA TickKeeps == IInv /\ Tick => IInv'
<1> SUFFICES ASSUME IInv, Tick PROVE IInv'
  OBVIOUS
<1>1. now \in Nat /\ now' \in Nat /\ now <= now'
  BY DEF IInv, TypeOK, Tick
<1>2. TypeOK' /\ Flights' /\ Bounded' /\ AnswersAreFresh'
  BY <1>1 DEF IInv, TypeOK, Flights, Bounded, BoundedStore, AnswersAreFresh, Tick, request
<1>3. Stamps'
  BY <1>1 DEF IInv, TypeOK, Stamps, Tick, request
<1> QED BY <1>2, <1>3 DEF IInv

\* get and set by a thread that has nothing under way.
LEMMA FetchKeeps == ASSUME IInv, NEW t \in Threads, NEW k \in Keys, Fetch(t, k) PROVE IInv'
<1>1. store' = store \/ store' = Dropping(k)
  BY DEF Fetch
<1>2. /\ StoreOK'
      /\ \A j \in DOMAIN store' :
             store'[j].value.key = j /\ store'[j].expiry = store'[j].value.at + Ttl[j]
      /\ Bounded'
  <2>1. CASE store' = store
    BY <2>1 DEF IInv, TypeOK, StoreOK, Stamps, Bounded, BoundedStore
  <2>2. CASE store' = Dropping(k)
    BY <2>2, DropKeepsStore DEF IInv
  <2> QED BY <1>1, <2>1, <2>2
<1>3. answer' \in [Threads -> Value \cup {NoValue}]
  BY DEF Fetch, IInv, TypeOK, Entry, Fresh
<1>4. TypeOK'
  BY <1>2, <1>3 DEF Fetch, IInv, TypeOK, StoreOK
<1>5. Flights'
  BY DEF Fetch, IInv, TypeOK, Flights
<1>6. Stamps'
  BY <1>2 DEF Fetch, IInv, TypeOK, Stamps
<1>7. AnswersAreFresh'
  <2> SUFFICES ASSUME NEW u \in Threads, answer'[u] # NoValue
               PROVE  answer'[u].key = key'[u] /\ answer'[u].at + Ttl[key'[u]] >= began'[u]
    BY DEF AnswersAreFresh
  <2>1. CASE u = t
    <3>1. Fresh(k, now) /\ answer'[u] = store[k].value /\ key'[u] = k /\ began'[u] = now
      BY <2>1 DEF Fetch, IInv, TypeOK
    <3> QED BY <3>1 DEF IInv, Stamps, Fresh
  <2>2. CASE u # t
    BY <2>2 DEF Fetch, IInv, TypeOK, AnswersAreFresh
  <2> QED BY <2>1, <2>2
<1> QED BY <1>2, <1>4, <1>5, <1>6, <1>7 DEF IInv

\* Storing a value from outside a flight keeps the invariant (set).
LEMMA PutKeeps == ASSUME IInv, NEW t \in Threads, NEW k \in Keys, Put(t, k) PROVE IInv'
<1>1. /\ StoreOK'
      /\ \A j \in DOMAIN store' :
             store'[j].value.key = j /\ store'[j].expiry = store'[j].value.at + Ttl[j]
      /\ Bounded'
  BY PutKeepsStore DEF IInv, Put
<1>2. TypeOK'
  BY <1>1 DEF Put, IInv, TypeOK, StoreOK, request
<1>3. Flights' /\ AnswersAreFresh'
  BY DEF Put, IInv, Flights, AnswersAreFresh, request
<1>4. Stamps'
  BY <1>1 DEF Put, IInv, Stamps, request
<1> QED BY <1>1, <1>2, <1>3, <1>4 DEF IInv

\* A thread that begins to ask, hits, joins or leads.
LEMMA RequestKeeps == ASSUME IInv, NEW t \in Threads, NEW k \in Keys, Request(t, k) PROVE IInv'
<1>1. TypeOK'
  BY DEF Request, IInv, TypeOK
<1>2. Flights'
  BY NoThreadAssumption DEF Request, IInv, TypeOK, Flights
<1>3. Stamps' /\ Bounded'
  BY DEF Request, IInv, TypeOK, Stamps, Bounded, BoundedStore
<1>4. AnswersAreFresh'
  BY DEF Request, IInv, TypeOK, AnswersAreFresh
<1> QED BY <1>1, <1>2, <1>3, <1>4 DEF IInv

\* Serving a fresh entry keeps the invariant (get_or_compute).
LEMMA HitKeeps == ASSUME IInv, NEW t \in Threads, Hit(t) PROVE IInv'
<1>1. key[t] \in Keys /\ key[t] \in DOMAIN store /\ store[key[t]] \in Entry
  BY DEF Hit, Fresh, IInv, TypeOK
<1>2. TypeOK'
  BY <1>1 DEF Hit, IInv, TypeOK, Entry, request
<1>3. Flights'
  BY NoThreadAssumption DEF Hit, IInv, TypeOK, Flights, request
<1>4. Stamps' /\ Bounded'
  BY DEF Hit, IInv, TypeOK, Stamps, Bounded, BoundedStore, request
<1>5. AnswersAreFresh'
  BY <1>1 DEF Hit, Fresh, IInv, TypeOK, Stamps, AnswersAreFresh, request
<1> QED BY <1>2, <1>3, <1>4, <1>5 DEF IInv

\* Joining a flight keeps the invariant (get_or_compute).
LEMMA JoinKeeps == ASSUME IInv, NEW t \in Threads, Join(t) PROVE IInv'
<1>1. /\ StoreOK'
      /\ \A j \in DOMAIN store' :
             store'[j].value.key = j /\ store'[j].expiry = store'[j].value.at + Ttl[j]
      /\ Bounded'
  <2>1. key[t] \in Keys /\ store' = Dropping(key[t])
    BY DEF Join, IInv, TypeOK
  <2> QED BY <2>1, DropKeepsStore DEF IInv
<1>2. TypeOK'
  BY <1>1 DEF Join, IInv, TypeOK, StoreOK, request
<1>3. Flights'
  BY NoThreadAssumption DEF Join, IInv, TypeOK, Flights, request
<1>4. Stamps'
  BY <1>1 DEF Join, IInv, Stamps, request
<1>5. AnswersAreFresh'
  BY DEF Join, IInv, AnswersAreFresh, request
<1> QED BY <1>1, <1>2, <1>3, <1>4, <1>5 DEF IInv

\* Starting a flight keeps the invariant (get_or_compute).
LEMMA LeadKeeps == ASSUME IInv, NEW t \in Threads, Lead(t) PROVE IInv'
<1>1. /\ StoreOK'
      /\ \A j \in DOMAIN store' :
             store'[j].value.key = j /\ store'[j].expiry = store'[j].value.at + Ttl[j]
      /\ Bounded'
  <2>1. key[t] \in Keys /\ store' = Dropping(key[t])
    BY DEF Lead, IInv, TypeOK
  <2> QED BY <2>1, DropKeepsStore DEF IInv
<1>2. TypeOK'
  BY <1>1 DEF Lead, IInv, TypeOK, StoreOK, request
<1>3. Flights'
  BY NoThreadAssumption DEF Lead, IInv, TypeOK, Flights, request
<1>4. Stamps'
  BY <1>1 DEF Lead, IInv, Stamps, request
<1>5. AnswersAreFresh'
  BY DEF Lead, IInv, AnswersAreFresh, request
<1> QED BY <1>1, <1>2, <1>3, <1>4, <1>5 DEF IInv

\* Completing a Future: those served asked for the builder's key, and before now.
LEMMA CompleteKeeps ==
    ASSUME IInv, NEW t \in Threads, pc[t] = "building",
           NEW v \in Value \cup {NoValue}, v # NoValue => v.key = key[t] /\ v.at = now,
           Complete(t, v), UNCHANGED <<now, request>>
    PROVE  /\ Flights' /\ AnswersAreFresh'
           /\ inflight' \in [Keys -> Threads \cup {NoThread}]
           /\ pc' \in [Threads -> {"idle", "look", "waiting", "building"}]
           /\ wait' \in [Threads -> Threads \cup {NoThread}]
           /\ answer' \in [Threads -> Value \cup {NoValue}]
<1>1. \A u \in Served(t) : u \in Threads /\ key[u] = key[t]
  BY DEF Served, IInv, TypeOK, Flights
<1>2. /\ inflight' \in [Keys -> Threads \cup {NoThread}]
      /\ pc' \in [Threads -> {"idle", "look", "waiting", "building"}]
      /\ wait' \in [Threads -> Threads \cup {NoThread}]
      /\ answer' \in [Threads -> Value \cup {NoValue}]
  BY DEF Complete, IInv, TypeOK
<1>3. Flights'
  <2>1. key[t] \in Keys /\ inflight[key[t]] = t /\ key' = key
    BY DEF IInv, TypeOK, Flights, request
  <2>2. \A k \in Keys : inflight'[k] = IF k = key[t] THEN NoThread ELSE inflight[k]
    BY <2>1 DEF Complete, IInv, TypeOK
  <2>3. \A u \in Threads : /\ u \in Served(t) => pc'[u] = "idle"
                           /\ u \notin Served(t) => pc'[u] = pc[u] /\ wait'[u] = wait[u]
    BY DEF Complete
  <2>4. ASSUME NEW u \in Threads, pc'[u] = "building"
        PROVE  inflight'[key'[u]] = u
    <3>1. u # t /\ pc[u] = "building" /\ key[u] \in Keys
      BY <2>3, <2>4 DEF Served, IInv, TypeOK
    <3> QED BY <2>1, <2>2, <3>1 DEF IInv, Flights
  <2>5. ASSUME NEW k \in Keys, inflight'[k] # NoThread
        PROVE  pc'[inflight'[k]] = "building" /\ key'[inflight'[k]] = k
    <3>1. k # key[t] /\ inflight'[k] = inflight[k] /\ inflight[k] \in Threads
      BY <2>2, <2>5 DEF IInv, TypeOK
    <3>2. pc[inflight[k]] = "building" /\ key[inflight[k]] = k
      BY <3>1, <2>5 DEF IInv, Flights
    <3>3. inflight[k] \notin Served(t)
      BY <3>1, <3>2 DEF Served
    <3> QED BY <2>1, <2>3, <3>1, <3>2, <3>3
  <2>6. ASSUME NEW u \in Threads, pc'[u] = "waiting"
        PROVE  wait'[u] # NoThread /\ wait'[u] = inflight'[key'[u]]
    <3>1. u \notin Served(t) /\ pc[u] = "waiting" /\ wait'[u] = wait[u] /\ key[u] \in Keys
      BY <2>3, <2>6 DEF IInv, TypeOK
    <3>2. wait[u] # t
      BY <3>1 DEF Served
    <3>3. wait[u] # NoThread /\ wait[u] = inflight[key[u]]
      BY <3>1 DEF IInv, Flights
    <3> QED BY <2>1, <2>2, <3>1, <3>2, <3>3
  <2> QED BY <2>4, <2>5, <2>6 DEF Flights
<1>4. AnswersAreFresh'
  <2> SUFFICES ASSUME NEW u \in Threads, answer'[u] # NoValue
               PROVE  answer'[u].key = key'[u] /\ answer'[u].at + Ttl[key'[u]] >= began'[u]
    BY DEF AnswersAreFresh
  <2>1. CASE u \in Served(t)
    <3>1. answer'[u] = v /\ key'[u] = key[t] /\ began'[u] = began[u]
      BY <1>1, <2>1 DEF Complete, request
    <3>2. began[u] <= now /\ began[u] \in Nat /\ now \in Nat /\ Ttl[key[t]] \in Nat
      BY TtlAssumption DEF IInv, TypeOK, Stamps
    <3>3. v.key = key[t] /\ v.at = now
      BY <3>1
    <3> QED BY <3>1, <3>2, <3>3
  <2>2. CASE u \notin Served(t)
    BY <2>2 DEF Complete, IInv, AnswersAreFresh, request
  <2> QED BY <2>1, <2>2
<1> QED BY <1>2, <1>3, <1>4

\* Publishing what was built keeps the invariant (get_or_compute).
LEMMA PublishKeeps == ASSUME IInv, NEW t \in Threads, Publish(t) PROVE IInv'
<1> DEFINE v == [key |-> key[t], at |-> now]
<1>1. v \in Value /\ v.key = key[t] /\ v.at = now /\ key[t] \in Keys
  BY DEF IInv, TypeOK, Value
<1>2. pc[t] = "building" /\ Complete(t, v) /\ UNCHANGED <<now, request>>
      /\ store' \in Evictions(With(store, key[t]))
  BY DEF Publish
<1> HIDE DEF v
<1>3. /\ Flights' /\ AnswersAreFresh'
      /\ inflight' \in [Keys -> Threads \cup {NoThread}]
      /\ pc' \in [Threads -> {"idle", "look", "waiting", "building"}]
      /\ wait' \in [Threads -> Threads \cup {NoThread}]
      /\ answer' \in [Threads -> Value \cup {NoValue}]
  BY <1>1, <1>2, CompleteKeeps
<1>4. /\ StoreOK'
      /\ \A j \in DOMAIN store' :
             store'[j].value.key = j /\ store'[j].expiry = store'[j].value.at + Ttl[j]
      /\ Bounded'
  BY <1>1, <1>2, PutKeepsStore DEF IInv
<1>5. TypeOK'
  BY <1>2, <1>3, <1>4 DEF IInv, TypeOK, StoreOK, request
<1>6. Stamps'
  BY <1>2, <1>4 DEF IInv, Stamps, request
<1> QED BY <1>3, <1>4, <1>5, <1>6 DEF IInv

\* A build that raises keeps the invariant (get_or_compute).
LEMMA FailKeeps == ASSUME IInv, NEW t \in Threads, Fail(t) PROVE IInv'
<1>1. pc[t] = "building" /\ Complete(t, NoValue) /\ UNCHANGED <<now, store, request>>
  BY DEF Fail
<1>2. /\ Flights' /\ AnswersAreFresh'
      /\ inflight' \in [Keys -> Threads \cup {NoThread}]
      /\ pc' \in [Threads -> {"idle", "look", "waiting", "building"}]
      /\ wait' \in [Threads -> Threads \cup {NoThread}]
      /\ answer' \in [Threads -> Value \cup {NoValue}]
  BY <1>1, CompleteKeeps
<1>3. TypeOK'
  BY <1>1, <1>2 DEF IInv, TypeOK, request
<1>4. Stamps' /\ Bounded'
  BY <1>1 DEF IInv, Stamps, Bounded, BoundedStore, request
<1> QED BY <1>2, <1>3, <1>4 DEF IInv

-----------------------------------------------------------------------------
\* The invariant is inductive.
THEOREM CacheInvariant == Spec => []IInv
<1>1. Init => IInv
  BY InitHolds
<1>2. IInv /\ [Next]_vars => IInv'
  <2> SUFFICES ASSUME IInv, [Next]_vars PROVE IInv'
    OBVIOUS
  <2>1. CASE Tick
    BY <2>1, TickKeeps
  <2>2. ASSUME NEW t \in Threads, NEW k \in Keys, Fetch(t, k) \/ Put(t, k) \/ Request(t, k)
        PROVE  IInv'
    BY <2>2, FetchKeeps, PutKeeps, RequestKeeps
  <2>3. ASSUME NEW t \in Threads, Look(t) \/ Build(t)
        PROVE  IInv'
    BY <2>3, HitKeeps, JoinKeeps, LeadKeeps, PublishKeeps, FailKeeps DEF Look, Build
  <2>4. CASE UNCHANGED vars
    BY <2>4 DEF IInv, TypeOK, Flights, Stamps, Bounded, BoundedStore, AnswersAreFresh, vars, request
  <2> QED BY <2>1, <2>2, <2>3, <2>4 DEF Next
<1> QED BY <1>1, <1>2, PTL DEF Spec

\* The types of the cache's state (TTLValueCache), for any threads and keys.
THEOREM CacheTypes == Spec => []TypeOK
BY CacheInvariant, PTL DEF IInv

\* _evict_if_needed keeps the store within its limit, whatever is put, and when.
THEOREM StoreIsBounded == Spec => []BoundedStore
<1>1. IInv => BoundedStore
  BY DEF IInv, Bounded
<1> QED BY <1>1, CacheInvariant, PTL

\* get_or_compute never computes one key in two threads at once.
THEOREM SingleFlight == Spec => []OneBuilderPerKey
<1>1. IInv => OneBuilderPerKey
  BY DEF IInv, TypeOK, Flights, OneBuilderPerKey
<1> QED BY <1>1, CacheInvariant, PTL

\* No thread waits on a Future nobody will complete (get_or_compute).
THEOREM NoForgottenFuture == Spec => []WaitersHaveABuilder
<1>1. IInv => WaitersHaveABuilder
  BY DEF IInv, TypeOK, Flights, WaitersHaveABuilder
<1> QED BY <1>1, CacheInvariant, PTL

\* Every answer is for its key and within its time to live (get, get_or_compute).
THEOREM FreshAnswers == Spec => []AnswersAreFresh
<1>1. IInv => AnswersAreFresh
  BY DEF IInv
<1> QED BY <1>1, CacheInvariant, PTL
=============================================================================
