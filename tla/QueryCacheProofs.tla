-------------------------- MODULE QueryCacheProofs --------------------------
(***************************************************************************)
(* QueryCache never answers with rows older than what was asked for, for   *)
(* any threads, queries and versions.  A query that waits for another      *)
(* waits for ever; that one runs twice takes a reload.                     *)
(***************************************************************************)
EXTENDS QueryCache, TLAPS

\* Where a thread is between making a Future and dropping it.
Leading == {"connect", "clear", "run", "publish", "cleanup"}

\* No request asks for a version that is not published yet.
AskedIsPublished == \A t \in Threads : asked[t] <= published

\* What is cached under a version is at least that new.
CacheIsCurrent == \A k \in Keys : cache[k] # NoVersion => cache[k] >= k[2]

\* The Future found under a key was made by a thread that still works on that key, and
\* what completed it is at least as new as the key.
FuturesAreCurrent == \A k \in Keys : \A m \in Threads : inflight[k] = m =>
    pc[m] \in Leading /\ MyKey(m) = k /\ (done[m] # NoVersion => done[m] >= k[2])

\* Who waits holds the lock, so that the Future it waits for stays where it is.
WaitersHold == \A t \in Threads : pc[t] = "waiting" => lock = t /\ inflight[MyKey(t)] \in Threads

CacheInv == TypeOK /\ AskedIsPublished /\ CacheIsCurrent /\ FuturesAreCurrent /\ WaitersHold /\ RowsAreCurrent

\* A thread's key is a key, and its version the one asked of.
LEMMA KeyFacts ==
    ASSUME TypeOK, NEW t \in Threads
    PROVE  MyKey(t) \in Keys /\ MyKey(t)[2] = asked[t] /\ asked[t] \in Nat
BY VersionAssumption DEF TypeOK, MyKey, Key, Keys, Versions

\* A version read from memory or from the manifest is a published one.
LEMMA VersionFacts ==
    ASSUME TypeOK, NEW v, GetVersion(v)
    PROVE  v \in Versions /\ v <= published /\ noticed' \in 0..published
BY VersionAssumption DEF TypeOK, GetVersion, Versions

\* A refresh only makes what is published newer.
LEMMA RefreshKeeps == ASSUME CacheInv, Refresh PROVE CacheInv'
<1>1. /\ published' = published + 1 /\ published' \in Versions /\ noticed \in 0..published' /\ published \in Nat
      /\ UNCHANGED <<noticed, cache, inflight, done, lock, pc, query, asked, conn, frame>>
  BY VersionAssumption DEF Refresh, CacheInv, TypeOK, Versions, shared, request
<1>2. TypeOK'
  BY <1>1 DEF CacheInv, TypeOK
<1>3. AskedIsPublished'
  BY <1>1, KeyFacts DEF CacheInv, AskedIsPublished
<1>4. CacheIsCurrent' /\ FuturesAreCurrent' /\ WaitersHold' /\ RowsAreCurrent'
  BY <1>1 DEF CacheInv, CacheIsCurrent, FuturesAreCurrent, WaitersHold, RowsAreCurrent, MyKey
<1> QED
  BY <1>2, <1>3, <1>4 DEF CacheInv

\* The TTLCache forgets an entry.
LEMMA ForgetKeeps == ASSUME CacheInv, NEW k \in Keys, Forget(k) PROVE CacheInv'
<1>1. /\ cache' = [cache EXCEPT ![k] = NoVersion]
      /\ UNCHANGED <<published, noticed, inflight, done, lock, pc, query, asked, conn, frame>>
  BY DEF Forget, request
<1>2. TypeOK'
  BY <1>1 DEF CacheInv, TypeOK, Frame
<1>3. CacheIsCurrent'
  BY <1>1 DEF CacheInv, CacheIsCurrent, TypeOK
<1>4. AskedIsPublished' /\ FuturesAreCurrent' /\ WaitersHold' /\ RowsAreCurrent'
  BY <1>1 DEF CacheInv, AskedIsPublished, FuturesAreCurrent, WaitersHold, RowsAreCurrent, MyKey
<1> QED
  BY <1>2, <1>3, <1>4 DEF CacheInv

\* A new request asks of a version that is published, with no rows yet.
LEMMA AskKeeps == ASSUME CacheInv, NEW t \in Threads, NEW q \in Queries, Ask(t, q) PROVE CacheInv'
<1>1. PICK v \in Versions : GetVersion(v) /\ asked' = [asked EXCEPT ![t] = v]
  BY DEF Ask
<1>2. /\ pc[t] = "idle" /\ query' = [query EXCEPT ![t] = q] /\ frame' = [frame EXCEPT ![t] = NoVersion]
      /\ pc' = [pc EXCEPT ![t] = "look"] /\ UNCHANGED <<published, cache, inflight, done, lock>>
      /\ conn' \in {conn, [conn EXCEPT ![t] = NoVersion]}
  BY DEF Ask, Go, shared
<1>3. v <= published /\ noticed' \in 0..published
  BY <1>1, VersionFacts DEF CacheInv
<1>4. TypeOK'
  <2>1. conn' \in [Threads -> Frame] /\ frame' \in [Threads -> Frame]
    BY <1>2 DEF CacheInv, TypeOK, Frame
  <2> QED
    BY <1>1, <1>2, <1>3, <2>1 DEF CacheInv, TypeOK
<1>5. AskedIsPublished' /\ RowsAreCurrent' /\ CacheIsCurrent'
  BY <1>1, <1>2, <1>3 DEF CacheInv, TypeOK, AskedIsPublished, RowsAreCurrent, CacheIsCurrent
<1>6. FuturesAreCurrent'
  <2> SUFFICES ASSUME NEW k \in Keys, NEW m \in Threads, inflight[k] = m
               PROVE  pc'[m] \in Leading /\ MyKey(m)' = k /\ (done[m] # NoVersion => done[m] >= k[2])
    BY <1>2 DEF FuturesAreCurrent
  <2>1. pc[m] \in Leading /\ MyKey(m) = k /\ (done[m] # NoVersion => done[m] >= k[2])
    BY DEF CacheInv, FuturesAreCurrent
  <2>2. m # t
    BY <1>2, <2>1 DEF Leading
  <2> QED
    BY <1>1, <1>2, <2>1, <2>2 DEF CacheInv, TypeOK, MyKey
<1>7. WaitersHold'
  <2> SUFFICES ASSUME NEW u \in Threads, pc'[u] = "waiting" PROVE lock' = u /\ inflight'[MyKey(u)'] \in Threads
    BY DEF WaitersHold
  <2>1. u # t /\ pc[u] = "waiting"
    BY <1>2 DEF CacheInv, TypeOK
  <2>2. MyKey(u)' = MyKey(u)
    BY <1>1, <1>2, <2>1 DEF CacheInv, TypeOK, MyKey
  <2> QED
    BY <1>2, <2>1, <2>2 DEF CacheInv, WaitersHold
<1> QED
  BY <1>4, <1>5, <1>6, <1>7 DEF CacheInv

\* A thread moves on, its request and every Future's key unchanged.
LEMMA StepKeeps ==
    ASSUME CacheInv, NEW t \in Threads, UNCHANGED <<published, query, asked>>, TypeOK', CacheIsCurrent',
           \A u \in Threads : u # t => pc'[u] = pc[u] /\ frame'[u] = frame[u],
           frame'[t] # NoVersion => frame'[t] >= asked[t],
           \A k \in Keys, m \in Threads : inflight'[k] = m =>
              /\ pc'[m] \in Leading /\ MyKey(m) = k
              /\ done'[m] # NoVersion => done'[m] >= k[2],
           \A u \in Threads : pc'[u] = "waiting" => lock' = u /\ inflight'[MyKey(u)] \in Threads
    PROVE  CacheInv'
<1>1. AskedIsPublished' /\ RowsAreCurrent'
  BY DEF CacheInv, AskedIsPublished, RowsAreCurrent
<1>2. FuturesAreCurrent'
  BY DEF FuturesAreCurrent, MyKey
<1>3. WaitersHold'
  <2>1. \A u \in Threads : MyKey(u)' = MyKey(u)
    BY DEF MyKey
  <2> QED
    BY <2>1 DEF WaitersHold
<1> QED
  BY <1>1, <1>2, <1>3 DEF CacheInv

\* Every step of a query keeps the invariant.
LEMMA ContinueKeeps == ASSUME CacheInv, NEW t \in Threads, Continue(t) PROVE CacheInv'
<1> USE DEF Go, shared, request
<1>1. MyKey(t) \in Keys /\ MyKey(t)[2] = asked[t] /\ asked[t] \in Nat /\ TypeOK
  BY KeyFacts DEF CacheInv
<1>2. /\ \A k \in Keys, m \in Threads : inflight[k] = m =>
            pc[m] \in Leading /\ MyKey(m) = k /\ (done[m] # NoVersion => done[m] >= k[2])
      /\ \A k \in Keys : cache[k] # NoVersion => cache[k] >= k[2]
      /\ \A u \in Threads : frame[u] # NoVersion => frame[u] >= asked[u]
      /\ \A u \in Threads : pc[u] = "waiting" => lock = u /\ inflight[MyKey(u)] \in Threads
      /\ asked[t] <= published /\ published \in Nat /\ NoThread \notin Threads
  BY <1>1, VersionAssumption, NoThreadAssumption
     DEF CacheInv, FuturesAreCurrent, CacheIsCurrent, RowsAreCurrent, AskedIsPublished, WaitersHold, TypeOK, Versions
<1>3. CASE Hit(t)
  <2>1. /\ frame' = [frame EXCEPT ![t] = cache[MyKey(t)]] /\ pc' = [pc EXCEPT ![t] = "idle"] /\ pc[t] = "look"
        /\ UNCHANGED <<published, noticed, cache, inflight, done, lock, query, asked, conn>>
    BY <1>3 DEF Hit
  <2>2. TypeOK'
    BY <1>1, <2>1 DEF TypeOK
  <2>3. CacheIsCurrent'
    BY <1>2, <2>1 DEF CacheIsCurrent
  <2>4. \A k \in Keys, m \in Threads : inflight[k] = m => m # t
    BY <1>2, <2>1 DEF Leading
  <2> QED
    BY <1>1, <1>2, <2>1, <2>2, <2>3, <2>4, StepKeeps DEF TypeOK
<1>4. CASE Join(t)
  <2>1. /\ lock' = t /\ lock = NoThread /\ inflight[MyKey(t)] # NoThread /\ pc' = [pc EXCEPT ![t] = "waiting"] /\ pc[t] = "look"
        /\ UNCHANGED <<published, noticed, cache, inflight, done, query, asked, conn, frame>>
    BY <1>4 DEF Join
  <2>2. TypeOK'
    BY <1>1, <2>1 DEF TypeOK
  <2>3. CacheIsCurrent'
    BY <1>2, <2>1 DEF CacheIsCurrent
  <2>4. \A k \in Keys, m \in Threads : inflight[k] = m => m # t
    BY <1>2, <2>1 DEF Leading
  <2>5. inflight[MyKey(t)] \in Threads
    BY <1>1, <2>1 DEF TypeOK
  <2> QED
    BY <1>1, <1>2, <2>1, <2>2, <2>3, <2>4, <2>5, StepKeeps DEF TypeOK
<1>5. CASE Receive(t)
  <2>1. /\ frame' = [frame EXCEPT ![t] = done[inflight[MyKey(t)]]] /\ pc' = [pc EXCEPT ![t] = "idle"] /\ pc[t] = "waiting"
        /\ lock' = NoThread /\ UNCHANGED <<published, noticed, cache, inflight, done, query, asked, conn>>
    BY <1>5 DEF Receive
  <2>2. PICK n \in Threads : n = inflight[MyKey(t)]
    BY <1>2, <2>1
  <2>3. done[n] \in Frame /\ (done[n] # NoVersion => done[n] >= asked[t]) /\ frame' = [frame EXCEPT ![t] = done[n]]
    BY <1>1, <1>2, <2>1, <2>2 DEF TypeOK
  <2>4. TypeOK'
    BY <1>1, <2>1, <2>3 DEF TypeOK
  <2>5. CacheIsCurrent'
    BY <1>2, <2>1 DEF CacheIsCurrent
  <2>6. \A k \in Keys, m \in Threads : inflight[k] = m => m # t
    BY <1>2, <2>1 DEF Leading
  <2>7. \A u \in Threads : u # t => pc[u] # "waiting"
    BY <1>2, <2>1
  <2> QED
    BY <1>1, <1>2, <2>1, <2>3, <2>4, <2>5, <2>6, <2>7, StepKeeps DEF TypeOK
<1>6. CASE Lead(t)
  <2>1. /\ inflight' = [inflight EXCEPT ![MyKey(t)] = t] /\ done' = [done EXCEPT ![t] = NoVersion]
        /\ pc' = [pc EXCEPT ![t] = "connect"] /\ pc[t] = "look" /\ lock = NoThread
        /\ UNCHANGED <<published, noticed, cache, lock, query, asked, conn, frame>>
    BY <1>6 DEF Lead
  <2>2. TypeOK'
    BY <1>1, <2>1 DEF TypeOK, Frame
  <2>3. CacheIsCurrent'
    BY <1>2, <2>1 DEF CacheIsCurrent
  <2>4. \A k \in Keys, m \in Threads : inflight'[k] = m =>
            pc'[m] \in Leading /\ MyKey(m) = k /\ (done'[m] # NoVersion => done'[m] >= k[2])
    <3> SUFFICES ASSUME NEW k \in Keys, NEW m \in Threads, inflight'[k] = m
                 PROVE  pc'[m] \in Leading /\ MyKey(m) = k /\ (done'[m] # NoVersion => done'[m] >= k[2])
      OBVIOUS
    <3>1. CASE k = MyKey(t)
      BY <1>1, <2>1, <3>1 DEF TypeOK, Leading
    <3>2. CASE k # MyKey(t)
      <4>1. inflight[k] = m /\ m # t
        BY <1>1, <1>2, <2>1, <3>2 DEF TypeOK, Leading
      <4> QED
        BY <1>1, <1>2, <2>1, <4>1 DEF TypeOK
    <3> QED
      BY <3>1, <3>2
  <2>5. \A u \in Threads : pc'[u] # "waiting"
    BY <1>1, <1>2, <2>1 DEF TypeOK
  <2> QED
    BY <1>1, <1>2, <2>1, <2>2, <2>3, <2>4, <2>5, StepKeeps DEF TypeOK
<1>7. CASE Connect(t)
  <2>1. PICK v \in Versions : /\ GetVersion(v) /\ conn' = [conn EXCEPT ![t] = v]
                              /\ pc' = [pc EXCEPT ![t] = IF conn[t] \in {NoVersion, v} THEN "run" ELSE "clear"]
    BY <1>7 DEF Connect
  <2>2. pc[t] = "connect" /\ UNCHANGED <<published, cache, inflight, done, lock, query, asked, frame>>
    BY <1>7 DEF Connect
  <2>3. pc'[t] \in {"run", "clear"} /\ pc' \in [Threads -> {"idle", "look", "waiting", "connect", "clear", "run", "publish", "cleanup"}]
    BY <1>1, <2>1 DEF TypeOK
  <2>4. noticed' \in 0..published /\ conn' \in [Threads -> Frame]
    BY <1>1, <2>1, VersionFacts DEF TypeOK, Frame
  <2>5. TypeOK'
    BY <1>1, <2>2, <2>3, <2>4 DEF TypeOK
  <2>6. CacheIsCurrent'
    BY <1>2, <2>2 DEF CacheIsCurrent
  <2>7. \A u \in Threads : u # t => pc'[u] = pc[u]
    BY <1>1, <2>1 DEF TypeOK
  <2> QED
    BY <1>1, <1>2, <2>2, <2>3, <2>5, <2>6, <2>7, StepKeeps DEF Leading
<1>8. CASE Clear(t)
  <2>1. /\ cache' = [k \in Keys |-> NoVersion] /\ inflight' = [k \in Keys |-> NoThread] /\ pc' = [pc EXCEPT ![t] = "run"]
        /\ lock = NoThread /\ pc[t] = "clear" /\ UNCHANGED <<published, noticed, done, lock, query, asked, conn, frame>>
    BY <1>8 DEF Clear
  <2>2. TypeOK'
    BY <1>1, <2>1 DEF TypeOK, Frame
  <2>3. CacheIsCurrent'
    BY <2>1 DEF CacheIsCurrent
  <2>4. \A u \in Threads : pc'[u] # "waiting"
    BY <1>1, <1>2, <2>1 DEF TypeOK
  <2> QED
    BY <1>1, <1>2, <2>1, <2>2, <2>3, <2>4, StepKeeps DEF TypeOK
<1>9. CASE Run(t)
  <2>1. pc[t] = "run" /\ UNCHANGED <<published, noticed, cache, inflight, done, lock, query, asked, conn>>
    BY <1>9 DEF Run
  <2>2. \/ frame' = [frame EXCEPT ![t] = published] /\ pc' = [pc EXCEPT ![t] = "publish"]
        \/ UNCHANGED frame /\ pc' = [pc EXCEPT ![t] = "cleanup"]
    BY <1>9 DEF Run
  <2>3. pc'[t] \in Leading /\ pc'[t] # "waiting" /\ \A u \in Threads : u # t => pc'[u] = pc[u] /\ frame'[u] = frame[u]
    BY <1>1, <2>2 DEF TypeOK, Leading
  <2>4. TypeOK'
    BY <1>1, <2>1, <2>2 DEF TypeOK, Frame
  <2>5. CacheIsCurrent'
    BY <1>2, <2>1 DEF CacheIsCurrent
  <2>6. frame'[t] # NoVersion => frame'[t] >= asked[t]
    BY <1>1, <1>2, <2>2 DEF TypeOK
  <2> QED
    BY <1>1, <1>2, <2>1, <2>3, <2>4, <2>5, <2>6, StepKeeps
<1>10. CASE Publish(t)
  <2>1. /\ cache' = [cache EXCEPT ![MyKey(t)] = frame[t]] /\ pc' = [pc EXCEPT ![t] = "cleanup"] /\ pc[t] = "publish"
        /\ lock = NoThread /\ UNCHANGED <<published, noticed, inflight, lock, query, asked, conn>>
    BY <1>10 DEF Publish
  <2>2. PICK maker : maker = inflight[MyKey(t)]
    OBVIOUS
  <2>3. \/ UNCHANGED <<done, frame>>
        \/ maker \in Threads /\ done' = [done EXCEPT ![maker] = frame[t]] /\ UNCHANGED frame
        \/ frame' = [frame EXCEPT ![t] = NoVersion] /\ UNCHANGED done
    BY <1>1, <1>10, <2>2 DEF Publish, TypeOK
  <2>4. frame[t] \in Frame /\ (frame[t] # NoVersion => frame[t] >= asked[t])
    BY <1>1, <1>2 DEF TypeOK
  <2>5. TypeOK'
    <3>1. done' \in [Threads -> Frame] /\ frame' \in [Threads -> Frame] /\ cache' \in [Keys -> Frame]
      BY <1>1, <2>1, <2>3, <2>4 DEF TypeOK, Frame
    <3> QED
      BY <1>1, <2>1, <3>1 DEF TypeOK
  <2>6. CacheIsCurrent'
    BY <1>1, <1>2, <2>1, <2>4 DEF CacheIsCurrent, TypeOK
  <2>7. \A k \in Keys, m \in Threads : inflight'[k] = m =>
            pc'[m] \in Leading /\ MyKey(m) = k /\ (done'[m] # NoVersion => done'[m] >= k[2])
    <3> SUFFICES ASSUME NEW k \in Keys, NEW m \in Threads, inflight[k] = m
                 PROVE  pc'[m] \in Leading /\ MyKey(m) = k /\ (done'[m] # NoVersion => done'[m] >= k[2])
      BY <2>1
    <3>1. pc[m] \in Leading /\ MyKey(m) = k /\ (done[m] # NoVersion => done[m] >= k[2])
      BY <1>2
    <3>2. pc'[m] \in Leading
      BY <1>1, <2>1, <3>1 DEF TypeOK, Leading
    <3>3. done'[m] = done[m] \/ (m = maker /\ done'[m] = frame[t])
      BY <1>1, <2>3 DEF TypeOK
    <3>4. m = maker => k[2] = asked[t]
      BY <1>1, <1>2, <2>2, <3>1
    <3> QED
      BY <2>4, <3>1, <3>2, <3>3, <3>4
  <2>8. /\ frame'[t] # NoVersion => frame'[t] >= asked[t]
        /\ \A u \in Threads : u # t => frame'[u] = frame[u] /\ pc'[u] = pc[u]
        /\ \A u \in Threads : pc'[u] # "waiting"
    BY <1>1, <1>2, <2>1, <2>3, <2>4 DEF TypeOK
  <2> QED
    BY <1>1, <2>1, <2>5, <2>6, <2>7, <2>8, StepKeeps
<1>11. CASE Cleanup(t)
  <2>1. /\ inflight' = [inflight EXCEPT ![MyKey(t)] = NoThread] /\ pc' = [pc EXCEPT ![t] = "idle"] /\ pc[t] = "cleanup"
        /\ lock = NoThread /\ UNCHANGED <<published, noticed, cache, done, lock, query, asked, conn, frame>>
    BY <1>11 DEF Cleanup
  <2>2. TypeOK'
    BY <1>1, <2>1 DEF TypeOK
  <2>3. CacheIsCurrent'
    BY <1>2, <2>1 DEF CacheIsCurrent
  <2>4. \A k \in Keys, m \in Threads : inflight'[k] = m => inflight[k] = m /\ k # MyKey(t) /\ m # t
    BY <1>1, <1>2, <2>1 DEF TypeOK
  <2>5. \A u \in Threads : pc'[u] # "waiting"
    BY <1>1, <1>2, <2>1 DEF TypeOK
  <2> QED
    BY <1>1, <1>2, <2>1, <2>2, <2>3, <2>4, <2>5, StepKeeps DEF TypeOK
<1> QED
  BY <1>3, <1>4, <1>5, <1>6, <1>7, <1>8, <1>9, <1>10, <1>11 DEF Continue

-----------------------------------------------------------------------------
\* At first nothing is asked or cached.
LEMMA CacheStart == Init => CacheInv
<1> SUFFICES ASSUME Init PROVE CacheInv
  OBVIOUS
<1>1. TypeOK
  BY VersionAssumption DEF Init, TypeOK, Versions, Frame
<1> QED
  BY <1>1, NoThreadAssumption, VersionAssumption
     DEF Init, CacheInv, AskedIsPublished, CacheIsCurrent, FuturesAreCurrent, WaitersHold, RowsAreCurrent

\* Every step keeps the invariant, or changes nothing.
LEMMA CacheStep == CacheInv /\ [Next]_vars => CacheInv'
<1> SUFFICES ASSUME CacheInv, [Next]_vars PROVE CacheInv'
  OBVIOUS
<1>1. CASE UNCHANGED vars
  BY <1>1 DEF vars, shared, request, CacheInv, TypeOK, AskedIsPublished, CacheIsCurrent, FuturesAreCurrent,
              WaitersHold, RowsAreCurrent, MyKey
<1> QED
  BY <1>1, RefreshKeeps, ForgetKeeps, AskKeeps, ContinueKeeps DEF Next

\* CacheInv holds throughout.
LEMMA CacheHolds == Spec => []CacheInv
BY CacheStart, CacheStep, PTL DEF Spec

\* The cache's variables keep their types.
THEOREM QueryTypes == Spec => []TypeOK
BY CacheHolds, PTL DEF CacheInv

\* No query is given rows older than the version it was asked of, however requests,
\* refreshes, reloads and failures interleave (_execute_df).
THEOREM RowsStayCurrent == Spec => []RowsAreCurrent
BY CacheHolds, PTL DEF CacheInv
-----------------------------------------------------------------------------
(* A wait that does not end *)

\* A thread waits on a Future nobody has completed yet, with the lock held.
Stuck(t) == pc[t] = "waiting" /\ done[inflight[MyKey(t)]] = NoVersion

\* From then on nothing is cached, completed or dropped, no query of any thread
\* returns, and the thread still waits.
NothingReturns == \A t \in Threads : Stuck(t) =>
    Stuck(t)' /\ UNCHANGED shared /\ \A u \in Threads : pc'[u] = "idle" => pc[u] = "idle"

\* While a thread waits the lock is its own, and no other thread takes it.
LEMMA WaiterKeepsOthersOut ==
    ASSUME CacheInv, NEW t \in Threads, Stuck(t)
    PROVE  /\ lock = t /\ lock # NoThread
           /\ \A k \in Keys : ~Forget(k)
           /\ \A u \in Threads : ~(Hit(u) \/ Join(u) \/ Lead(u) \/ Clear(u) \/ Publish(u) \/ Cleanup(u))
<1>1. lock = t /\ lock # NoThread
  BY NoThreadAssumption DEF CacheInv, WaitersHold, Stuck
<1> QED
  BY <1>1 DEF Forget, Hit, Join, Lead, Clear, Publish, Cleanup

\* Nobody else waits, so nobody receives.
LEMMA NobodyReceives ==
    ASSUME CacheInv, NEW t \in Threads, Stuck(t), NEW u \in Threads
    PROVE  ~Receive(u)
<1>1. CASE u = t
  BY <1>1 DEF Stuck, Receive
<1>2. CASE u # t
  BY <1>2, WaiterKeepsOthersOut DEF CacheInv, WaitersHold, Receive
<1> QED
  BY <1>1, <1>2

\* What is left to do changes neither the waiting thread nor the Futures.
LEMMA StuckStep ==
    ASSUME CacheInv, [Next]_vars, NEW t \in Threads, Stuck(t)
    PROVE  Stuck(t)' /\ UNCHANGED shared /\ \A u \in Threads : pc'[u] = "idle" => pc[u] = "idle"
<1>1. SUFFICES /\ UNCHANGED shared /\ pc'[t] = pc[t] /\ query'[t] = query[t] /\ asked'[t] = asked[t]
               /\ \A u \in Threads : pc'[u] = "idle" => pc[u] = "idle"
  BY DEF Stuck, MyKey, shared
<1>2. pc[t] = "waiting" /\ TypeOK
  BY DEF Stuck, CacheInv
<1>3. CASE Refresh \/ UNCHANGED vars
  BY <1>3 DEF Refresh, vars, request
<1>4. CASE \E k \in Keys : Forget(k)
  BY <1>4, WaiterKeepsOthersOut
<1>5. ASSUME NEW u \in Threads, NEW q \in Queries, Ask(u, q)
      PROVE  /\ UNCHANGED shared /\ pc'[t] = pc[t] /\ query'[t] = query[t] /\ asked'[t] = asked[t]
             /\ \A w \in Threads : pc'[w] = "idle" => pc[w] = "idle"
  <2>1. u # t /\ UNCHANGED shared /\ pc' = [pc EXCEPT ![u] = "look"]
        /\ query' = [query EXCEPT ![u] = q] /\ \E v \in Versions : asked' = [asked EXCEPT ![u] = v]
    BY <1>2, <1>5 DEF Ask, Go
  <2> QED
    BY <1>2, <2>1 DEF TypeOK
<1>6. ASSUME NEW u \in Threads, Continue(u)
      PROVE  /\ UNCHANGED shared /\ pc'[t] = pc[t] /\ query'[t] = query[t] /\ asked'[t] = asked[t]
             /\ \A w \in Threads : pc'[w] = "idle" => pc[w] = "idle"
  <2>1. Connect(u) \/ Run(u)
    BY <1>6, WaiterKeepsOthersOut, NobodyReceives DEF Continue
  <2>2. u # t /\ UNCHANGED <<shared, request>>
        /\ \E s \in {"run", "clear", "publish", "cleanup"} : pc' = [pc EXCEPT ![u] = s]
    BY <1>2, <2>1 DEF Connect, Run, Go, shared, request
  <2> QED
    BY <1>2, <2>2 DEF TypeOK, request
<1> QED
  BY <1>3, <1>4, <1>5, <1>6 DEF Next

\* A query that finds another thread at work on its key waits with _duck_lock held, and
\* that thread needs the lock to complete the Future (_execute_df): unless it is complete
\* already, no query of the process returns again, whatever the threads and queries.
THEOREM JoiningIsForEver == Spec => [][NothingReturns]_vars
<1>1. CacheInv /\ [Next]_vars => [NothingReturns]_vars
  BY StuckStep DEF NothingReturns
<1> QED
  BY <1>1, CacheHolds, PTL DEF Spec

-----------------------------------------------------------------------------
(* What a reload breaks *)

\* A thread forgets the Futures of the others, whose queries still run.
Reloads == \E t \in Threads : Clear(t)

\* Who works on a key is who made its Future, and completes it first.
LeadersAreKnown ==
    /\ \A t \in Threads : pc[t] \in Leading => inflight[MyKey(t)] = t
    /\ \A t \in Threads : pc[t] \in Leading \ {"cleanup"} => done[t] = NoVersion

\* No two threads run one query of one version at a time.
OneRunPerQuery == \A t, u \in Threads :
    pc[t] \in Leading /\ pc[u] \in Leading /\ MyKey(t) = MyKey(u) => t = u

\* No thread loses its rows to a Future that was completed before.
NoAnswerIsLost == \A t \in Threads : Publish(t) => frame'[t] = frame[t]

\* Without a reload a Future stays where it is until its maker drops it.
LEMMA LeadersStayKnown ==
    ASSUME CacheInv, LeadersAreKnown, [Next]_vars, ~Reloads PROVE LeadersAreKnown'
<1> USE DEF Go, shared, request
<1>1. /\ \A u \in Threads : pc[u] \in Leading => inflight[MyKey(u)] = u
      /\ \A u \in Threads : pc[u] \in Leading \ {"cleanup"} => done[u] = NoVersion
      /\ TypeOK /\ NoThread \notin Threads
  BY NoThreadAssumption DEF LeadersAreKnown, CacheInv
<1>2. CASE Refresh \/ UNCHANGED vars \/ \E k \in Keys : Forget(k)
  BY <1>1, <1>2 DEF Refresh, Forget, vars, LeadersAreKnown, MyKey
<1>3. ASSUME NEW t \in Threads, NEW q \in Queries, Ask(t, q) PROVE LeadersAreKnown'
  <2>1. /\ pc' = [pc EXCEPT ![t] = "look"] /\ query' = [query EXCEPT ![t] = q]
        /\ \E v \in Versions : asked' = [asked EXCEPT ![t] = v]
        /\ inflight' = inflight /\ done' = done
    BY <1>3 DEF Ask
  <2>2. \A u \in Threads \ {t} : pc'[u] = pc[u] /\ MyKey(u)' = MyKey(u)
    BY <1>1, <2>1 DEF TypeOK, MyKey
  <2>3. pc'[t] \notin Leading
    BY <1>1, <2>1 DEF TypeOK, Leading
  <2> QED
    BY <1>1, <2>1, <2>2, <2>3 DEF LeadersAreKnown
<1>4. ASSUME NEW t \in Threads, Continue(t) PROVE LeadersAreKnown'
  <2>1. \A u \in Threads : MyKey(u)' = MyKey(u) /\ MyKey(u) \in Keys
    BY <1>1, <1>4, KeyFacts
       DEF Continue, Hit, Join, Receive, Lead, Connect, Clear, Run, Publish, Cleanup, MyKey
  <2> SUFFICES ASSUME NEW u \in Threads, pc'[u] \in Leading
               PROVE  inflight'[MyKey(u)] = u /\ (pc'[u] # "cleanup" => done'[u] = NoVersion)
    BY <2>1 DEF LeadersAreKnown
  <2>2. CASE Hit(t) \/ Join(t) \/ Receive(t)
    <3>1. inflight' = inflight /\ done' = done /\ \E s \in {"idle", "waiting"} : pc' = [pc EXCEPT ![t] = s]
      BY <2>2 DEF Hit, Join, Receive
    <3> QED
      BY <1>1, <3>1 DEF TypeOK, Leading
  <2>3. CASE Lead(t)
    <3>1. /\ inflight[MyKey(t)] = NoThread /\ inflight' = [inflight EXCEPT ![MyKey(t)] = t]
          /\ done' = [done EXCEPT ![t] = NoVersion] /\ pc' = [pc EXCEPT ![t] = "connect"]
      BY <2>3 DEF Lead
    <3> QED
      BY <1>1, <2>1, <3>1 DEF TypeOK, Leading
  <2>4. CASE Connect(t) \/ Run(t)
    <3>1. /\ pc[t] \in {"connect", "run"} /\ inflight' = inflight /\ done' = done
          /\ \E s \in {"run", "clear", "publish", "cleanup"} : pc' = [pc EXCEPT ![t] = s]
      BY <2>4 DEF Connect, Run
    <3> QED
      BY <1>1, <3>1 DEF TypeOK, Leading
  <2>5. CASE Publish(t)
    <3>1. pc[t] = "publish" /\ inflight' = inflight /\ pc' = [pc EXCEPT ![t] = "cleanup"]
      BY <2>5 DEF Publish
    <3>2. inflight[MyKey(t)] = t /\ done[t] = NoVersion
      BY <1>1, <3>1 DEF Leading
    <3>3. done' = [done EXCEPT ![t] = frame[t]]
      BY <1>1, <2>5, <3>2 DEF Publish
    <3> QED
      BY <1>1, <3>1, <3>3 DEF TypeOK, Leading
  <2>6. CASE Cleanup(t)
    <3>1. /\ pc[t] = "cleanup" /\ inflight' = [inflight EXCEPT ![MyKey(t)] = NoThread]
          /\ done' = done /\ pc' = [pc EXCEPT ![t] = "idle"]
      BY <2>6 DEF Cleanup
    <3>2. u # t /\ pc[u] = pc'[u]
      BY <1>1, <3>1 DEF TypeOK, Leading
    <3>3. inflight[MyKey(t)] = t /\ inflight[MyKey(u)] = u
      BY <1>1, <3>1, <3>2 DEF Leading
    <3>4. MyKey(u) # MyKey(t)
      BY <3>2, <3>3
    <3> QED
      BY <1>1, <2>1, <3>1, <3>2, <3>3, <3>4 DEF TypeOK
  <2> QED
    BY <1>4, <2>2, <2>3, <2>4, <2>5, <2>6 DEF Continue, Reloads
<1> QED
  BY <1>2, <1>3, <1>4 DEF Next

\* As long as no thread reloads, one thread at a time runs a query, and it gets the rows
\* it has read (_execute_df): only reload_if_version_changed makes two run one query and
\* the second raise InvalidStateError.
THEOREM OnlyReloadsRepeatAQuery ==
    Spec /\ [][~Reloads]_vars => []OneRunPerQuery /\ [][NoAnswerIsLost]_vars
<1>1. Init => LeadersAreKnown
  BY DEF Init, LeadersAreKnown, Leading
<1>2. CacheInv /\ LeadersAreKnown /\ [Next]_vars /\ [~Reloads]_vars => LeadersAreKnown'
  <2>1. CASE UNCHANGED vars
    BY <2>1 DEF vars, shared, request, LeadersAreKnown, MyKey
  <2> QED
    BY <2>1, LeadersStayKnown
<1>3. LeadersAreKnown => OneRunPerQuery
  BY DEF LeadersAreKnown, OneRunPerQuery
<1>4. LeadersAreKnown /\ [Next]_vars => [NoAnswerIsLost]_vars
  <2> SUFFICES ASSUME LeadersAreKnown, NEW t \in Threads, Publish(t) PROVE frame'[t] = frame[t]
    BY DEF NoAnswerIsLost
  <2>1. inflight[MyKey(t)] = t /\ done[t] = NoVersion
    BY DEF Publish, LeadersAreKnown, Leading
  <2> QED
    BY <2>1 DEF Publish
<1> QED
  BY <1>1, <1>2, <1>3, <1>4, CacheHolds, PTL DEF Spec
=============================================================================
