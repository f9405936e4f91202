----------------------------- MODULE DesksProofs -----------------------------
(***************************************************************************)
(* PlanningWriteback, WorkItems and CorrectiveActions keep their promises, *)
(* and the events of the last two are an AuditTrail, for any number of     *)
(* workers, requests, names, products and records.  What a race of two     *)
(* decisions can undo is kept while no two decide one record at a time.    *)
(***************************************************************************)
EXTENDS PlanningWriteback, WorkItems, CorrectiveActions,
        FiniteSetTheorems, SequenceTheorems, WellFoundedInduction, TLAPS

PlanType == [name: Names, version: Nat \ {0}, status: PlanStatuses, results: SUBSET Products]
OrderType(ps) == [plan: ps, lines: Lines, status: OrderStatuses]
RequestType(os) == [order: os, status: {"pending", "approved"}]

-----------------------------------------------------------------------------
(* Tables *)

\* An INSERT leaves the rows there were and adds one.
LEMMA Inserted ==
    ASSUME NEW S, NEW s \in Seq(S), NEW x \in S
    PROVE  /\ Append(s, x) \in Seq(S)
           /\ DOMAIN Append(s, x) = DOMAIN s \cup {Len(s) + 1}
           /\ Len(s) + 1 \notin DOMAIN s
           /\ \A i \in DOMAIN s : Append(s, x)[i] = s[i]
           /\ Append(s, x)[Len(s) + 1] = x
<1>1. DOMAIN s = 1..Len(s) /\ Len(s) \in Nat
  OBVIOUS
<1>2. Append(s, x) \in Seq(S) /\ Len(Append(s, x)) = Len(s) + 1
  BY AppendProperties
<1>3. DOMAIN Append(s, x) = 1..(Len(s) + 1)
  BY <1>2
<1> QED
  BY <1>1, <1>2, <1>3, AppendProperties

\* An UPDATE of one row leaves the others alone.
LEMMA RowUpdated ==
    ASSUME NEW S, NEW s \in Seq(S), NEW i, NEW x, i \in DOMAIN s => x \in S
    PROVE  /\ [s EXCEPT ![i] = x] \in Seq(S)
           /\ DOMAIN [s EXCEPT ![i] = x] = DOMAIN s
<1>1. CASE i \in DOMAIN s
  BY <1>1, ExceptSeq
<1>2. CASE i \notin DOMAIN s
  <2>1. [s EXCEPT ![i] = x] = s
    BY <1>2
  <2> QED
    BY <2>1
<1> QED
  BY <1>1, <1>2

\* Rows of a narrower type are rows of a wider one.
LEMMA Widened ==
    ASSUME NEW S, NEW T, S \subseteq T, NEW s \in Seq(S) PROVE s \in Seq(T)
  OBVIOUS

\* Every row of a table is of its type.
LEMMA Elements ==
    ASSUME NEW S, NEW s \in Seq(S), NEW i \in DOMAIN s PROVE s[i] \in S
  OBVIOUS

\* The newest of some rows is one of them.
LEMMA Newest ==
    ASSUME NEW n \in Nat, NEW S \in SUBSET (1..n), S # {} PROVE Max(S) \in S
<1> DEFINE T == {n - i : i \in S}
           R == {ss \in Nat \X Nat : ss[1] < ss[2]}
<1>1. T \subseteq Nat
  OBVIOUS
<1>2. T # {}
  <2> PICK i \in S : TRUE
    OBVIOUS
  <2> n - i \in T
    OBVIOUS
  <2> QED
    OBVIOUS
<1>3. IsWellFoundedOn(R, Nat)
  <2>1. R = OpToRel(<, Nat)
    BY DEF OpToRel
  <2> QED
    BY <2>1, NatLessThanWellFounded
<1>4. PICK t \in T : \A u \in T : <<u, t>> \notin R
  <2> HIDE DEF T, R
  <2> QED
    BY <1>1, <1>2, <1>3, WFMin
<1>5. \A u \in T : ~ (u < t)
  BY <1>1, <1>4
<1>6. PICK i \in S : t = n - i
  OBVIOUS
<1>7. \A j \in S : i >= j
  <2> TAKE j \in S
  <2>1. n - j \in T
    OBVIOUS
  <2> QED
    BY <1>5, <1>6, <2>1
<1> QED
  BY <1>7 DEF Max

-----------------------------------------------------------------------------
(* Types *)

\* What a worker has in hand, by what it is doing.
LEMMA TaskFields ==
    ASSUME NEW t \in Task
    PROVE  /\ t.op = "create" => /\ t.name \in Names /\ t.results \in SUBSET Products
                                 /\ t.version \in Nat \ {0}
           /\ t.op = "move" => t.plan \in DOMAIN plans /\ t.to \in PlanStatuses
           /\ t.op = "read" => t.plan \in DOMAIN plans
           /\ t.op \in {"find", "insert"} => t.plan \in DOMAIN plans /\ t.lines \in Lines
           /\ t.op = "advance" => t.order \in DOMAIN orders /\ t.to \in OrderStatuses
  BY DEF Task

\* What each row is.
LEMMA RowTypes ==
    ASSUME TypeOK
    PROVE  /\ \A p \in DOMAIN plans : plans[p] \in PlanType /\ grants[p] \in Nat /\ recs[p] \in Lines
           /\ \A o \in DOMAIN orders : orders[o] \in OrderType(DOMAIN plans)
           /\ \A i \in DOMAIN requests : requests[i] \in RequestType(DOMAIN orders)
<1>1. \A p \in DOMAIN plans : plans[p] \in PlanType
  BY Elements DEF TypeOK, PlanType
<1>2. \A p \in DOMAIN plans : grants[p] \in Nat
  BY Elements DEF TypeOK
<1>3. \A p \in DOMAIN plans : recs[p] \in Lines
  BY Elements DEF TypeOK
<1>4. \A o \in DOMAIN orders : orders[o] \in OrderType(DOMAIN plans)
  BY Elements DEF TypeOK, OrderType
<1>5. \A i \in DOMAIN requests : requests[i] \in RequestType(DOMAIN orders)
  BY Elements DEF TypeOK, RequestType
<1> QED
  BY <1>1, <1>2, <1>3, <1>4, <1>5

\* A worker that takes a task of the right type, while the tables stay, keeps the types.
LEMMA TaskType ==
    ASSUME TypeOK, NEW w \in Workers, NEW t \in Task, Then(w, t), UNCHANGED tables
    PROVE  TypeOK'
<1>1. Task' = Task
  BY DEF Task, tables
<1>2. task' \in [Workers -> Task]
  BY DEF TypeOK, Then
<1> QED
  BY <1>1, <1>2 DEF TypeOK, tables

-----------------------------------------------------------------------------
(* Versions *)

Named(n) == {p \in DOMAIN plans : plans[p].name = n}
\* The version a worker has chosen was the next one when it chose it.
NextVersions == \A w \in Workers :
    Does(w, "create") => task[w].version <= Cardinality(Named(task[w].name)) + 1
Versioned == TypeOK /\ VersionsCountUp /\ NextVersions

\* A name has finitely many scenarios, and the highest of their versions is their number.
LEMMA HighestVersion ==
    ASSUME TypeOK, VersionsCountUp, NEW n \in Names
    PROVE  /\ IsFiniteSet(Named(n)) /\ Cardinality(Named(n)) \in Nat
           /\ Max(VersionsOf(n) \cup {0}) = Cardinality(Named(n))
<1> DEFINE k == Cardinality(Named(n))
           S == VersionsOf(n) \cup {0}
<1>1. IsFiniteSet(Named(n)) /\ k \in Nat
  <2>1. DOMAIN plans = 1..Len(plans) /\ Len(plans) \in Nat
    BY DEF TypeOK
  <2>2. IsFiniteSet(DOMAIN plans)
    BY <2>1, FS_Interval
  <2>3. Named(n) \subseteq DOMAIN plans
    BY DEF Named
  <2> QED
    BY <2>2, <2>3, FS_Subset, FS_CardinalityType
<1>2. VersionsOf(n) = 1..k
  BY DEF VersionsCountUp, Named
<1>3. k \in S /\ \A y \in S : k >= y
  BY <1>1, <1>2
<1>4. Max(S) \in S /\ \A y \in S : Max(S) >= y
  <2> HIDE DEF S, k
  <2> QED
    BY <1>3 DEF Max
<1>5. S \subseteq Nat
  BY <1>1, <1>2
<1>6. Max(S) = k
  <2>1. k \in Nat
    BY <1>1
  <2> HIDE DEF S, k
  <2>2. Max(S) \in Nat
    BY <1>4, <1>5
  <2>3. k >= Max(S) /\ Max(S) >= k
    BY <1>3, <1>4
  <2> HIDE DEF Max
  <2> QED
    BY <2>1, <2>2, <2>3
<1> QED
  BY <1>1, <1>6

\* A transaction that leaves the tables well typed and loses no row keeps the types:
\* what other workers have in hand is still there.
LEMMA WriteType ==
    ASSUME TypeOK, NEW w \in Workers, Then(w, Idle),
           plans' \in Seq(PlanType), grants' \in Seq(Nat), recs' \in Seq(Lines),
           DOMAIN grants' = DOMAIN plans', DOMAIN recs' = DOMAIN plans',
           orders' \in Seq(OrderType(DOMAIN plans')),
           requests' \in Seq(RequestType(DOMAIN orders')),
           DOMAIN plans \subseteq DOMAIN plans', DOMAIN orders \subseteq DOMAIN orders'
    PROVE  TypeOK'
<1>1. ASSUME NEW t \in Task PROVE t \in Task'
  BY <1>1 DEF Task
<1>2. Idle \in Task'
  BY DEF Task, Idle
<1>3. task' \in [Workers -> Task']
  BY <1>1, <1>2 DEF TypeOK, Then
<1> QED
  BY <1>3 DEF TypeOK, PlanType, OrderType, RequestType

\* A scenario is written with the next version, whoever has written meanwhile: the
\* index refuses the numbers that are taken.
LEMMA InsertPlanVersions ==
    ASSUME Versioned, NEW w \in Workers, NEW t, t = task[w], InsertPlan(w) PROVE Versioned'
<1> DEFINE new == [name |-> t.name, version |-> t.version, status |-> "draft",
                   results |-> t.results]
           id == Len(plans) + 1
<1> USE DEF Versioned
<1>1. t \in Task /\ t.op = "create"
  BY DEF TypeOK, InsertPlan, Does
<1>2. t.name \in Names /\ t.results \in SUBSET Products /\ t.version \in Nat \ {0}
  BY <1>1, TaskFields
<1>3. new \in PlanType
  BY <1>2 DEF PlanType, PlanStatuses
<1>4. plans \in Seq(PlanType) /\ grants \in Seq(Nat) /\ recs \in Seq(Lines)
  BY DEF TypeOK, PlanType
<1>5. Len(grants) = Len(plans) /\ Len(recs) = Len(plans)
  <2>1. DOMAIN grants = DOMAIN plans /\ DOMAIN recs = DOMAIN plans
    BY DEF TypeOK
  <2> QED
    BY <1>4, <2>1
<1>6. plans' = Append(plans, new) /\ grants' = Append(grants, 0) /\ recs' = Append(recs, NoLines)
  BY DEF InsertPlan
<1>7. /\ plans' \in Seq(PlanType) /\ DOMAIN plans' = DOMAIN plans \cup {id} /\ id \notin DOMAIN plans
      /\ \A p \in DOMAIN plans : plans'[p] = plans[p]
      /\ plans'[id] = new
  <2> HIDE DEF new
  <2> QED
    BY <1>3, <1>4, <1>6, Inserted
<1>8. grants' \in Seq(Nat) /\ DOMAIN grants' = DOMAIN plans'
  BY <1>4, <1>5, <1>6, <1>7, Inserted DEF TypeOK
<1>9. recs' \in Seq(Lines) /\ DOMAIN recs' = DOMAIN plans'
  <2>1. NoLines \in Lines
    BY DEF NoLines, Lines
  <2> QED
    BY <1>4, <1>5, <1>6, <1>7, <2>1, Inserted DEF TypeOK
<1>10. TypeOK'
  <2>1. orders' = orders /\ requests' = requests /\ Then(w, Idle)
    BY DEF InsertPlan
  <2>2. orders \in Seq(OrderType(DOMAIN plans)) /\ requests \in Seq(RequestType(DOMAIN orders))
    BY DEF TypeOK, OrderType, RequestType
  <2>3. orders \in Seq(OrderType(DOMAIN plans'))
    <3>1. OrderType(DOMAIN plans) \subseteq OrderType(DOMAIN plans')
      BY <1>7 DEF OrderType
    <3> QED
      BY <2>2, <3>1, Widened
  <2> HIDE DEF id, new
  <2> QED
    BY <1>7, <1>8, <1>9, <2>1, <2>2, <2>3, WriteType
<1>11. /\ Named(t.name)' = Named(t.name) \cup {id}
       /\ VersionsOf(t.name)' = VersionsOf(t.name) \cup {t.version}
  <2> HIDE DEF id
  <2> QED
    BY <1>7 DEF Named, VersionsOf
<1>12. \A m \in Names \ {t.name} : Named(m)' = Named(m) /\ VersionsOf(m)' = VersionsOf(m)
  <2> HIDE DEF id
  <2> QED
    BY <1>7 DEF Named, VersionsOf
<1>13. /\ IsFiniteSet(Named(t.name)) /\ Cardinality(Named(t.name)) \in Nat
       /\ Cardinality(Named(t.name)') = Cardinality(Named(t.name)) + 1
  <2>1. id \notin Named(t.name)
    BY <1>7 DEF Named
  <2>2. IsFiniteSet(Named(t.name)) /\ Cardinality(Named(t.name)) \in Nat
    BY <1>2, HighestVersion
  <2> HIDE DEF id
  <2> QED
    BY <1>11, <2>1, <2>2, FS_AddElement
<1>14. t.version = Cardinality(Named(t.name)) + 1
  <2>1. t.version \notin VersionsOf(t.name)
    BY DEF InsertPlan
  <2>2. VersionsOf(t.name) = 1..Cardinality(Named(t.name))
    BY <1>2 DEF VersionsCountUp, Named
  <2>3. t.version <= Cardinality(Named(t.name)) + 1
    BY <1>1 DEF NextVersions, Does
  <2> QED
    BY <1>2, <1>13, <2>1, <2>2, <2>3
<1>15. VersionsCountUp'
  <2> SUFFICES ASSUME NEW m \in Names PROVE VersionsOf(m)' = 1..Cardinality(Named(m)')
    BY DEF VersionsCountUp, Named
  <2>1. VersionsOf(m) = 1..Cardinality(Named(m))
    BY DEF VersionsCountUp, Named
  <2>2. CASE m = t.name
    <3>1. 1..(Cardinality(Named(m)) + 1) = (1..Cardinality(Named(m))) \cup {t.version}
      BY <1>13, <1>14, <2>2
    <3> QED
      BY <1>11, <1>13, <2>1, <2>2, <3>1
  <2>3. CASE m # t.name
    BY <1>12, <2>1, <2>3
  <2> QED
    BY <2>2, <2>3
<1>16. NextVersions'
  <2> SUFFICES ASSUME NEW v \in Workers, NEW c, c = task'[v], c.op = "create"
               PROVE c.version <= Cardinality(Named(c.name)') + 1
    BY DEF NextVersions, Does, Named
  <2>1. c = task[v] /\ c.op = "create"
    BY DEF InsertPlan, Then, Idle, TypeOK
  <2>2. c.version <= Cardinality(Named(c.name)) + 1
    BY <2>1 DEF NextVersions, Does
  <2>3. c.name \in Names /\ c.version \in Nat
    BY <2>1, TaskFields DEF TypeOK
  <2>4. Cardinality(Named(c.name)) \in Nat
    BY <2>3, HighestVersion
  <2>5. CASE c.name = t.name
    <3>1. Cardinality(Named(c.name)') = Cardinality(Named(c.name)) + 1
      BY <1>13, <2>5
    <3> QED
      BY <2>2, <2>3, <2>4, <3>1
  <2>6. CASE c.name # t.name
    BY <1>12, <2>2, <2>3, <2>6
  <2> QED
    BY <2>5, <2>6
<1> QED
  BY <1>10, <1>15, <1>16

\* Nothing else numbers a scenario.
LEMMA SameVersions ==
    ASSUME Versioned, TypeOK', NEW w \in Workers, NEW t, Then(w, t),
           t.op = "create" => t.version <= Cardinality(Named(t.name)) + 1,
           DOMAIN plans' = DOMAIN plans,
           \A p \in DOMAIN plans : /\ plans'[p].name = plans[p].name
                                   /\ plans'[p].version = plans[p].version
    PROVE  Versioned'
<1>1. \A n : Named(n)' = Named(n) /\ VersionsOf(n)' = VersionsOf(n)
  BY DEF Named, VersionsOf
<1>2. VersionsCountUp'
  <2>1. \A n : Named(n)' = {p \in DOMAIN plans' : plans'[p].name = n}
    BY DEF Named
  <2>2. \A n \in Names : VersionsOf(n) = 1..Cardinality(Named(n))
    BY DEF Versioned, VersionsCountUp, Named
  <2> QED
    BY <1>1, <2>1, <2>2 DEF VersionsCountUp
<1>3. NextVersions'
  <2> SUFFICES ASSUME NEW v \in Workers, NEW c, c = task'[v], c.op = "create"
               PROVE c.version <= Cardinality(Named(c.name)') + 1
    BY DEF NextVersions, Does, Named
  <2>1. CASE v = w
    <3>1. c = t
      BY <2>1 DEF Then, Versioned, TypeOK
    <3> QED
      BY <1>1, <3>1
  <2>2. CASE v # w
    <3>1. c = task[v]
      BY <2>2 DEF Then, Versioned, TypeOK
    <3>2. c.version <= Cardinality(Named(c.name)) + 1
      BY <3>1 DEF Does, NextVersions, Versioned
    <3> QED
      BY <1>1, <3>2
  <2> QED
    BY <2>1, <2>2
<1> QED
  BY <1>2, <1>3 DEF Versioned

\* A step that only gives a worker another task, of the right type.
LEMMA TaskVersions ==
    ASSUME Versioned, NEW w \in Workers, NEW t \in Task, Then(w, t), UNCHANGED tables,
           t.op = "create" => t.version <= Cardinality(Named(t.name)) + 1
    PROVE  Versioned'
<1>1. TypeOK'
  BY TaskType DEF Versioned
<1>2. plans' = plans
  BY DEF tables
<1> QED
  BY <1>1, <1>2, SameVersions

\* Whatever a request reads first, what it then has in hand is of its type.
LEMMA BeginVersions == ASSUME Versioned, NEW w \in Workers, Begin(w) PROVE Versioned'
<1> USE DEF Versioned
<1>1. ASSUME NEW n \in Names, NEW results \in SUBSET Products, ReadVersion(w, n, results)
      PROVE  Versioned'
  <2>1. /\ Cardinality(Named(n)) \in Nat
        /\ Max(VersionsOf(n) \cup {0}) = Cardinality(Named(n))
    BY HighestVersion
  <2> DEFINE t == [op |-> "create", name |-> n, results |-> results,
                   version |-> Cardinality(Named(n)) + 1]
  <2>2. t \in Task /\ t.version <= Cardinality(Named(t.name)) + 1
    BY <2>1 DEF Task
  <2>3. Then(w, t) /\ UNCHANGED tables
    BY <1>1, <2>1 DEF ReadVersion
  <2> HIDE DEF t
  <2> QED
    BY <2>2, <2>3, TaskVersions
<1>2. ASSUME NEW p \in DOMAIN plans, NEW to \in PlanStatuses, ReadPlan(w, p, to)
      PROVE  Versioned'
  <2> DEFINE t == [op |-> "move", plan |-> p, to |-> to]
  <2>1. t \in Task /\ t.op # "create" /\ Then(w, t) /\ UNCHANGED tables
    BY <1>2 DEF Task, ReadPlan
  <2> HIDE DEF t
  <2> QED
    BY <2>1, TaskVersions
<1>3. ASSUME NEW p \in DOMAIN plans, ReadApproved(w, p) PROVE Versioned'
  <2> DEFINE t == [op |-> "read", plan |-> p]
  <2>1. t \in Task /\ t.op # "create" /\ Then(w, t) /\ UNCHANGED tables
    BY <1>3 DEF Task, ReadApproved
  <2> HIDE DEF t
  <2> QED
    BY <2>1, TaskVersions
<1>4. ASSUME NEW o \in DOMAIN orders, NEW to \in OrderStatuses, ReadOrder(w, o, to)
      PROVE  Versioned'
  <2> DEFINE t == [op |-> "advance", order |-> o, to |-> to]
  <2>1. t \in Task /\ t.op # "create" /\ Then(w, t) /\ UNCHANGED tables
    BY <1>4 DEF Task, ReadOrder
  <2> HIDE DEF t
  <2> QED
    BY <2>1, TaskVersions
<1> QED
  BY <1>1, <1>2, <1>3, <1>4 DEF Begin

\* The steps of a request that only read, or give up.
LEMMA ReadVersions ==
    ASSUME Versioned, NEW w \in Workers, ReadRecommendations(w) \/ FindOrder(w) \/ Abandon(w)
    PROVE  Versioned'
<1> USE DEF Versioned
<1>1. Idle \in Task /\ Idle.op # "create"
  BY DEF Idle, Task
<1>2. CASE Abandon(w)
  BY <1>1, <1>2, TaskVersions DEF Abandon
<1>3. task[w] \in Task
  BY DEF TypeOK
<1>4. CASE ReadRecommendations(w)
  <2>1. task[w].plan \in DOMAIN plans
    BY <1>3, <1>4, TaskFields DEF ReadRecommendations, Does
  <2> DEFINE t == [op |-> "find", plan |-> task[w].plan, lines |-> recs[task[w].plan]]
  <2>2. t \in Task /\ t.op # "create"
    BY <2>1, RowTypes DEF Task
  <2>3. UNCHANGED tables /\ (Then(w, t) \/ Then(w, Idle))
    BY <1>4 DEF ReadRecommendations
  <2> HIDE DEF t
  <2> QED
    BY <1>1, <2>2, <2>3, TaskVersions
<1>5. CASE FindOrder(w)
  <2>1. task[w].op = "find"
    BY <1>5 DEF FindOrder, Does
  <2> DEFINE t == [task[w] EXCEPT !.op = "insert"]
  <2>2. t \in Task /\ t.op # "create"
    BY <1>3, <2>1 DEF Task
  <2>3. UNCHANGED tables /\ (Then(w, t) \/ Then(w, Idle))
    BY <1>5 DEF FindOrder
  <2> HIDE DEF t
  <2> QED
    BY <1>1, <2>2, <2>3, TaskVersions
<1> QED
  BY <1>2, <1>4, <1>5

\* The transactions that update a scenario, insert an order, or update one.
LEMMA WriteVersions ==
    ASSUME Versioned, NEW w \in Workers, WritePlan(w) \/ InsertOrder(w) \/ WriteOrder(w)
    PROVE  Versioned'
<1> USE DEF Versioned
<1>1. Idle.op # "create"
  BY DEF Idle
<1>2. task[w] \in Task
  BY DEF TypeOK
<1>3. /\ plans \in Seq(PlanType) /\ grants \in Seq(Nat) /\ recs \in Seq(Lines)
      /\ DOMAIN grants = DOMAIN plans /\ DOMAIN recs = DOMAIN plans
      /\ orders \in Seq(OrderType(DOMAIN plans)) /\ requests \in Seq(RequestType(DOMAIN orders))
  BY DEF TypeOK, PlanType, OrderType, RequestType
<1>4. CASE WritePlan(w)
  <2> DEFINE p == task[w].plan
             row == [plans[p] EXCEPT !.status = task[w].to]
  <2>1. p \in DOMAIN plans /\ task[w].to \in PlanStatuses
    BY <1>2, <1>4, TaskFields DEF WritePlan, Does
  <2>2. plans[p] \in PlanType /\ grants[p] \in Nat /\ recs[p] \in Lines
    BY <2>1, RowTypes
  <2>3. row \in PlanType /\ row.name = plans[p].name /\ row.version = plans[p].version
    BY <2>1, <2>2 DEF PlanType
  <2>4. plans' = [plans EXCEPT ![p] = row]
    BY <1>4 DEF WritePlan
  <2>5. plans' \in Seq(PlanType) /\ DOMAIN plans' = DOMAIN plans
    <3> HIDE DEF p, row
    <3> QED
      BY <1>3, <2>3, <2>4, RowUpdated
  <2>6. \A q \in DOMAIN plans : /\ plans'[q].name = plans[q].name
                                /\ plans'[q].version = plans[q].version
    <3> HIDE DEF p, row
    <3> QED
      BY <1>3, <2>3, <2>4
  <2>7. grants' \in Seq(Nat) /\ DOMAIN grants' = DOMAIN grants
    <3> DEFINE count == grants[p] + 1
    <3>1. grants' = grants \/ grants' = [grants EXCEPT ![p] = count]
      BY <1>4 DEF WritePlan
    <3>2. count \in Nat
      BY <2>2
    <3> HIDE DEF p, count
    <3> QED
      BY <1>3, <3>1, <3>2, RowUpdated
  <2>8. recs' \in Seq(Lines) /\ DOMAIN recs' = DOMAIN recs
    <3> DEFINE lines == WithResults(p)
    <3>1. recs' = recs \/ recs' = [recs EXCEPT ![p] = lines]
      BY <1>4 DEF WritePlan
    <3>2. lines \in Lines
      BY <2>2 DEF WithResults, Lines
    <3> HIDE DEF p, lines
    <3>3. /\ [recs EXCEPT ![p] = lines] \in Seq(Lines)
          /\ DOMAIN [recs EXCEPT ![p] = lines] = DOMAIN recs
      BY <1>3, <3>2, RowUpdated
    <3> QED
      BY <1>3, <3>1, <3>3
  <2>9. Then(w, Idle) /\ orders' = orders /\ requests' = requests
    BY <1>4 DEF WritePlan
  <2>10. TypeOK'
    BY <1>3, <2>5, <2>7, <2>8, <2>9, WriteType
  <2> QED
    BY <1>1, <2>5, <2>6, <2>9, <2>10, SameVersions
<1>5. CASE InsertOrder(w)
  <2> DEFINE row == DraftOrder(w, "draft_po")
  <2>1. row \in OrderType(DOMAIN plans)
    BY <1>2, <1>5, TaskFields DEF InsertOrder, Does, DraftOrder, OrderType, OrderStatuses
  <2>2. /\ Then(w, Idle) /\ orders' = Append(orders, row)
        /\ plans' = plans /\ grants' = grants /\ recs' = recs /\ requests' = requests
    BY <1>5 DEF InsertOrder
  <2>3. orders' \in Seq(OrderType(DOMAIN plans)) /\ DOMAIN orders \subseteq DOMAIN orders'
    <3> HIDE DEF row
    <3> QED
      BY <1>3, <2>1, <2>2, Inserted
  <2>4. requests' \in Seq(RequestType(DOMAIN orders'))
    <3>1. RequestType(DOMAIN orders) \subseteq RequestType(DOMAIN orders')
      BY <2>3 DEF RequestType
    <3> QED
      BY <1>3, <2>2, <3>1, Widened
  <2>5. TypeOK'
    BY <1>3, <2>2, <2>3, <2>4, WriteType
  <2> QED
    BY <1>1, <2>2, <2>5, SameVersions
<1>6. CASE WriteOrder(w)
  <2> DEFINE o == task[w].order
             row == [orders[o] EXCEPT !.status = task[w].to]
             new == [order |-> o, status |-> "pending"]
             newest == Max(Pending(o))
             decided == [requests[newest] EXCEPT !.status = "approved"]
  <2>1. o \in DOMAIN orders /\ task[w].to \in OrderStatuses
    BY <1>2, <1>6, TaskFields DEF WriteOrder, Does
  <2>2. row \in OrderType(DOMAIN plans)
    BY <2>1, RowTypes DEF OrderType
  <2>3. /\ Then(w, Idle) /\ orders' = [orders EXCEPT ![o] = row]
        /\ plans' = plans /\ grants' = grants /\ recs' = recs
    BY <1>6 DEF WriteOrder
  <2>4. orders' \in Seq(OrderType(DOMAIN plans)) /\ DOMAIN orders' = DOMAIN orders
    <3> HIDE DEF o, row
    <3> QED
      BY <1>3, <2>2, <2>3, RowUpdated
  <2>5. \/ requests' = requests
        \/ requests' = Append(requests, new)
        \/ requests' = [requests EXCEPT ![newest] = decided]
    BY <1>6 DEF WriteOrder
  <2>6. new \in RequestType(DOMAIN orders)
    BY <2>1 DEF RequestType
  <2>7. newest \in DOMAIN requests => decided \in RequestType(DOMAIN orders)
    <3> HIDE DEF newest
    <3> QED
      BY RowTypes DEF RequestType
  <2>8. requests' \in Seq(RequestType(DOMAIN orders))
    <3> HIDE DEF new, newest, decided
    <3> QED
      BY <1>3, <2>5, <2>6, <2>7, RowUpdated, Inserted
  <2>9. TypeOK'
    <3> HIDE DEF row
    <3> QED
      BY <1>3, <2>3, <2>4, <2>8, WriteType
  <2> QED
    BY <1>1, <2>3, <2>9, SameVersions
<1> QED
  BY <1>4, <1>5, <1>6

\* Every step keeps the numbering.
LEMMA VersionedStep == ASSUME Versioned, [Next]_vars PROVE Versioned'
<1>1. CASE UNCHANGED vars
  <2>1. Task' = Task /\ \A n : VersionsOf(n)' = VersionsOf(n) /\ Named(n)' = Named(n)
    BY <1>1 DEF vars, tables, Task, VersionsOf, Named
  <2>2. TypeOK'
    BY <1>1, <2>1 DEF Versioned, TypeOK, vars, tables
  <2>3. VersionsCountUp'
    BY <1>1, <2>1 DEF Versioned, VersionsCountUp, vars, tables
  <2>4. NextVersions'
    BY <1>1 DEF Versioned, NextVersions, Does, Named, vars, tables
  <2> QED
    BY <2>2, <2>3, <2>4 DEF Versioned
<1>2. ASSUME NEW w \in Workers, Begin(w) \/ Continue(w) \/ Abandon(w) PROVE Versioned'
  BY <1>2, BeginVersions, InsertPlanVersions, ReadVersions, WriteVersions DEF Continue
<1> QED
  BY <1>1, <1>2 DEF Next

\* There is nothing to number at first.
LEMMA VersionedStart == Init => Versioned
<1> SUFFICES ASSUME Init PROVE Versioned
  OBVIOUS
<1>1. TypeOK
  BY DEF Init, TypeOK, Task, Idle
<1>2. VersionsCountUp
  <2>1. \A n : VersionsOf(n) = {} /\ {p \in DOMAIN plans : plans[p].name = n} = {}
    BY DEF Init, VersionsOf
  <2> QED
    BY <2>1, FS_EmptySet DEF VersionsCountUp
<1>3. NextVersions
  BY DEF Init, NextVersions, Does, Idle
<1> QED
  BY <1>1, <1>2, <1>3 DEF Versioned

\* Every table and every task keeps its type.
THEOREM PlanningTypes == Spec => []TypeOK
<1>1. Versioned => TypeOK
  BY DEF Versioned
<1> QED
  BY <1>1, VersionedStart, VersionedStep, PTL DEF Spec

\* Each name's versions are 1, 2, 3, ..., whoever writes them.
THEOREM VersionsInOrder == Spec => []VersionsCountUp
<1>1. Versioned => VersionsCountUp
  BY DEF Versioned
<1> QED
  BY <1>1, VersionedStart, VersionedStep, PTL DEF Spec

-----------------------------------------------------------------------------
(* Recommendations and what is written back of them *)

\* The recommendations a scenario has after some number of its approvals.
ApprovedTimes(p, k) == [x \in Products |-> IF x \in plans[p].results THEN k ELSE 0]
WritesBack(p, lines) ==
    plans[p].results # {} /\ \E k \in 1..grants[p] : lines = ApprovedTimes(p, k)

\* What is on an order, or about to be, is what some approval left.
WriteBack ==
    /\ \A p \in DOMAIN plans : recs[p] = ApprovedTimes(p, grants[p])
    /\ \A o \in DOMAIN orders : WritesBack(orders[o].plan, orders[o].lines)
    /\ \A w \in Workers :
           task[w].op \in {"find", "insert"} => WritesBack(task[w].plan, task[w].lines)

Acts(w) == Begin(w) \/ Continue(w) \/ Abandon(w)

\* A scenario keeps what it recommends, and its approvals are never taken back.
LEMMA ApprovalsGrow ==
    ASSUME Versioned, NEW w \in Workers, Acts(w), NEW p \in DOMAIN plans
    PROVE  /\ p \in DOMAIN plans' /\ plans'[p].results = plans[p].results
           /\ grants[p] \in Nat /\ grants'[p] \in Nat /\ grants'[p] >= grants[p]
<1>1. /\ plans \in Seq(PlanType) /\ grants \in Seq(Nat) /\ DOMAIN grants = DOMAIN plans
      /\ plans[p] \in PlanType /\ grants[p] \in Nat
  BY RowTypes DEF Versioned, TypeOK, PlanType
<1>2. CASE plans' = plans /\ grants' = grants
  BY <1>1, <1>2
<1>3. CASE InsertPlan(w)
  <2> DEFINE new == [name |-> task[w].name, version |-> task[w].version,
                     status |-> "draft", results |-> task[w].results]
  <2>1. plans' = Append(plans, new) /\ grants' = Append(grants, 0)
    BY <1>3 DEF InsertPlan
  <2>2. p \in DOMAIN plans' /\ plans'[p] = plans[p] /\ grants'[p] = grants[p]
    <3> HIDE DEF new
    <3> QED
      BY <1>1, <2>1
  <2> QED
    BY <1>1, <2>2
<1>4. CASE WritePlan(w)
  <2> DEFINE q == task[w].plan
  <2>1. plans' = [plans EXCEPT ![q].status = task[w].to]
    BY <1>4 DEF WritePlan
  <2>2. grants' = grants \/ grants' = [grants EXCEPT ![q] = @ + 1]
    BY <1>4 DEF WritePlan
  <2>3. p \in DOMAIN plans' /\ plans'[p].results = plans[p].results
    BY <1>1, <2>1 DEF PlanType
  <2>4. grants'[p] = grants[p] \/ grants'[p] = grants[p] + 1
    BY <1>1, <2>2
  <2> QED
    BY <1>1, <2>3, <2>4
<1> QED
  BY <1>2, <1>3, <1>4
  DEF Acts, Begin, Continue, ReadVersion, ReadPlan, ReadApproved, ReadOrder, ReadRecommendations,
      FindOrder, Abandon, InsertOrder, WriteOrder, tables

\* So what an approval left stays something an approval left.
LEMMA WriteBackLasts ==
    ASSUME Versioned, NEW w \in Workers, Acts(w), NEW p \in DOMAIN plans, NEW lines,
           WritesBack(p, lines)
    PROVE  WritesBack(p, lines)'
<1>1. /\ plans'[p].results = plans[p].results
      /\ grants[p] \in Nat /\ grants'[p] \in Nat /\ grants'[p] >= grants[p]
  BY ApprovalsGrow
<1>2. PICK k \in 1..grants[p] : lines = ApprovedTimes(p, k)
  BY DEF WritesBack
<1>3. k \in 1..grants'[p]
  BY <1>1, <1>2
<1>4. lines = [x \in Products |-> IF x \in plans'[p].results THEN k ELSE 0]
  BY <1>1, <1>2 DEF ApprovedTimes
<1> QED
  BY <1>1, <1>3, <1>4 DEF WritesBack, ApprovedTimes

\* Recommendations are written only with an approval, whole.
LEMMA RecommendationsStep ==
    ASSUME Versioned, WriteBack, NEW w \in Workers, Acts(w), NEW p \in DOMAIN plans'
    PROVE  recs'[p] = [x \in Products |-> IF x \in plans'[p].results THEN grants'[p] ELSE 0]
<1>1. /\ plans \in Seq(PlanType) /\ grants \in Seq(Nat) /\ recs \in Seq(Lines)
      /\ DOMAIN grants = DOMAIN plans /\ DOMAIN recs = DOMAIN plans
  BY DEF Versioned, TypeOK, PlanType
<1>2. \A q \in DOMAIN plans : /\ plans[q] \in PlanType /\ grants[q] \in Nat
                              /\ recs[q] = ApprovedTimes(q, grants[q])
  BY RowTypes DEF Versioned, WriteBack
<1>3. CASE plans' = plans /\ grants' = grants /\ recs' = recs
  BY <1>2, <1>3 DEF ApprovedTimes
<1>4. CASE InsertPlan(w)
  <2> DEFINE new == [name |-> task[w].name, version |-> task[w].version,
                     status |-> "draft", results |-> task[w].results]
  <2>1. /\ plans' = Append(plans, new) /\ grants' = Append(grants, 0)
        /\ recs' = Append(recs, NoLines)
    BY <1>4 DEF InsertPlan
  <2>2. Len(grants) = Len(plans) /\ Len(recs) = Len(plans)
    BY <1>1
  <2>3. CASE p \in DOMAIN plans
    <3>1. plans'[p] = plans[p] /\ grants'[p] = grants[p] /\ recs'[p] = recs[p]
      <4> HIDE DEF new
      <4> QED
        BY <1>1, <2>1, <2>3
    <3> QED
      BY <1>2, <2>3, <3>1 DEF ApprovedTimes
  <2>4. CASE p \notin DOMAIN plans
    <3>1. p = Len(plans) + 1
      <4> HIDE DEF new
      <4> QED
        BY <1>1, <2>1, <2>4
    <3>2. grants'[p] = 0 /\ recs'[p] = NoLines
      BY <1>1, <2>1, <2>2, <3>1
    <3> QED
      BY <3>2 DEF NoLines
  <2> QED
    BY <2>3, <2>4
<1>5. CASE WritePlan(w)
  <2> DEFINE q == task[w].plan
  <2>1. plans' = [plans EXCEPT ![q].status = task[w].to]
    BY <1>5 DEF WritePlan
  <2>2. p \in DOMAIN plans /\ plans'[p].results = plans[p].results
    BY <1>1, <1>2, <2>1 DEF PlanType
  <2>3. CASE grants'[p] = grants[p] /\ recs'[p] = recs[p]
    BY <1>2, <2>2, <2>3 DEF ApprovedTimes
  <2>4. CASE p = q /\ grants'[p] = grants[p] + 1 /\ recs'[p] = WithResults(q)
    <3>1. \A x \in Products : recs[p][x] = IF x \in plans[p].results THEN grants[p] ELSE 0
      BY <1>2, <2>2 DEF ApprovedTimes
    <3> QED
      BY <1>2, <2>2, <2>4, <3>1 DEF WithResults
  <2>5. \/ grants' = grants /\ recs' = recs
        \/ grants' = [grants EXCEPT ![q] = @ + 1] /\ recs' = [recs EXCEPT ![q] = WithResults(q)]
    BY <1>5 DEF WritePlan
  <2> QED
    BY <1>1, <2>2, <2>3, <2>4, <2>5
<1> QED
  BY <1>3, <1>4, <1>5
  DEF Acts, Begin, Continue, ReadVersion, ReadPlan, ReadApproved, ReadOrder, ReadRecommendations,
      FindOrder, Abandon, InsertOrder, WriteOrder, tables

\* An order takes the lines its request has read, and keeps them.
LEMMA OrderLinesStep ==
    ASSUME Versioned, WriteBack, NEW w \in Workers, Acts(w), NEW o \in DOMAIN orders',
           NEW p, p = orders'[o].plan, NEW lines, lines = orders'[o].lines
    PROVE  WritesBack(p, lines)'
<1>1. /\ orders \in Seq(OrderType(DOMAIN plans))
      /\ \A q \in DOMAIN orders : /\ orders[q].plan \in DOMAIN plans
                                  /\ WritesBack(orders[q].plan, orders[q].lines)
  BY RowTypes DEF Versioned, TypeOK, OrderType, WriteBack
<1>2. SUFFICES p \in DOMAIN plans /\ WritesBack(p, lines)
  BY WriteBackLasts
<1>3. CASE orders' = orders
  BY <1>1, <1>3
<1>4. CASE InsertOrder(w)
  <2> DEFINE row == DraftOrder(w, "draft_po")
  <2>1. task[w] \in Task /\ task[w].op = "insert"
    BY <1>4 DEF InsertOrder, Does, Versioned, TypeOK
  <2>2. row.plan \in DOMAIN plans /\ WritesBack(row.plan, row.lines)
    BY <2>1, TaskFields DEF DraftOrder, WriteBack
  <2>3. orders' = Append(orders, row)
    BY <1>4 DEF InsertOrder
  <2>4. (o \in DOMAIN orders /\ orders'[o] = orders[o]) \/ orders'[o] = row
    <3> HIDE DEF row
    <3> QED
      BY <1>1, <2>3
  <2> HIDE DEF row
  <2> QED
    BY <1>1, <2>2, <2>4
<1>5. CASE WriteOrder(w)
  <2>1. orders' = [orders EXCEPT ![task[w].order].status = task[w].to]
    BY <1>5 DEF WriteOrder
  <2>2. /\ o \in DOMAIN orders
        /\ orders'[o].plan = orders[o].plan /\ orders'[o].lines = orders[o].lines
    BY <1>1, <2>1, RowTypes DEF OrderType, Versioned
  <2> QED
    BY <1>1, <2>2
<1> QED
  BY <1>3, <1>4, <1>5
  DEF Acts, Begin, Continue, ReadVersion, ReadPlan, ReadApproved, ReadOrder, ReadRecommendations,
      FindOrder, Abandon, InsertPlan, WritePlan, tables

\* A request that goes on to write has read recommendations, and not none.
LEMMA TaskLinesStep ==
    ASSUME Versioned, WriteBack, NEW w \in Workers, Acts(w), NEW v \in Workers,
           NEW t, t = task'[v], t.op \in {"find", "insert"}
    PROVE  WritesBack(t.plan, t.lines)'
<1>1. task \in [Workers -> Task]
  BY DEF Versioned, TypeOK
<1>2. SUFFICES t.plan \in DOMAIN plans /\ WritesBack(t.plan, t.lines)
  BY WriteBackLasts
<1>3. CASE t = task[v]
  BY <1>1, <1>3, TaskFields DEF WriteBack
<1>4. CASE v = w /\ ReadRecommendations(w)
  <2> DEFINE p == task[w].plan
  <2>1. p \in DOMAIN plans
    BY <1>1, <1>4, TaskFields DEF ReadRecommendations, Does
  <2>2. task[w].op = "read" /\ recs[p] # NoLines /\ t.plan = p /\ t.lines = recs[p]
    BY <1>1, <1>4 DEF ReadRecommendations, Then, Does, Idle
  <2>3. recs[p] = ApprovedTimes(p, grants[p]) /\ grants[p] \in Nat
    BY <2>1, RowTypes DEF WriteBack, Versioned
  <2>4. plans[p].results # {} /\ grants[p] # 0
    BY <2>2, <2>3 DEF ApprovedTimes, NoLines
  <2>5. grants[p] \in 1..grants[p]
    BY <2>3, <2>4
  <2> HIDE DEF p
  <2> QED
    BY <2>1, <2>2, <2>3, <2>4, <2>5 DEF WritesBack
<1>5. CASE v = w /\ FindOrder(w)
  <2>1. task[w].op = "find" /\ t = [task[w] EXCEPT !.op = "insert"]
    BY <1>1, <1>5 DEF FindOrder, Then, Does, Idle
  <2>2. t.plan = task[w].plan /\ t.lines = task[w].lines
    BY <1>1, <2>1 DEF Task
  <2> QED
    BY <1>1, <2>1, <2>2, TaskFields DEF WriteBack
<1>6. PICK x : task' = [task EXCEPT ![w] = x]
  BY DEF Acts, Begin, Continue, ReadVersion, ReadPlan, ReadApproved, ReadOrder, ReadRecommendations,
         FindOrder, Abandon, InsertPlan, WritePlan, InsertOrder, WriteOrder, Then
<1>7. CASE v # w
  BY <1>1, <1>3, <1>6, <1>7
<1>8. CASE v = w
  <2>1. ASSUME NEW y, Then(w, y) PROVE t = y
    BY <1>1, <1>8, <2>1 DEF Then
  <2>2. ~ Begin(w)
    <3>1. ASSUME NEW n, NEW results, ReadVersion(w, n, results) PROVE t.op = "create"
      BY <2>1, <3>1 DEF ReadVersion
    <3>2. ASSUME NEW p, NEW to, ReadPlan(w, p, to) PROVE t.op = "move"
      BY <2>1, <3>2 DEF ReadPlan
    <3>3. ASSUME NEW p, ReadApproved(w, p) PROVE t.op = "read"
      BY <2>1, <3>3 DEF ReadApproved
    <3>4. ASSUME NEW o, NEW to, ReadOrder(w, o, to) PROVE t.op = "advance"
      BY <2>1, <3>4 DEF ReadOrder
    <3> QED
      BY <3>1, <3>2, <3>3, <3>4 DEF Begin
  <2>3. ~ (Abandon(w) \/ InsertPlan(w) \/ WritePlan(w) \/ InsertOrder(w) \/ WriteOrder(w))
    BY <1>1, <1>8 DEF Abandon, InsertPlan, WritePlan, InsertOrder, WriteOrder, Then, Idle
  <2> QED
    BY <1>4, <1>5, <1>8, <2>2, <2>3 DEF Acts, Continue
<1> QED
  BY <1>7, <1>8

\* Every step keeps what is written back in line with the approvals.
LEMMA WriteBackStep == ASSUME Versioned, WriteBack, [Next]_vars PROVE WriteBack'
<1>1. CASE UNCHANGED vars
  BY <1>1 DEF WriteBack, WritesBack, ApprovedTimes, vars, tables
<1>2. ASSUME NEW w \in Workers, Acts(w) PROVE WriteBack'
  <2>1. \A p \in DOMAIN plans' :
            recs'[p] = [x \in Products |-> IF x \in plans'[p].results THEN grants'[p] ELSE 0]
    BY <1>2, RecommendationsStep
  <2>2. ASSUME NEW o \in DOMAIN orders', NEW p, p = orders'[o].plan,
               NEW lines, lines = orders'[o].lines
        PROVE  WritesBack(p, lines)'
    BY <1>2, <2>2, OrderLinesStep
  <2>3. ASSUME NEW v \in Workers, NEW t, t = task'[v], t.op \in {"find", "insert"}
        PROVE  WritesBack(t.plan, t.lines)'
    BY <1>2, <2>3, TaskLinesStep
  <2>4. (\A p \in DOMAIN plans : recs[p] = ApprovedTimes(p, grants[p]))'
    BY <2>1 DEF ApprovedTimes
  <2>5. (\A o \in DOMAIN orders : WritesBack(orders[o].plan, orders[o].lines))'
    BY <2>2 DEF WritesBack, ApprovedTimes
  <2>6. (\A v \in Workers :
             task[v].op \in {"find", "insert"} => WritesBack(task[v].plan, task[v].lines))'
    BY <2>3 DEF WritesBack, ApprovedTimes
  <2> QED
    BY <2>4, <2>5, <2>6 DEF WriteBack
<1> QED
  BY <1>1, <1>2 DEF Next, Acts

\* Nothing is written back at first.
LEMMA WriteBackStart == Init => WriteBack
  BY DEF Init, WriteBack, Idle

\* However decisions race, recommendations are there exactly as often as their scenario
\* was approved, and all of them.
THEOREM RecommendationsFollowApprovals == Spec => []RecommendationsAreApproved
<1>1. WriteBack => RecommendationsAreApproved
  BY DEF WriteBack, RecommendationsAreApproved, ApprovedTimes
<1> QED
  BY <1>1, VersionedStart, VersionedStep, WriteBackStart, WriteBackStep, PTL DEF Spec

\* However write-backs race with decisions, no order is empty, in part, or of a scenario
\* nobody approved.
THEOREM OrdersFollowApprovals == Spec => []OrdersWriteBackApprovals
<1>1. WriteBack => OrdersWriteBackApprovals
  BY DEF WriteBack, WritesBack, OrdersWriteBackApprovals, ApprovedTimes
<1> QED
  BY <1>1, VersionedStart, VersionedStep, WriteBackStart, WriteBackStep, PTL DEF Spec

\* No scenario is about to be decided by two requests at a time: nothing in the code sees
\* to it, and two approvals at once add its recommendations twice.
PlansApart == \A w, v \in Workers :
    Does(w, "move") /\ Does(v, "move") /\ task[w].plan = task[v].plan => w = v

\* Then a decision is of a scenario that still waits for it.
DecisionHolds(w) == Does(w, "move") => <<plans[task[w].plan].status, task[w].to>> \in PlanTransitions

\* A scenario is approved once, and its recommendations are there once.
ApprovedOnce == \A p \in DOMAIN plans :
    /\ grants[p] = IF plans[p].status = "approved" THEN 1 ELSE 0
    /\ recs[p] = [x \in Products |-> IF plans[p].status = "approved" /\ x \in plans[p].results THEN 1 ELSE 0]

\* An order has each recommendation of its scenario once.
OrdersHoldOne == \A o \in DOMAIN orders :
    orders[o].lines = [x \in Products |-> IF x \in plans[orders[o].plan].results THEN 1 ELSE 0]

GrantedOnce == \A p \in DOMAIN plans : grants[p] = IF plans[p].status = "approved" THEN 1 ELSE 0
DecidedInTurn == GrantedOnce /\ \A w \in Workers : DecisionHolds(w)

\* A step that leaves the scenarios alone keeps what others are about to decide.
LEMMA DecisionsStay ==
    ASSUME Versioned, DecidedInTurn, UNCHANGED <<plans, grants>>, NEW w \in Workers, NEW t, Then(w, t),
           t.op = "move" => <<plans[t.plan].status, t.to>> \in PlanTransitions
    PROVE  DecidedInTurn'
<1>1. task'[w] = t /\ \A v \in Workers \ {w} : task'[v] = task[v]
  BY DEF Then, Versioned, TypeOK
<1>2. GrantedOnce'
  BY DEF DecidedInTurn, GrantedOnce
<1>3. ASSUME NEW v \in Workers PROVE DecisionHolds(v)'
  <2>1. CASE v = w
    BY <1>1, <2>1 DEF DecisionHolds, Does
  <2>2. CASE v # w
    BY <1>1, <2>2 DEF DecidedInTurn, DecisionHolds, Does
  <2> QED
    BY <2>1, <2>2
<1> QED
  BY <1>2, <1>3 DEF DecidedInTurn

\* A new scenario is a draft nobody approved.
LEMMA InsertDecided == ASSUME Versioned, DecidedInTurn, NEW w \in Workers, InsertPlan(w) PROVE DecidedInTurn'
<1> DEFINE new == [name |-> task[w].name, version |-> task[w].version,
                   status |-> "draft", results |-> task[w].results]
<1>1. /\ plans \in Seq(PlanType) /\ grants \in Seq(Nat) /\ DOMAIN grants = DOMAIN plans
      /\ task \in [Workers -> Task]
  BY DEF Versioned, TypeOK, PlanType
<1>2. /\ plans' = Append(plans, new) /\ grants' = Append(grants, 0) /\ task' = [task EXCEPT ![w] = Idle]
      /\ new.status = "draft"
  BY DEF InsertPlan, Then
<1> HIDE DEF new
<1>3. \A q \in DOMAIN plans : q \in DOMAIN plans' /\ plans'[q] = plans[q] /\ grants'[q] = grants[q]
  BY <1>1, <1>2
<1>4. ASSUME NEW q \in DOMAIN plans', q \notin DOMAIN plans PROVE plans'[q].status = "draft" /\ grants'[q] = 0
  <2>1. Len(grants) = Len(plans)
    BY <1>1
  <2>2. q = Len(plans) + 1
    BY <1>1, <1>2, <1>4
  <2> QED
    BY <1>1, <1>2, <2>1, <2>2
<1>5. GrantedOnce'
  BY <1>3, <1>4 DEF DecidedInTurn, GrantedOnce
<1>6. ASSUME NEW v \in Workers PROVE DecisionHolds(v)'
  <2> SUFFICES ASSUME task'[v].op = "move"
               PROVE  <<plans'[task'[v].plan].status, task'[v].to>> \in PlanTransitions
    BY DEF DecisionHolds, Does
  <2>1. task'[v] = task[v]
    BY <1>1, <1>2 DEF Idle
  <2>2. task[v].op = "move" /\ task[v].plan \in DOMAIN plans
    BY <1>1, <2>1, TaskFields
  <2> QED
    BY <1>3, <2>1, <2>2 DEF DecidedInTurn, DecisionHolds, Does
<1> QED
  BY <1>5, <1>6 DEF DecidedInTurn

\* A decision is the only one there is, and moves the scenario from where it is.
LEMMA WriteDecided ==
    ASSUME Versioned, PlansApart, DecidedInTurn, NEW w \in Workers, WritePlan(w) PROVE DecidedInTurn'
<1> DEFINE p == task[w].plan
           to == task[w].to
<1>1. /\ plans \in Seq(PlanType) /\ grants \in Seq(Nat) /\ DOMAIN grants = DOMAIN plans
      /\ task \in [Workers -> Task]
  BY DEF Versioned, TypeOK, PlanType
<1>2. Does(w, "move") /\ p \in DOMAIN plans /\ <<plans[p].status, to>> \in PlanTransitions
  BY <1>1, TaskFields DEF WritePlan, Does, DecidedInTurn, DecisionHolds
<1>3. /\ plans' = [plans EXCEPT ![p].status = to]
      /\ grants' = IF to = "approved" THEN [grants EXCEPT ![p] = @ + 1] ELSE grants
      /\ task' = [task EXCEPT ![w] = Idle]
  BY DEF WritePlan, Then
<1>4. plans[p] \in PlanType /\ grants[p] \in Nat
  BY <1>2, RowTypes DEF Versioned
<1> HIDE DEF p, to
<1>5. /\ plans'[p].status = to /\ grants'[p] = IF to = "approved" THEN grants[p] + 1 ELSE grants[p]
      /\ \A q \in DOMAIN plans \ {p} : plans'[q] = plans[q] /\ grants'[q] = grants[q]
      /\ DOMAIN plans' = DOMAIN plans
  BY <1>1, <1>2, <1>3, <1>4 DEF PlanType
<1>6. plans[p].status # "approved" /\ grants[p] = 0
  BY <1>2 DEF PlanTransitions, DecidedInTurn, GrantedOnce
<1>7. GrantedOnce'
  BY <1>5, <1>6 DEF DecidedInTurn, GrantedOnce
<1>8. ASSUME NEW v \in Workers PROVE DecisionHolds(v)'
  <2> SUFFICES ASSUME task'[v].op = "move"
               PROVE  <<plans'[task'[v].plan].status, task'[v].to>> \in PlanTransitions
    BY DEF DecisionHolds, Does
  <2>1. v # w /\ task'[v] = task[v]
    BY <1>1, <1>3 DEF Idle
  <2>2. Does(v, "move") /\ task[v].plan \in DOMAIN plans
    BY <1>1, <2>1, TaskFields DEF Does
  <2>3. task[v].plan # p
    BY <1>2, <2>1, <2>2 DEF PlansApart, p
  <2> QED
    BY <1>5, <2>1, <2>2, <2>3 DEF DecidedInTurn, DecisionHolds
<1> QED
  BY <1>7, <1>8 DEF DecidedInTurn

\* Every step keeps that, as long as no scenario is decided by two.
LEMMA DecidedStep ==
    ASSUME Versioned, PlansApart, DecidedInTurn, [Next]_vars PROVE DecidedInTurn'
<1>1. CASE UNCHANGED vars
  BY <1>1 DEF vars, tables, DecidedInTurn, GrantedOnce, DecisionHolds, Does
<1>2. ASSUME NEW w \in Workers, NEW n \in Names, NEW results \in SUBSET Products, ReadVersion(w, n, results)
      PROVE  DecidedInTurn'
  <2> DEFINE t == [op |-> "create", name |-> n, results |-> results, version |-> Max(VersionsOf(n) \cup {0}) + 1]
  <2>1. Then(w, t) /\ t.op # "move" /\ UNCHANGED <<plans, grants>>
    BY <1>2 DEF ReadVersion, tables
  <2> HIDE DEF t
  <2> QED
    BY <2>1, DecisionsStay
<1>3. ASSUME NEW w \in Workers, NEW p \in DOMAIN plans, NEW to \in PlanStatuses, ReadPlan(w, p, to)
      PROVE  DecidedInTurn'
  <2> DEFINE t == [op |-> "move", plan |-> p, to |-> to]
  <2>1. Then(w, t) /\ t.plan = p /\ t.to = to /\ UNCHANGED <<plans, grants>>
    BY <1>3 DEF ReadPlan, tables
  <2>2. <<plans[p].status, to>> \in PlanTransitions
    BY <1>3 DEF ReadPlan
  <2> HIDE DEF t
  <2> QED
    BY <2>1, <2>2, DecisionsStay
<1>4. ASSUME NEW w \in Workers,
             (\E p \in DOMAIN plans : ReadApproved(w, p)) \/ ReadRecommendations(w) \/ FindOrder(w)
                \/ InsertOrder(w) \/ WriteOrder(w) \/ Abandon(w)
                \/ (\E o \in DOMAIN orders, to \in OrderStatuses : ReadOrder(w, o, to))
      PROVE  DecidedInTurn'
  <2>1. UNCHANGED <<plans, grants>>
    BY <1>4 DEF ReadApproved, ReadRecommendations, FindOrder, InsertOrder, WriteOrder, Abandon, ReadOrder, tables
  <2>2. \E t : Then(w, t) /\ t.op # "move"
    <3>1. ASSUME NEW p, Then(w, [op |-> "read", plan |-> p]) PROVE \E t : Then(w, t) /\ t.op # "move"
      <4>1. [op |-> "read", plan |-> p].op # "move"
        OBVIOUS
      <4> QED
        BY <3>1, <4>1
    <3>2. ASSUME NEW o, NEW to, Then(w, [op |-> "advance", order |-> o, to |-> to])
          PROVE  \E t : Then(w, t) /\ t.op # "move"
      <4>1. [op |-> "advance", order |-> o, to |-> to].op # "move"
        OBVIOUS
      <4> QED
        BY <3>2, <4>1
    <3>3. ASSUME NEW p, NEW l, Then(w, [op |-> "find", plan |-> p, lines |-> l])
          PROVE  \E t : Then(w, t) /\ t.op # "move"
      <4>1. [op |-> "find", plan |-> p, lines |-> l].op # "move"
        OBVIOUS
      <4> QED
        BY <3>3, <4>1
    <3>4. ASSUME Does(w, "find"), Then(w, [task[w] EXCEPT !.op = "insert"])
          PROVE  \E t : Then(w, t) /\ t.op # "move"
      <4>1. [task[w] EXCEPT !.op = "insert"].op # "move"
        BY <3>4 DEF Does, Versioned, TypeOK, Task
      <4> QED
        BY <3>4, <4>1
    <3>5. Idle.op # "move"
      BY DEF Idle
    <3> QED
      BY <1>4, <3>1, <3>2, <3>3, <3>4, <3>5
         DEF ReadApproved, ReadRecommendations, FindOrder, InsertOrder, WriteOrder, Abandon, ReadOrder
  <2> QED
    BY <2>1, <2>2, DecisionsStay
<1> QED
  BY <1>1, <1>2, <1>3, <1>4, InsertDecided, WriteDecided DEF Next, Begin, Continue

\* While no two requests are about to decide one scenario, it is approved at most once,
\* and neither its recommendations nor an order of it counts one twice (transition_scenario).
THEOREM RecommendationsAreSingle ==
    Spec /\ []PlansApart => []ApprovedOnce /\ []OrdersHoldOne
<1>1. Init => DecidedInTurn
  BY DEF Init, DecidedInTurn, GrantedOnce, DecisionHolds, Does, Idle
<1>2. Versioned /\ WriteBack /\ DecidedInTurn => ApprovedOnce
  <2> SUFFICES ASSUME WriteBack, DecidedInTurn, NEW p \in DOMAIN plans
               PROVE  /\ grants[p] = IF plans[p].status = "approved" THEN 1 ELSE 0
                      /\ recs[p] = [x \in Products |->
                            IF plans[p].status = "approved" /\ x \in plans[p].results THEN 1 ELSE 0]
    BY DEF ApprovedOnce
  <2>1. grants[p] = IF plans[p].status = "approved" THEN 1 ELSE 0
    BY DEF DecidedInTurn, GrantedOnce
  <2>2. recs[p] = [x \in Products |-> IF x \in plans[p].results THEN grants[p] ELSE 0]
    BY DEF WriteBack, ApprovedTimes
  <2> QED
    BY <2>1, <2>2
<1>3. Versioned /\ WriteBack /\ DecidedInTurn => OrdersHoldOne
  <2> SUFFICES ASSUME Versioned, WriteBack, DecidedInTurn, NEW o \in DOMAIN orders
               PROVE  orders[o].lines = [x \in Products |-> IF x \in plans[orders[o].plan].results THEN 1 ELSE 0]
    BY DEF OrdersHoldOne
  <2>1. PICK p \in DOMAIN plans : p = orders[o].plan
    BY RowTypes DEF Versioned, OrderType
  <2>2. WritesBack(p, orders[o].lines)
    BY <2>1 DEF WriteBack
  <2>3. PICK k \in 1..grants[p] : orders[o].lines = ApprovedTimes(p, k)
    BY <2>2 DEF WritesBack
  <2>4. grants[p] \in {0, 1}
    BY DEF DecidedInTurn, GrantedOnce
  <2>5. k = 1
    BY <2>3, <2>4
  <2> QED
    BY <2>1, <2>3, <2>5 DEF ApprovedTimes
<1> QED
  BY <1>1, <1>2, <1>3, VersionedStart, VersionedStep, WriteBackStart, WriteBackStep, DecidedStep, PTL DEF Spec

-----------------------------------------------------------------------------
(* Orders and the requests that decide them *)

\* The index on an order's source holds back every second order of a scenario.
LEMMA OneOrderStep ==
    ASSUME Versioned, OneOrderPerPlan, [Next]_vars PROVE OneOrderPerPlan'
<1>1. /\ orders \in Seq(OrderType(DOMAIN plans))
      /\ \A o \in DOMAIN orders : orders[o] \in OrderType(DOMAIN plans)
  BY RowTypes DEF Versioned, TypeOK, OrderType
<1>2. CASE orders' = orders
  BY <1>2 DEF OneOrderPerPlan
<1>3. ASSUME NEW w \in Workers, InsertOrder(w) PROVE OneOrderPerPlan'
  <2> DEFINE row == DraftOrder(w, "draft_po")
  <2>1. orders' = Append(orders, row)
    BY <1>3 DEF InsertOrder
  <2>2. \A o \in DOMAIN orders : orders[o].plan # row.plan
    BY <1>3 DEF InsertOrder, OrdersOf, DraftOrder
  <2>3. \A o \in DOMAIN orders' : \/ o \in DOMAIN orders /\ orders'[o] = orders[o]
                                  \/ o = Len(orders) + 1 /\ orders'[o] = row
    <3> HIDE DEF row
    <3> QED
      BY <1>1, <2>1
  <2> HIDE DEF row
  <2> QED
    BY <2>2, <2>3 DEF OneOrderPerPlan
<1>4. ASSUME NEW w \in Workers, WriteOrder(w) PROVE OneOrderPerPlan'
  <2>1. orders' = [orders EXCEPT ![task[w].order].status = task[w].to]
    BY <1>4 DEF WriteOrder
  <2>2. DOMAIN orders' = DOMAIN orders /\ \A o \in DOMAIN orders : orders'[o].plan = orders[o].plan
    BY <1>1, <2>1 DEF OrderType
  <2> QED
    BY <2>2 DEF OneOrderPerPlan
<1> QED
  BY <1>2, <1>3, <1>4
  DEF Next, Begin, Continue, ReadVersion, ReadPlan, ReadApproved, ReadOrder, ReadRecommendations,
      FindOrder, Abandon, InsertPlan, WritePlan, vars, tables

\* Write-back is idempotent, however often and from wherever it is asked for.
THEOREM WriteBackIsIdempotent == Spec => []OneOrderPerPlan
<1>1. Init => OneOrderPerPlan
  BY DEF Init, OneOrderPerPlan
<1> QED
  BY <1>1, VersionedStart, VersionedStep, OneOrderStep, PTL DEF Spec

Undecided == {"requisition", "draft_po", "pending_approval", "cancelled"}
Asked(o) == \E i \in DOMAIN requests : requests[i].order = o
Granted(o) == [order |-> o, status |-> "approved"] \in Range(requests)

\* A move that a worker is about to write was legal when it was read: an approval of an
\* order somebody has asked to approve, or a move on of one that is approved.
Decisions ==
    /\ OrdersAreDecided
    /\ \A w \in Workers : task[w].op = "advance" =>
           /\ task[w].to = "approved" => Asked(task[w].order)
           /\ task[w].to \notin Undecided \cup {"approved"} => Granted(task[w].order)

\* What a transition does to the requests.
LEMMA RequestWritten ==
    ASSUME Versioned, NEW w \in Workers, WriteOrder(w), NEW o, o = task[w].order
    PROVE  \/ /\ requests' = requests /\ task[w].to # "pending_approval"
              /\ task[w].to = "approved" => Pending(o) = {}
           \/ /\ requests' = Append(requests, [order |-> o, status |-> "pending"])
              /\ task[w].to = "pending_approval"
           \/ /\ task[w].to = "approved"
              /\ \E m \in Pending(o) :
                     requests' = [requests EXCEPT ![m] = [order |-> o, status |-> "approved"]]
<1>1. CASE task[w].to = "approved" /\ Pending(o) # {}
  <2> DEFINE m == Max(Pending(o))
  <2>1. Pending(o) \in SUBSET (1..Len(requests)) /\ Len(requests) \in Nat
    BY DEF Pending, Versioned, TypeOK
  <2>2. m \in Pending(o)
    BY <1>1, <2>1, Newest
  <2>3. requests[m] = [order |-> o, status |-> "pending"] /\ m \in DOMAIN requests
    BY <2>2 DEF Pending
  <2>4. requests' = [requests EXCEPT ![m].status = "approved"]
    BY <1>1 DEF WriteOrder
  <2>5. [requests[m] EXCEPT !.status = "approved"] = [order |-> o, status |-> "approved"]
    BY <2>3
  <2>6. requests' = [requests EXCEPT ![m] = [order |-> o, status |-> "approved"]]
    BY <2>4, <2>5
  <2> QED
    BY <1>1, <2>2, <2>6
<1>2. CASE ~ (task[w].to = "approved" /\ Pending(o) # {})
  BY <1>2 DEF WriteOrder
<1> QED
  BY <1>1, <1>2

\* Requests are never withdrawn, approvals never taken back, and only a transition of
\* an order decides its requests.
LEMMA RequestsStep ==
    ASSUME Versioned, NEW w \in Workers, Acts(w), NEW q
    PROVE  /\ Asked(q) => Asked(q)'
           /\ Granted(q) => Granted(q)'
           /\ Pending(q) # {} /\ ~ (WriteOrder(w) /\ task[w].order = q) => Pending(q)' # {}
<1>1. requests \in Seq(RequestType(DOMAIN orders))
  BY DEF Versioned, TypeOK, RequestType
<1>2. CASE requests' = requests
  BY <1>2 DEF Asked, Granted, Range, Pending
<1>3. CASE WriteOrder(w) /\ requests' # requests
  <2> DEFINE o == task[w].order
             new == [order |-> o, status |-> "pending"]
             yes == [order |-> o, status |-> "approved"]
  <2>1. \/ requests' = Append(requests, new)
        \/ \E m \in Pending(o) : requests' = [requests EXCEPT ![m] = yes]
    BY <1>3, RequestWritten
  <2>2. CASE requests' = Append(requests, new)
    <3>1. \A i \in DOMAIN requests : i \in DOMAIN requests' /\ requests'[i] = requests[i]
      <4> HIDE DEF new
      <4> QED
        BY <1>1, <2>2
    <3> QED
      BY <3>1 DEF Asked, Granted, Range, Pending
  <2>3. ASSUME NEW m \in Pending(o), requests' = [requests EXCEPT ![m] = yes]
        PROVE  /\ Asked(q) => Asked(q)'
               /\ Granted(q) => Granted(q)'
               /\ Pending(q) # {} /\ o # q => Pending(q)' # {}
    <3>1. m \in DOMAIN requests /\ requests[m] = new
      BY DEF Pending
    <3>2. DOMAIN requests' = DOMAIN requests /\ requests'[m] = yes
      BY <1>1, <2>3, <3>1
    <3>3. \A i \in DOMAIN requests \ {m} : requests'[i] = requests[i]
      BY <1>1, <2>3
    <3>4. Asked(q) => Asked(q)'
      BY <3>1, <3>2, <3>3 DEF Asked
    <3>5. Granted(q) => Granted(q)'
      BY <3>1, <3>2, <3>3 DEF Granted, Range
    <3>6. Pending(q) # {} /\ o # q => Pending(q)' # {}
      BY <3>1, <3>2, <3>3 DEF Pending
    <3> QED
      BY <3>4, <3>5, <3>6
  <2> QED
    BY <1>3, <2>1, <2>2, <2>3
<1> QED
  BY <1>2, <1>3
  DEF Acts, Begin, Continue, ReadVersion, ReadPlan, ReadApproved, ReadOrder, ReadRecommendations,
      FindOrder, Abandon, InsertPlan, WritePlan, InsertOrder, tables

\* A transition leaves the order where its requests let it be.
LEMMA WrittenOrder ==
    ASSUME Versioned, Decisions, NEW w \in Workers, WriteOrder(w), NEW o, o = task[w].order
    PROVE  /\ task[w].to = "pending_approval" => Pending(o)' # {}
           /\ task[w].to \notin Undecided => Granted(o)'
<1>1. task[w] \in Task /\ task[w].op = "advance"
  BY DEF WriteOrder, Does, Versioned, TypeOK
<1>2. requests \in Seq(RequestType(DOMAIN orders)) /\ Acts(w)
  BY DEF Versioned, TypeOK, RequestType, Acts, Continue
<1>3. ASSUME task[w].to = "pending_approval" PROVE Pending(o)' # {}
  <2> DEFINE new == [order |-> o, status |-> "pending"]
  <2>1. requests' = Append(requests, new)
    BY <1>3, RequestWritten
  <2>2. Len(requests) + 1 \in DOMAIN requests' /\ requests'[Len(requests) + 1] = new
    <3> HIDE DEF new
    <3> QED
      BY <1>2, <2>1
  <2> QED
    BY <2>2 DEF Pending
<1>4. ASSUME task[w].to \notin Undecided \cup {"approved"} PROVE Granted(o)'
  <2>1. Granted(o)
    BY <1>1, <1>4 DEF Decisions
  <2> QED
    BY <1>2, <2>1, RequestsStep
<1>5. ASSUME task[w].to = "approved" PROVE Granted(o)'
  <2> DEFINE yes == [order |-> o, status |-> "approved"]
  <2>1. CASE requests' = requests /\ Pending(o) = {}
    <3>1. Asked(o)
      BY <1>1, <1>5 DEF Decisions
    <3>2. PICK i \in DOMAIN requests : requests[i].order = o
      BY <3>1 DEF Asked
    <3>3. requests[i] \in RequestType(DOMAIN orders)
      BY RowTypes DEF Versioned
    <3>4. requests[i].status # "pending"
      <4>1. SUFFICES ASSUME requests[i].status = "pending" PROVE FALSE
        OBVIOUS
      <4>2. requests[i] = [order |-> o, status |-> "pending"]
        BY <3>2, <3>3, <4>1 DEF RequestType
      <4> QED
        BY <2>1, <4>2 DEF Pending
    <3>5. requests[i] = yes
      BY <3>2, <3>3, <3>4 DEF RequestType
    <3>6. Granted(o)
      BY <3>5 DEF Granted, Range
    <3> QED
      BY <1>2, <3>6, RequestsStep
  <2>2. CASE \E m \in Pending(o) : requests' = [requests EXCEPT ![m] = yes]
    <3>1. PICK m \in Pending(o) : requests' = [requests EXCEPT ![m] = yes]
      BY <2>2
    <3>2. m \in DOMAIN requests' /\ requests'[m] = yes
      BY <1>2, <3>1 DEF Pending
    <3> QED
      BY <3>2 DEF Granted, Range
  <2> QED
    BY <1>5, <2>1, <2>2, RequestWritten
<1> QED
  BY <1>3, <1>4, <1>5

\* Every order is decided after a step as it was before, or by the step.
LEMMA OrdersDecidedStep ==
    ASSUME Versioned, Decisions, NEW w \in Workers, Acts(w), NEW o \in DOMAIN orders'
    PROVE  /\ orders'[o].status = "pending_approval" => Pending(o)' # {}
           /\ orders'[o].status \notin Undecided => Granted(o)'
<1>1. /\ orders \in Seq(OrderType(DOMAIN plans))
      /\ \A q \in DOMAIN orders : orders[q] \in OrderType(DOMAIN plans)
  BY RowTypes DEF Versioned, TypeOK, OrderType
<1>2. \A q \in DOMAIN orders : /\ orders[q].status = "pending_approval" => Pending(q) # {}
                               /\ orders[q].status \notin Undecided => Granted(q)
  BY DEF Decisions, OrdersAreDecided, Undecided, Granted
<1>3. CASE WriteOrder(w) /\ task[w].order = o
  <2>1. orders' = [orders EXCEPT ![o].status = task[w].to]
    BY <1>3 DEF WriteOrder
  <2>2. orders'[o].status = task[w].to
    BY <1>1, <2>1 DEF OrderType
  <2> QED
    BY <1>3, <2>2, WrittenOrder
<1>4. CASE ~ (WriteOrder(w) /\ task[w].order = o) /\ o \in DOMAIN orders /\ orders'[o] = orders[o]
  BY <1>2, <1>4, RequestsStep
<1>5. CASE orders'[o].status = "draft_po"
  BY <1>5 DEF Undecided
<1>6. CASE orders' = orders /\ ~ WriteOrder(w)
  BY <1>4, <1>6
<1>7. CASE WriteOrder(w) /\ task[w].order # o
  <2>1. orders' = [orders EXCEPT ![task[w].order].status = task[w].to]
    BY <1>7 DEF WriteOrder
  <2>2. o \in DOMAIN orders /\ orders'[o] = orders[o]
    BY <1>1, <1>7, <2>1
  <2> QED
    BY <1>4, <1>7, <2>2
<1>8. CASE InsertOrder(w)
  <2> DEFINE row == DraftOrder(w, "draft_po")
  <2>1. orders' = Append(orders, row) /\ row.status = "draft_po"
    BY <1>8 DEF InsertOrder, DraftOrder
  <2>2. (o \in DOMAIN orders /\ orders'[o] = orders[o]) \/ orders'[o] = row
    <3> HIDE DEF row
    <3> QED
      BY <1>1, <2>1
  <2>3. ~ WriteOrder(w)
    BY <1>8 DEF InsertOrder, WriteOrder, Does
  <2> QED
    BY <1>4, <1>5, <2>1, <2>2, <2>3
<1>9. orders' = orders \/ WriteOrder(w) \/ InsertOrder(w)
  BY DEF Acts, Begin, Continue, ReadVersion, ReadPlan, ReadApproved, ReadOrder, ReadRecommendations,
         FindOrder, Abandon, InsertPlan, WritePlan, tables
<1> QED
  BY <1>3, <1>6, <1>7, <1>8, <1>9

\* An order moves to a status past approval only from one, and to "approved" only
\* from where approval was asked for.
LEMMA MovesNeedDecisions ==
    ASSUME NEW s \in OrderStatuses, NEW to \in OrderMoves(s)
    PROVE  /\ to = "approved" => s = "pending_approval"
           /\ to \notin Undecided \cup {"approved"} => s \notin Undecided
  BY DEF OrderMoves, OrderStatuses, Undecided

\* A move that is read is one the requests allow, and stays one.
LEMMA MovesDecidedStep ==
    ASSUME Versioned, Decisions, NEW w \in Workers, Acts(w), NEW v \in Workers,
           NEW t, t = task'[v], t.op = "advance"
    PROVE  /\ t.to = "approved" => Asked(t.order)'
           /\ t.to \notin Undecided \cup {"approved"} => Granted(t.order)'
<1>1. task \in [Workers -> Task]
  BY DEF Versioned, TypeOK
<1>2. SUFFICES /\ t.to = "approved" => Asked(t.order)
               /\ t.to \notin Undecided \cup {"approved"} => Granted(t.order)
  BY RequestsStep
<1>3. CASE t = task[v]
  BY <1>3 DEF Decisions
<1>4. ASSUME v = w, NEW o \in DOMAIN orders, NEW to \in OrderStatuses, ReadOrder(w, o, to)
      PROVE  /\ t.to = "approved" => Asked(t.order)
             /\ t.to \notin Undecided \cup {"approved"} => Granted(t.order)
  <2>1. t = [op |-> "advance", order |-> o, to |-> to] /\ to \in OrderMoves(orders[o].status)
    BY <1>1, <1>4 DEF ReadOrder, Then
  <2>2. orders[o].status \in OrderStatuses
    BY RowTypes DEF Versioned, OrderType
  <2>3. /\ to = "approved" => orders[o].status = "pending_approval"
        /\ to \notin Undecided \cup {"approved"} => orders[o].status \notin Undecided
    BY <2>1, <2>2, MovesNeedDecisions
  <2>4. /\ orders[o].status = "pending_approval" => Pending(o) # {}
        /\ orders[o].status \notin Undecided => Granted(o)
    BY DEF Decisions, OrdersAreDecided, Undecided, Granted
  <2>5. Pending(o) # {} => Asked(o)
    BY DEF Pending, Asked
  <2> QED
    BY <2>1, <2>3, <2>4, <2>5
<1>5. PICK x : task' = [task EXCEPT ![w] = x]
  BY DEF Acts, Begin, Continue, ReadVersion, ReadPlan, ReadApproved, ReadOrder, ReadRecommendations,
         FindOrder, Abandon, InsertPlan, WritePlan, InsertOrder, WriteOrder, Then
<1>6. CASE v # w
  BY <1>1, <1>3, <1>5, <1>6
<1>7. CASE v = w
  <2>1. ASSUME NEW y, Then(w, y) PROVE t = y
    BY <1>1, <1>7, <2>1 DEF Then
  <2>2. CASE Begin(w)
    <3>1. ASSUME NEW n, NEW results, ReadVersion(w, n, results) PROVE t.op = "create"
      BY <2>1, <3>1 DEF ReadVersion
    <3>2. ASSUME NEW p, NEW to, ReadPlan(w, p, to) PROVE t.op = "move"
      BY <2>1, <3>2 DEF ReadPlan
    <3>3. ASSUME NEW p, ReadApproved(w, p) PROVE t.op = "read"
      BY <2>1, <3>3 DEF ReadApproved
    <3> QED
      BY <1>4, <1>7, <2>2, <3>1, <3>2, <3>3 DEF Begin
  <2>3. Idle.op # "advance"
    BY DEF Idle
  <2>4. ~ ReadRecommendations(w)
    BY <2>1, <2>3 DEF ReadRecommendations
  <2>5. ~ FindOrder(w)
    <3>1. FindOrder(w) => [task[w] EXCEPT !.op = "insert"].op = "insert"
      BY <1>1, TaskFields DEF FindOrder, Does, Task
    <3> QED
      BY <2>1, <2>3, <3>1 DEF FindOrder
  <2>6. ~ (Abandon(w) \/ InsertPlan(w) \/ WritePlan(w) \/ InsertOrder(w) \/ WriteOrder(w))
    BY <2>1, <2>3 DEF Abandon, InsertPlan, WritePlan, InsertOrder, WriteOrder
  <2> QED
    BY <2>2, <2>4, <2>5, <2>6 DEF Acts, Continue
<1> QED
  BY <1>6, <1>7

\* Every step keeps the orders and the moves decided.
LEMMA DecisionsStep == ASSUME Versioned, Decisions, [Next]_vars PROVE Decisions'
<1>1. CASE UNCHANGED vars
  BY <1>1 DEF Decisions, OrdersAreDecided, Asked, Granted, Pending, vars, tables
<1>2. ASSUME NEW w \in Workers, Acts(w) PROVE Decisions'
  <2>1. \A o \in DOMAIN orders' :
            /\ orders'[o].status = "pending_approval" => Pending(o)' # {}
            /\ orders'[o].status \notin Undecided => Granted(o)'
    BY <1>2, OrdersDecidedStep
  <2>2. OrdersAreDecided'
    BY <2>1 DEF OrdersAreDecided, Undecided, Granted, Pending
  <2>3. ASSUME NEW v \in Workers, NEW t, t = task'[v], t.op = "advance"
        PROVE  /\ t.to = "approved" => Asked(t.order)'
               /\ t.to \notin Undecided \cup {"approved"} => Granted(t.order)'
    BY <1>2, <2>3, MovesDecidedStep
  <2>4. (\A v \in Workers : task[v].op = "advance" =>
             /\ task[v].to = "approved" => Asked(task[v].order)
             /\ task[v].to \notin Undecided \cup {"approved"} => Granted(task[v].order))'
    BY <2>3 DEF Asked, Granted
  <2> QED
    BY <2>2, <2>4 DEF Decisions
<1> QED
  BY <1>1, <1>2 DEF Next, Acts

\* No order is approved, or past it, but by a request of its own, and none waits for an
\* approval nobody can give.
THEOREM OrdersNeedDecisions == Spec => []OrdersAreDecided
<1>1. Init => Decisions
  BY DEF Init, Decisions, OrdersAreDecided, Idle
<1>2. Decisions => OrdersAreDecided
  BY DEF Decisions
<1> QED
  BY <1>1, <1>2, VersionedStart, VersionedStep, DecisionsStep, PTL DEF Spec

-----------------------------------------------------------------------------
(* Corrective actions *)

HadBy(a) == {events[a][n][2] : n \in DOMAIN events[a]}
EventType == (CorrectiveStatuses \cup {"none"}) \X CorrectiveStatuses

\* A stored action is where some event put it, and its stamps follow its status.
ActionOK(a) ==
    /\ action[a].status = "none" => events[a] = <<>> /\ action[a] = NoAction
    /\ action[a].status # "none" => action[a].status \in HadBy(a)
    /\ action[a].status \in {"approved", "resolved"} => action[a].approvedAt
    /\ action[a].status = "resolved" => action[a].resolvedAt
    /\ action[a].resolvedAt <=> measured[a] # <<>>
    /\ measured[a] = <<>> => action[a].outcome = NoOutcome
    /\ measured[a] # <<>> => \A x \in Columns :
           \E n \in DOMAIN measured[a] : measured[a][n][x] = action[a].outcome[x]
    /\ Len(measured[a]) = 1 => action[a].outcome = measured[a][1]

\* What a request has read was so at some time, and what lasts of it still is.
ClerkOK(c) ==
    clerk[c] # Away =>
        LET a == clerk[c].action  seen == clerk[c].seen IN
        /\ action[a].status # "none"
        /\ <<seen.status, clerk[c].to>> \in CorrectiveMoves
        /\ seen.status \in HadBy(a)
        /\ seen.status = "approved" => action[a].approvedAt
        /\ measured[a] = <<>> => seen.outcome = NoOutcome

ActionInv == /\ ActionTypeOK
             /\ \A a \in Actions : ActionOK(a)
             /\ \A c \in Clerks : ClerkOK(c)

\* What no write takes back.
Onward(a) == /\ HadBy(a) \subseteq HadBy(a)'
             /\ action[a].status # "none" => action'[a].status # "none"
             /\ action[a].approvedAt => action'[a].approvedAt
             /\ measured[a] # <<>> => measured'[a] # <<>>

\* Nothing is stored at first.
LEMMA ActionStart == ActionInit => ActionInv
BY OutcomeAssumption
   DEF ActionInit, ActionInv, ActionTypeOK, ActionOK, ClerkOK, ClerkWork, Away, NoAction, HadBy

\* A request at work has a stored action, and what it writes fits it.
LEMMA ClerkHas ==
    ASSUME ActionInv, NEW c \in Clerks, clerk[c] # Away
    PROVE  /\ clerk[c].action \in Actions /\ clerk[c].seen \in ActionRow
           /\ clerk[c].to \in CorrectiveStatuses
           /\ action[clerk[c].action] \in ActionRow
           /\ clerk[c].does = "measure" => clerk[c].to = "resolved" /\ clerk[c].outcome = NoOutcome
           /\ clerk[c].does = "write" => IF clerk[c].to = "resolved" THEN clerk[c].outcome \in Outcomes
                                         ELSE clerk[c].outcome = NoOutcome
           /\ clerk[c].outcome \in [Columns -> ColumnValues]
<1>1. clerk[c] \in ClerkWork
  BY DEF ActionInv, ActionTypeOK
<1>2. clerk[c].action \in Actions /\ clerk[c].seen \in ActionRow /\ clerk[c].to \in CorrectiveStatuses
  BY <1>1 DEF ClerkWork, Away, CorrectiveStatuses
<1>3. action[clerk[c].action].status # "none" /\ action[clerk[c].action] \in ActionRow \cup {NoAction}
  BY <1>2 DEF ActionInv, ActionTypeOK, ClerkOK
<1>4. action[clerk[c].action] \in ActionRow
  BY <1>3 DEF NoAction
<1>5. NoOutcome \in [Columns -> ColumnValues]
  BY DEF NoOutcome, ColumnValues
<1> QED
  BY <1>1, <1>2, <1>4, <1>5, OutcomeAssumption DEF ClerkWork, Away

\* A request that does not move stays true while the rows go onward.
LEMMA ClerksLast ==
    ASSUME ActionInv, NEW c \in Clerks, clerk'[c] = clerk[c], \A a \in Actions : Onward(a)
    PROVE  ClerkOK(c)'
<1> SUFFICES ASSUME clerk[c] # Away PROVE ClerkOK(c)'
  BY DEF ClerkOK
<1>1. PICK a \in Actions : a = clerk[c].action
  BY ClerkHas
<1>2. ClerkOK(c) /\ Onward(a)
  BY DEF ActionInv
<1>3. HadBy(clerk[c].action)' = HadBy(a)'
  BY <1>1 DEF HadBy
<1> QED
  BY <1>1, <1>2, <1>3 DEF ClerkOK, Onward

\* Rows that stay as they are go onward and stay true.
LEMMA RowsStay ==
    ASSUME ActionInv, NEW a \in Actions,
           action'[a] = action[a], events'[a] = events[a], measured'[a] = measured[a]
    PROVE  Onward(a) /\ ActionOK(a)'
BY DEF Onward, ActionInv, ActionOK, HadBy

\* A move that is logged leaves what was logged before.
LEMMA EventAdded ==
    ASSUME ActionInv, NEW a \in Actions, NEW from \in CorrectiveStatuses \cup {"none"},
           NEW to \in CorrectiveStatuses, events' = [events EXCEPT ![a] = Append(@, <<from, to>>)]
    PROVE  /\ events'[a] \in Seq(EventType)
           /\ HadBy(a) \subseteq HadBy(a)' /\ to \in HadBy(a)'
           /\ HadBy(a)' = HadBy(a) \cup {to}
<1> DEFINE x == <<from, to>>
<1>1. x \in EventType /\ x[2] = to
  BY DEF EventType
<1>2. events[a] \in Seq(EventType) /\ events'[a] = Append(events[a], x)
  BY DEF ActionInv, ActionTypeOK, EventType
<1> HIDE DEF x
<1>3. PICK s \in Seq(EventType), y \in EventType : s = events[a] /\ y = x
  BY <1>1, <1>2
<1>4. /\ Append(s, y) \in Seq(EventType)
      /\ DOMAIN Append(s, y) = DOMAIN s \cup {Len(s) + 1}
      /\ \A i \in DOMAIN s : Append(s, y)[i] = s[i]
      /\ Append(s, y)[Len(s) + 1] = y
  BY Inserted
<1>5. events'[a] = Append(s, y) /\ events[a] = s /\ y[2] = to
  BY <1>1, <1>2, <1>3
<1>6. HadBy(a) = {s[n][2] : n \in DOMAIN s} /\ HadBy(a)' = {Append(s, y)[n][2] : n \in DOMAIN Append(s, y)}
  BY <1>5 DEF HadBy
<1>7. HadBy(a)' = HadBy(a) \cup {to}
  BY <1>4, <1>5, <1>6
<1> QED
  BY <1>4, <1>5, <1>7

\* An action is created open, with its event.
LEMMA CreateKeeps == ASSUME ActionInv, NEW a \in Actions, CreateAction(a) PROVE ActionInv'
<1>1. action[a] = NoAction /\ events[a] \in Seq(EventType)
  BY DEF CreateAction, ActionInv, ActionTypeOK, EventType
<1>2. action'[a] = [NoAction EXCEPT !.status = "open"] /\ events'[a] = << <<"none", "open">> >>
  BY <1>1 DEF CreateAction, ActionInv, ActionTypeOK
<1>3. << <<"none", "open">> >> \in Seq(EventType)
  BY DEF EventType, CorrectiveStatuses
<1>4. ActionTypeOK'
  <2>1. action'[a] \in ActionRow
    BY <1>2 DEF NoAction, ActionRow, CorrectiveStatuses, NoOutcome, ColumnValues
  <2> QED
    BY <1>2, <1>3, <2>1 DEF ActionInv, ActionTypeOK, CreateAction, EventType
<1>5. events[a] = <<>> /\ measured[a] = <<>> /\ measured' = measured
  BY <1>1 DEF ActionInv, ActionOK, NoAction, CreateAction
<1>6. Onward(a)
  BY <1>1, <1>2, <1>5 DEF Onward, NoAction, HadBy
<1>7. ActionOK(a)'
  <2>1. "open" \in HadBy(a)'
    BY <1>2 DEF HadBy
  <2>2. measured'[a] = <<>> /\ Len(measured'[a]) # 1
    BY <1>5
  <2>3. /\ action'[a].status = "open" /\ ~ action'[a].resolvedAt
        /\ action'[a].outcome = NoOutcome
    BY <1>2 DEF NoAction
  <2> QED
    BY <2>1, <2>2, <2>3 DEF ActionOK
<1>8. ASSUME NEW b \in Actions \ {a} PROVE Onward(b) /\ ActionOK(b)'
  BY RowsStay DEF CreateAction, ActionInv, ActionTypeOK
<1>9. ASSUME NEW c \in Clerks PROVE ClerkOK(c)'
  BY <1>6, <1>8, ClerksLast DEF CreateAction
<1> QED
  BY <1>4, <1>7, <1>8, <1>9 DEF ActionInv

\* A step of one request that stores nothing keeps the rest.
LEMMA ClerkSteps ==
    ASSUME ActionInv, UNCHANGED actionTables, NEW c \in Clerks, NEW work \in ClerkWork, Steps(c, work), ClerkOK(c)'
    PROVE  ActionInv'
<1>1. ActionTypeOK'
  BY DEF ActionInv, ActionTypeOK, Steps, actionTables
<1>2. \A a \in Actions : Onward(a) /\ ActionOK(a)'
  BY RowsStay DEF actionTables
<1>3. ASSUME NEW d \in Clerks \ {c} PROVE ClerkOK(d)'
  BY <1>2, ClerksLast DEF Steps, ActionInv, ActionTypeOK
<1> QED
  BY <1>1, <1>2, <1>3 DEF ActionInv

\* A request reads an action and checks its move.
LEMMA ReadKeeps ==
    ASSUME ActionInv, NEW c \in Clerks, NEW a \in Actions, NEW to \in CorrectiveStatuses, ReadAction(c, a, to)
    PROVE  ActionInv'
<1> DEFINE work == [does |-> IF to = "resolved" THEN "measure" ELSE "write",
                    action |-> a, seen |-> action[a], to |-> to, outcome |-> NoOutcome]
<1>1. action[a].status # "none" /\ action[a] \in ActionRow
  BY DEF ReadAction, CorrectiveMoves, ActionInv, ActionTypeOK, NoAction
<1>2. work \in ClerkWork
  BY <1>1 DEF ClerkWork
<1>3. Steps(c, work) /\ UNCHANGED actionTables /\ clerk'[c] = work
  BY DEF ReadAction, Steps, ActionInv, ActionTypeOK
<1>4. ActionOK(a)
  BY DEF ActionInv
<1>5. HadBy(a)' = HadBy(a) /\ action' = action /\ measured' = measured
  BY <1>3 DEF HadBy, actionTables
<1>6. work.action = a /\ work.seen = action[a] /\ work.to = to
  OBVIOUS
<1> HIDE DEF work
<1>7. HadBy(clerk[c].action)' = HadBy(a)
  BY <1>3, <1>5, <1>6 DEF HadBy
<1>8. ClerkOK(c)'
  BY <1>1, <1>3, <1>4, <1>5, <1>6, <1>7 DEF ClerkOK, ActionOK, ReadAction
<1> QED
  BY <1>2, <1>3, <1>8, ClerkSteps

\* A measurement answers, or a request gives up.
LEMMA MeasureKeeps ==
    ASSUME ActionInv, NEW c \in Clerks, NEW o \in Outcomes, Measure(c, o)
    PROVE  ActionInv'
<1> DEFINE work == [clerk[c] EXCEPT !.does = "write", !.outcome = o]
<1>1. clerk[c] \in ClerkWork /\ clerk[c].does = "measure" /\ clerk[c] # Away
  BY DEF Measure, AtWork, ActionInv, ActionTypeOK, Away
<1>2. work \in ClerkWork /\ work.action = clerk[c].action /\ work.seen = clerk[c].seen /\ work.to = clerk[c].to
  BY <1>1 DEF ClerkWork
<1>3. Steps(c, work) /\ UNCHANGED actionTables /\ clerk'[c] = work
  BY DEF Measure, Steps, ActionInv, ActionTypeOK
<1> HIDE DEF work
<1>4. HadBy(clerk[c].action)' = HadBy(clerk[c].action)
  BY <1>2, <1>3 DEF HadBy, actionTables
<1>5. ClerkOK(c)'
  BY <1>1, <1>2, <1>3, <1>4 DEF ClerkOK, ActionInv, actionTables
<1> QED
  BY <1>2, <1>3, <1>5, ClerkSteps

\* A request that gives up stores nothing.
LEMMA LeaveKeeps == ASSUME ActionInv, NEW c \in Clerks, LeaveAction(c) PROVE ActionInv'
<1>1. Away \in ClerkWork /\ Steps(c, Away) /\ UNCHANGED actionTables /\ clerk'[c] = Away
  BY DEF LeaveAction, ClerkWork, Away, Steps, ActionInv, ActionTypeOK
<1>2. ClerkOK(c)'
  BY <1>1 DEF ClerkOK
<1> QED
  BY <1>1, <1>2, ClerkSteps

\* An UPDATE writes columns of an outcome over an outcome.
LEMMA OutcomeColumns ==
    ASSUME NEW stored \in [Columns -> ColumnValues], NEW seen, NEW o \in [Columns -> ColumnValues]
    PROVE  /\ UpdatedOutcome(stored, seen, o) \in [Columns -> ColumnValues]
           /\ stored = seen => UpdatedOutcome(stored, seen, o) = o
BY DEF UpdatedOutcome

\* After one more resolution every column is of some resolution, and all of them are of
\* the first one if there was none before.
LEMMA ColumnsMeasured ==
    ASSUME NEW stored \in [Columns -> ColumnValues], NEW seen \in [Columns -> ColumnValues],
           NEW ms \in Seq(Outcomes), NEW o \in Outcomes,
           ms = <<>> => stored = NoOutcome /\ seen = NoOutcome,
           ms # <<>> => \A x \in Columns : \E n \in DOMAIN ms : ms[n][x] = stored[x]
    PROVE  /\ \A x \in Columns : \E n \in DOMAIN Append(ms, o) : Append(ms, o)[n][x] = UpdatedOutcome(stored, seen, o)[x]
           /\ Len(Append(ms, o)) = 1 => UpdatedOutcome(stored, seen, o) = Append(ms, o)[1]
<1>1. /\ DOMAIN Append(ms, o) = DOMAIN ms \cup {Len(ms) + 1}
      /\ \A n \in DOMAIN ms : Append(ms, o)[n] = ms[n]
      /\ Append(ms, o)[Len(ms) + 1] = o
  BY Inserted
<1>2. o \in [Columns -> ColumnValues]
  BY OutcomeAssumption
<1>3. CASE ms = <<>>
  <2>1. UpdatedOutcome(stored, seen, o) = o
    BY <1>2, <1>3, OutcomeColumns
  <2>2. Append(ms, o)[1] = o /\ 1 \in DOMAIN Append(ms, o)
    BY <1>1, <1>3
  <2> QED
    BY <2>1, <2>2
<1>4. CASE ms # <<>>
  <2>1. Len(Append(ms, o)) # 1
    BY <1>4
  <2>2. ASSUME NEW x \in Columns
        PROVE  \E n \in DOMAIN Append(ms, o) : Append(ms, o)[n][x] = UpdatedOutcome(stored, seen, o)[x]
    <3>1. UpdatedOutcome(stored, seen, o)[x] \in {stored[x], o[x]}
      BY DEF UpdatedOutcome
    <3>2. PICK n \in DOMAIN ms : ms[n][x] = stored[x]
      BY <1>4
    <3> QED
      BY <1>1, <3>1, <3>2
  <2> QED
    BY <2>1, <2>2
<1> QED
  BY <1>3, <1>4

\* A write moves the row from where it is by now, and stamps and outcomes add up.
LEMMA WriteKeeps == ASSUME ActionInv, NEW c \in Clerks, WriteAction(c) PROVE ActionInv'
<1>1. PICK a \in Actions : a = clerk[c].action
  BY ClerkHas DEF WriteAction, AtWork, Away
<1>0. clerk[c].seen \in ActionRow /\ clerk[c].to \in CorrectiveStatuses /\ clerk[c].outcome \in [Columns -> ColumnValues]
  BY ClerkHas DEF WriteAction, AtWork, Away
<1>2. PICK seen \in ActionRow, to \in CorrectiveStatuses, o \in [Columns -> ColumnValues] :
         seen = clerk[c].seen /\ to = clerk[c].to /\ o = clerk[c].outcome
  BY <1>0
<1>3. action[a] \in ActionRow /\ (IF to = "resolved" THEN o \in Outcomes ELSE o = NoOutcome)
  BY <1>1, <1>2, ClerkHas DEF WriteAction, AtWork, Away
<1>4. /\ action' = [action EXCEPT ![a] = UpdatedAction(@, seen, to, o)]
      /\ events' = [events EXCEPT ![a] = Append(@, <<seen.status, to>>)]
      /\ measured' = IF to = "resolved" THEN [measured EXCEPT ![a] = Append(@, o)] ELSE measured
      /\ Steps(c, Away)
  BY <1>1, <1>2 DEF WriteAction
<1>5. ClerkOK(c) /\ ActionOK(a) /\ clerk[c] # Away
  BY DEF ActionInv, WriteAction, AtWork, Away
<1>6. /\ seen.status = "approved" => action[a].approvedAt
      /\ measured[a] = <<>> => seen.outcome = NoOutcome
      /\ <<seen.status, to>> \in CorrectiveMoves
  BY <1>1, <1>2, <1>5 DEF ClerkOK
<1>7. action'[a] = UpdatedAction(action[a], seen, to, o) /\ \A b \in Actions \ {a} : action'[b] = action[b]
  BY <1>4 DEF ActionInv, ActionTypeOK
<1>8. /\ action'[a].status = to
      /\ action'[a].approvedAt = (action[a].approvedAt \/ to = "approved")
      /\ action'[a].resolvedAt = (action[a].resolvedAt \/ to = "resolved")
      /\ action'[a].outcome = IF to = "resolved" THEN UpdatedOutcome(action[a].outcome, seen.outcome, o)
                              ELSE action[a].outcome
      /\ action'[a] \in ActionRow
  <2>1. PICK row \in ActionRow : row = action[a]
    BY <1>3
  <2>2. seen.outcome \in [Columns -> ColumnValues] /\ row.outcome \in [Columns -> ColumnValues]
    BY <2>1 DEF ActionRow
  <2>3. PICK p \in [Columns -> ColumnValues] : p = UpdatedOutcome(row.outcome, seen.outcome, o)
    BY <2>2, OutcomeColumns
  <2>4. action'[a] = [row EXCEPT !.status = to, !.approvedAt = @ \/ to = "approved",
                                 !.outcome = IF to = "resolved" THEN p ELSE @,
                                 !.resolvedAt = @ \/ to = "resolved"]
    BY <1>7, <2>1, <2>3 DEF UpdatedAction
  <2> QED
    BY <2>1, <2>3, <2>4 DEF ActionRow
<1>9. events'[a] \in Seq(EventType) /\ HadBy(a) \subseteq HadBy(a)' /\ to \in HadBy(a)'
  BY <1>4, EventAdded DEF ActionRow
<1>10. /\ measured'[a] \in Seq(Outcomes)
       /\ \A n \in DOMAIN measured[a] : n \in DOMAIN measured'[a] /\ measured'[a][n] = measured[a][n]
       /\ to = "resolved" => measured'[a] = Append(measured[a], o) /\ measured'[a] # <<>>
                             /\ Len(measured'[a]) \in DOMAIN measured'[a] /\ measured'[a][Len(measured'[a])] = o
       /\ to # "resolved" => measured'[a] = measured[a]
  <2>1. measured[a] \in Seq(Outcomes)
    BY DEF ActionInv, ActionTypeOK
  <2>2. CASE to = "resolved"
    <3>1. measured'[a] = Append(measured[a], o) /\ o \in Outcomes
      BY <1>3, <1>4, <2>2 DEF ActionInv, ActionTypeOK
    <3>2. PICK ms \in Seq(Outcomes) : ms = measured[a]
      BY <2>1
    <3>3. /\ Append(ms, o) \in Seq(Outcomes) /\ Len(Append(ms, o)) = Len(ms) + 1 /\ Append(ms, o) # <<>>
          /\ DOMAIN Append(ms, o) = DOMAIN ms \cup {Len(ms) + 1}
          /\ \A n \in DOMAIN ms : Append(ms, o)[n] = ms[n]
          /\ Append(ms, o)[Len(ms) + 1] = o
      BY <3>1, Inserted
    <3> QED
      BY <2>2, <3>1, <3>2, <3>3
  <2>3. CASE to # "resolved"
    BY <1>4, <2>1, <2>3
  <2> QED
    BY <2>2, <2>3
<1>11. \A b \in Actions \ {a} : events'[b] = events[b] /\ measured'[b] = measured[b]
  BY <1>4 DEF ActionInv, ActionTypeOK
<1>12. ActionTypeOK'
  <2>1. clerk' \in [Clerks -> ClerkWork]
    BY <1>4 DEF Steps, ActionInv, ActionTypeOK, ClerkWork, Away
  <2>2. action' \in [Actions -> ActionRow \cup {NoAction}]
    BY <1>4, <1>7, <1>8 DEF ActionInv, ActionTypeOK
  <2>3. events' \in [Actions -> Seq(EventType)]
    BY <1>4, <1>9 DEF ActionInv, ActionTypeOK, EventType
  <2>4. measured' \in [Actions -> Seq(Outcomes)]
    BY <1>4, <1>10 DEF ActionInv, ActionTypeOK
  <2> QED
    BY <2>1, <2>2, <2>3, <2>4 DEF ActionTypeOK, EventType
<1>13. to # "none" /\ (to = "resolved" => seen.status = "approved" /\ action[a].approvedAt)
  BY <1>6 DEF CorrectiveMoves, CorrectiveStatuses
<1>14. to = "resolved" => measured'[a] # <<>>
  BY <1>10
<1>15. Onward(a)
  BY <1>3, <1>8, <1>9, <1>10, <1>13 DEF Onward, ActionRow
<1>16. ActionOK(a)'
  <2>1. CASE to = "resolved"
    <3>1. PICK row \in ActionRow, ms \in Seq(Outcomes) : row = action[a] /\ ms = measured[a]
      BY <1>3 DEF ActionInv, ActionTypeOK
    <3>2. action'[a].outcome = UpdatedOutcome(row.outcome, seen.outcome, o) /\ measured'[a] = Append(ms, o)
      BY <1>8, <1>10, <2>1, <3>1
    <3>3. /\ ms = <<>> => row.outcome = NoOutcome /\ seen.outcome = NoOutcome
          /\ ms # <<>> => \A x \in Columns : \E n \in DOMAIN ms : ms[n][x] = row.outcome[x]
      BY <1>5, <1>6, <3>1 DEF ActionOK
    <3>4. /\ \A x \in Columns : \E n \in DOMAIN Append(ms, o) :
                Append(ms, o)[n][x] = UpdatedOutcome(row.outcome, seen.outcome, o)[x]
          /\ Len(Append(ms, o)) = 1 => UpdatedOutcome(row.outcome, seen.outcome, o) = Append(ms, o)[1]
      <4>1. row.outcome \in [Columns -> ColumnValues] /\ seen.outcome \in [Columns -> ColumnValues] /\ o \in Outcomes
        BY <1>3, <2>1 DEF ActionRow
      <4> QED
        BY <3>3, <4>1, ColumnsMeasured
    <3>5. measured'[a] # <<>> /\ action'[a].status = "resolved" /\ action'[a].resolvedAt /\ action'[a].approvedAt
      BY <1>8, <1>10, <1>13, <2>1
    <3>6. /\ \A x \in Columns : \E n \in DOMAIN measured'[a] : measured'[a][n][x] = action'[a].outcome[x]
          /\ Len(measured'[a]) = 1 => action'[a].outcome = measured'[a][1]
      BY <3>2, <3>4
    <3>7. "resolved" \in HadBy(a)'
      BY <1>9, <2>1
    <3> QED
      BY <3>5, <3>6, <3>7 DEF ActionOK
  <2>2. CASE to # "resolved"
    <3>1. /\ action'[a].status = to /\ to \in HadBy(a)' /\ to # "none"
          /\ to = "approved" => action'[a].approvedAt
          /\ action'[a].resolvedAt = action[a].resolvedAt /\ action'[a].outcome = action[a].outcome
          /\ measured'[a] = measured[a]
      BY <1>3, <1>8, <1>9, <1>10, <1>13, <2>2 DEF ActionRow
    <3>2. /\ action[a].resolvedAt <=> measured[a] # <<>>
          /\ measured[a] = <<>> => action[a].outcome = NoOutcome
          /\ measured[a] # <<>> => \A x \in Columns :
                 \E n \in DOMAIN measured[a] : measured[a][n][x] = action[a].outcome[x]
          /\ Len(measured[a]) = 1 => action[a].outcome = measured[a][1]
      BY <1>5 DEF ActionOK
    <3>3. /\ action'[a].resolvedAt <=> measured'[a] # <<>>
          /\ measured'[a] = <<>> => action'[a].outcome = NoOutcome
          /\ measured'[a] # <<>> => \A x \in Columns :
                 \E n \in DOMAIN measured'[a] : measured'[a][n][x] = action'[a].outcome[x]
          /\ Len(measured'[a]) = 1 => action'[a].outcome = measured'[a][1]
      BY <3>1, <3>2
    <3> QED
      BY <2>2, <3>1, <3>3 DEF ActionOK
  <2> QED
    BY <2>1, <2>2
<1>17. ASSUME NEW b \in Actions \ {a} PROVE Onward(b) /\ ActionOK(b)'
  BY <1>7, <1>11, RowsStay
<1>18. ClerkOK(c)'
  BY <1>4 DEF Steps, ClerkOK, ActionInv, ActionTypeOK
<1>19. ASSUME NEW d \in Clerks \ {c} PROVE ClerkOK(d)'
  BY <1>4, <1>15, <1>17, ClerksLast DEF Steps, ActionInv, ActionTypeOK
<1> QED
  BY <1>12, <1>16, <1>17, <1>18, <1>19 DEF ActionInv

\* Every step of corrective actions keeps the invariant.
LEMMA ActionStep == ASSUME ActionInv, [ActionNext]_actionVars PROVE ActionInv'
<1>1. CASE UNCHANGED actionVars
  BY <1>1 DEF actionVars, actionTables, ActionInv, ActionTypeOK, ActionOK, ClerkOK, HadBy
<1>2. CASE ActionNext
  BY <1>2, CreateKeeps, ReadKeeps, MeasureKeeps, WriteKeeps, LeaveKeeps DEF ActionNext
<1> QED
  BY <1>1, <1>2

\* The rows, events and requests of corrective actions keep their types.
THEOREM ActionTypes == ActionSpec => []ActionTypeOK
<1>1. ActionInv => ActionTypeOK
  BY DEF ActionInv
<1> QED
  BY <1>1, ActionStart, ActionStep, PTL DEF ActionSpec

\* However requests race and however long a measurement takes, a resolved action was
\* approved, and its outcome was measured for a resolution (transition_corrective_action).
THEOREM ResolutionsAreMeasured == ActionSpec => []ResolvedIsMeasured
<1>1. ActionInv => ResolvedIsMeasured
  BY DEF ActionInv, ResolvedIsMeasured, ActionOK
<1> QED
  BY <1>1, ActionStart, ActionStep, PTL DEF ActionSpec

\* A step of a request is a move of the trail, or leaves it alone.
LEMMA ActionStepIsLogged ==
    ASSUME ActionInv, [ActionNext]_actionVars
    PROVE  [ActionTrail!Next]_<<[a \in Actions |-> action[a].status], events>>
<1> DEFINE st == [a \in Actions |-> action[a].status]
<1>1. ASSUME NEW a \in Actions, CreateAction(a) PROVE ActionTrail!Create(a)
  <2>1. action[a].status = "none" /\ events[a] = <<>>
    BY <1>1 DEF CreateAction, NoAction, ActionInv, ActionOK
  <2>a. action' = [action EXCEPT ![a].status = "open"] /\ action \in [Actions -> ActionRow \cup {NoAction}]
    BY <1>1 DEF CreateAction, ActionInv, ActionTypeOK
  <2>b. action[a] = NoAction
    BY <1>1 DEF CreateAction
  <2>c. \A b \in Actions : action'[b].status = IF b = a THEN "open" ELSE action[b].status
    BY <2>a, <2>b DEF NoAction
  <2>2. st' = [st EXCEPT ![a] = "open"]
    BY <2>c
  <2>3. events' = [events EXCEPT ![a] = Append(@, <<"none", "open">>)]
    BY <1>1, <2>1 DEF CreateAction, ActionInv, ActionTypeOK
  <2> QED
    BY <2>1, <2>2, <2>3 DEF ActionTrail!Create, ActionTrail!Logged
<1>2. ASSUME NEW c \in Clerks, WriteAction(c) PROVE ActionTrail!Next
  <2>1. PICK a \in Actions : a = clerk[c].action
    BY <1>2, ClerkHas DEF WriteAction, AtWork, Away
  <2>a. ClerkOK(c) /\ clerk[c] # Away
    BY <1>2 DEF WriteAction, AtWork, Away, ActionInv
  <2>b. <<clerk[c].seen.status, clerk[c].to>> \in CorrectiveMoves
    BY <2>a DEF ClerkOK
  <2>2. PICK m \in CorrectiveMoves : m = <<clerk[c].seen.status, clerk[c].to>>
    BY <2>b
  <2>3. m[1] \in HadBy(a)
    BY <1>2, <2>1, <2>2 DEF WriteAction, AtWork, Away, ActionInv, ClerkOK
  <2>c. action' = [action EXCEPT ![a] = UpdatedAction(@, clerk[c].seen, m[2], clerk[c].outcome)]
        /\ action \in [Actions -> ActionRow \cup {NoAction}] /\ action[a] \in ActionRow
    BY <1>2, <2>a, <2>1, <2>2, ClerkHas DEF WriteAction, ActionInv, ActionTypeOK
  <2>d. \A b \in Actions : action'[b].status = IF b = a THEN m[2] ELSE action[b].status
    BY <2>c DEF UpdatedAction, ActionRow
  <2>4. st' = [st EXCEPT ![a] = m[2]]
    BY <2>d
  <2>5. events' = [events EXCEPT ![a] = Append(@, <<m[1], m[2]>>)]
    BY <1>2, <2>1, <2>2 DEF WriteAction
  <2>6. ActionTrail!Move(a)
    BY <2>3, <2>4, <2>5 DEF ActionTrail!Move, ActionTrail!Logged, ActionTrail!Had, HadBy
  <2> QED
    BY <2>6 DEF ActionTrail!Next
<1>3. CASE UNCHANGED actionTables
  BY <1>3 DEF actionTables
<1> QED
  BY <1>1, <1>2, <1>3
     DEF ActionNext, ActionTrail!Next, actionVars, ReadAction, Measure, LeaveAction

\* Every race of requests leaves a trail of legal moves that ends in the status.
THEOREM ActionsLeaveATrail == ActionSpec => ImplementsActionTrail
<1>1. ActionInit => ActionTrail!Init
  BY DEF ActionInit, NoAction, ActionTrail!Init
<1> QED
  BY <1>1, ActionStart, ActionStep, ActionStepIsLogged, PTL
     DEF ActionSpec, ImplementsActionTrail, ActionTrail!Spec

\* A write leaves the other actions alone.
LEMMA OthersUnwritten ==
    ASSUME ActionInv, NEW c \in Clerks, WriteAction(c), NEW b \in Actions, b # clerk[c].action
    PROVE  action'[b] = action[b] /\ events'[b] = events[b] /\ measured'[b] = measured[b]
BY DEF WriteAction, ActionInv, ActionTypeOK

\* What a write does to its action, which was read before it.
LEMMA ActionWritten ==
    ASSUME ActionInv, NEW c \in Clerks, WriteAction(c), NEW a, a = clerk[c].action
    PROVE  /\ a \in Actions /\ clerk[c] # Away /\ action[a].status # "none"
           /\ <<clerk[c].seen.status, clerk[c].to>> \in CorrectiveMoves
           /\ clerk[c].seen.status \in HadBy(a) /\ HadBy(a)' = HadBy(a) \cup {clerk[c].to}
           /\ action'[a].status = clerk[c].to
           /\ action'[a].outcome = IF clerk[c].to # "resolved" THEN action[a].outcome
                                   ELSE UpdatedOutcome(action[a].outcome, clerk[c].seen.outcome, clerk[c].outcome)
           /\ measured'[a] = IF clerk[c].to = "resolved" THEN Append(measured[a], clerk[c].outcome)
                             ELSE measured[a]
           /\ clerk' = [clerk EXCEPT ![c] = Away]
<1>1. clerk[c] # Away /\ ClerkOK(c)
  BY DEF WriteAction, AtWork, Away, ActionInv
<1>2. a \in Actions /\ clerk[c].to \in CorrectiveStatuses /\ clerk[c].seen \in ActionRow /\ action[a] \in ActionRow
  BY <1>1, ClerkHas
<1>3. /\ action' = [action EXCEPT ![a] = UpdatedAction(@, clerk[c].seen, clerk[c].to, clerk[c].outcome)]
      /\ events' = [events EXCEPT ![a] = Append(@, <<clerk[c].seen.status, clerk[c].to>>)]
      /\ measured' = IF clerk[c].to = "resolved" THEN [measured EXCEPT ![a] = Append(@, clerk[c].outcome)]
                     ELSE measured
      /\ clerk' = [clerk EXCEPT ![c] = Away]
  BY DEF WriteAction, Steps
<1>4. HadBy(a)' = HadBy(a) \cup {clerk[c].to}
  BY <1>2, <1>3, EventAdded DEF ActionRow
<1>5. /\ action'[a] = UpdatedAction(action[a], clerk[c].seen, clerk[c].to, clerk[c].outcome)
      /\ measured'[a] = IF clerk[c].to = "resolved" THEN Append(measured[a], clerk[c].outcome) ELSE measured[a]
  BY <1>2, <1>3 DEF ActionInv, ActionTypeOK
<1>6. /\ action'[a].status = clerk[c].to
      /\ action'[a].outcome = IF clerk[c].to # "resolved" THEN action[a].outcome
                              ELSE UpdatedOutcome(action[a].outcome, clerk[c].seen.outcome, clerk[c].outcome)
  BY <1>2, <1>5 DEF UpdatedAction, ActionRow
<1> QED
  BY <1>1, <1>2, <1>3, <1>4, <1>5, <1>6 DEF ClerkOK

\* A step creates an action, writes one, or leaves the tables alone.
LEMMA ActionStepIs ==
    ASSUME ActionInv, [ActionNext]_actionVars
    PROVE  \/ \E a \in Actions : CreateAction(a)
           \/ \E c \in Clerks : WriteAction(c)
           \/ UNCHANGED actionTables
<1>1. CASE UNCHANGED actionVars
  BY <1>1 DEF actionVars
<1>2. ASSUME NEW c \in Clerks, NEW a \in Actions, NEW to \in CorrectiveStatuses, ReadAction(c, a, to)
      PROVE  UNCHANGED actionTables
  BY <1>2 DEF ReadAction
<1>3. ASSUME NEW c \in Clerks, NEW o \in Outcomes, Measure(c, o) PROVE UNCHANGED actionTables
  BY <1>3 DEF Measure
<1>4. ASSUME NEW c \in Clerks, LeaveAction(c) PROVE UNCHANGED actionTables
  BY <1>4 DEF LeaveAction
<1> QED
  BY <1>1, <1>2, <1>3, <1>4 DEF ActionNext

\* The stages an action goes through are all on its record: what is resolved was
\* approved, what is approved was submitted, and that was in progress, once open.
StagesPassed == \A a \in Actions :
    /\ "resolved" \in HadBy(a) => "approved" \in HadBy(a)
    /\ "approved" \in HadBy(a) => "pending_approval" \in HadBy(a)
    /\ "pending_approval" \in HadBy(a) => "in_progress" \in HadBy(a)
    /\ "in_progress" \in HadBy(a) => "open" \in HadBy(a)

\* A move adds its target to a record that has its source.
LEMMA StagesStep == ASSUME ActionInv, StagesPassed, [ActionNext]_actionVars PROVE StagesPassed'
<1>1. ASSUME NEW a \in Actions, CreateAction(a) PROVE StagesPassed'
  <2>1. HadBy(a)' = {"open"}
    BY <1>1 DEF CreateAction, HadBy, ActionInv, ActionTypeOK
  <2>2. \A b \in Actions \ {a} : HadBy(b)' = HadBy(b)
    BY <1>1 DEF CreateAction, HadBy, ActionInv, ActionTypeOK
  <2> QED
    BY <2>1, <2>2 DEF StagesPassed
<1>2. ASSUME NEW c \in Clerks, WriteAction(c) PROVE StagesPassed'
  <2>1. PICK a \in Actions : a = clerk[c].action
    BY <1>2, ActionWritten
  <2>2. PICK m \in CorrectiveMoves : m = <<clerk[c].seen.status, clerk[c].to>>
    BY <1>2, <2>1, ActionWritten
  <2>3. m[1] \in HadBy(a) /\ HadBy(a)' = HadBy(a) \cup {m[2]}
    BY <1>2, <2>1, <2>2, ActionWritten
  <2>4. \A b \in Actions \ {a} : HadBy(b)' = HadBy(b)
    BY <1>2, <2>1, OthersUnwritten DEF HadBy
  <2>5. /\ m[2] = "resolved" => m[1] = "approved"
        /\ m[2] = "approved" => m[1] = "pending_approval"
        /\ m[2] = "pending_approval" => m[1] = "in_progress"
        /\ m[2] = "in_progress" => m[1] \in {"open", "pending_approval", "approved"}
        /\ m[2] # "open"
    BY DEF CorrectiveMoves
  <2>6. \A b \in Actions : /\ "resolved" \in HadBy(b)' => "approved" \in HadBy(b)'
                           /\ "approved" \in HadBy(b)' => "pending_approval" \in HadBy(b)'
                           /\ "pending_approval" \in HadBy(b)' => "in_progress" \in HadBy(b)'
                           /\ "in_progress" \in HadBy(b)' => "open" \in HadBy(b)'
    BY <2>3, <2>4, <2>5 DEF StagesPassed
  <2> QED
    BY <2>6 DEF StagesPassed
<1>3. CASE UNCHANGED actionTables
  BY <1>3 DEF actionTables, StagesPassed, HadBy
<1> QED
  BY <1>1, <1>2, <1>3, ActionStepIs

\* No race of requests takes an action past a stage: each of them is on its record
\* (CORRECTIVE_ACTION_TRANSITIONS, transition_corrective_action).
THEOREM NoStageIsSkipped == ActionSpec => []StagesPassed
<1>1. ActionInit => StagesPassed
  BY DEF ActionInit, StagesPassed, HadBy
<1> QED
  BY <1>1, ActionStart, ActionStep, StagesStep, PTL DEF ActionSpec

\* No action is in the hands of two requests at a time: nothing in the code sees to it,
\* and what needs it is what a race can undo.
InHand(c, a) == clerk[c] # Away /\ clerk[c].action = a
ActionsApart == \A a \in Actions : \A c, d \in Clerks : InHand(c, a) /\ InHand(d, a) => c = d

\* Then what a request has read is still so when it writes.
ReadIsCurrent == \A c \in Clerks : clerk[c] # Away => clerk[c].seen = action[clerk[c].action]

\* A status only moves along the lifecycle, from where it is.
ActionMovesAreStrict == \A a \in Actions :
    action'[a].status # action[a].status =>
        action[a].status = "none" \/ <<action[a].status, action'[a].status>> \in CorrectiveMoves

\* An action is resolved once, and the outcome on its row is the one in that event.
ResolvedOnce == \A a \in Actions :
    measured[a] = IF action[a].status = "resolved" THEN <<action[a].outcome>> ELSE <<>>

\* A step keeps what others have read when no action is in two hands.
LEMMA ReadStaysCurrent ==
    ASSUME ActionInv, ActionsApart, ReadIsCurrent, [ActionNext]_actionVars
    PROVE  ReadIsCurrent'
<1>1. ASSUME NEW a \in Actions, CreateAction(a) PROVE ReadIsCurrent'
  <2>1. clerk' = clerk /\ action[a] = NoAction /\ \A b \in Actions \ {a} : action'[b] = action[b]
    BY <1>1 DEF CreateAction, ActionInv, ActionTypeOK
  <2>2. ASSUME NEW c \in Clerks, clerk[c] # Away PROVE clerk[c].action \in Actions \ {a}
    <3>1. ClerkOK(c) /\ clerk[c].action \in Actions /\ action[a].status = "none"
      BY <2>1, <2>2, ClerkHas DEF ActionInv, NoAction
    <3> QED
      BY <2>2, <3>1 DEF ClerkOK
  <2> QED
    BY <2>1, <2>2 DEF ReadIsCurrent
<1>2. ASSUME NEW c \in Clerks, WriteAction(c) PROVE ReadIsCurrent'
  <2> SUFFICES ASSUME NEW d \in Clerks, clerk'[d] # Away PROVE clerk'[d].seen = action'[clerk'[d].action]
    BY DEF ReadIsCurrent
  <2>1. clerk' = [clerk EXCEPT ![c] = Away] /\ clerk[c] # Away
    BY <1>2, ActionWritten
  <2>2. d # c /\ clerk'[d] = clerk[d] /\ clerk[d] # Away
    BY <2>1 DEF ActionInv, ActionTypeOK
  <2>3. clerk[d].action \in Actions /\ clerk[c].action \in Actions
    BY <2>1, <2>2, ClerkHas
  <2>4. clerk[d].action # clerk[c].action
    BY <2>1, <2>2, <2>3 DEF ActionsApart, InHand
  <2> QED
    BY <1>2, <2>2, <2>3, <2>4, OthersUnwritten DEF ReadIsCurrent
<1>3. ASSUME NEW c \in Clerks, NEW a \in Actions, NEW to \in CorrectiveStatuses, ReadAction(c, a, to)
      PROVE  ReadIsCurrent'
  <2>1. /\ action' = action /\ clerk'[c].action = a /\ clerk'[c].seen = action[a]
        /\ \A d \in Clerks \ {c} : clerk'[d] = clerk[d]
    BY <1>3 DEF ReadAction, Steps, actionTables, ActionInv, ActionTypeOK
  <2> QED
    BY <2>1 DEF ReadIsCurrent
<1>4. ASSUME NEW c \in Clerks, NEW o \in Outcomes, Measure(c, o) PROVE ReadIsCurrent'
  <2>1. clerk[c] # Away /\ clerk[c] \in ClerkWork /\ clerk[c].does = "measure"
    BY <1>4 DEF Measure, AtWork, Away, ActionInv, ActionTypeOK
  <2>2. /\ action' = action /\ clerk'[c] = [clerk[c] EXCEPT !.does = "write", !.outcome = o]
        /\ \A d \in Clerks \ {c} : clerk'[d] = clerk[d]
    BY <1>4 DEF Measure, Steps, actionTables, ActionInv, ActionTypeOK
  <2>3. clerk'[c].action = clerk[c].action /\ clerk'[c].seen = clerk[c].seen
    BY <2>1, <2>2 DEF ClerkWork
  <2> QED
    BY <2>1, <2>2, <2>3 DEF ReadIsCurrent
<1>5. ASSUME NEW c \in Clerks, LeaveAction(c) PROVE ReadIsCurrent'
  <2>1. action' = action /\ clerk'[c] = Away /\ \A d \in Clerks \ {c} : clerk'[d] = clerk[d]
    BY <1>5 DEF LeaveAction, Steps, actionTables, ActionInv, ActionTypeOK
  <2> QED
    BY <2>1 DEF ReadIsCurrent
<1>6. CASE UNCHANGED actionVars
  BY <1>6 DEF actionVars, actionTables, ReadIsCurrent
<1> QED
  BY <1>1, <1>2, <1>3, <1>4, <1>5, <1>6 DEF ActionNext

\* What is written from a current reading is a move from where the action is.
LEMMA ActionMovesStrictly ==
    ASSUME ActionInv, ReadIsCurrent, [ActionNext]_actionVars PROVE ActionMovesAreStrict
<1>1. ASSUME NEW a \in Actions, CreateAction(a) PROVE ActionMovesAreStrict
  BY <1>1 DEF CreateAction, NoAction, ActionMovesAreStrict, ActionInv, ActionTypeOK
<1>2. ASSUME NEW c \in Clerks, WriteAction(c) PROVE ActionMovesAreStrict
  <2>1. PICK a : a = clerk[c].action
    OBVIOUS
  <2>2. /\ clerk[c] # Away /\ <<clerk[c].seen.status, clerk[c].to>> \in CorrectiveMoves
        /\ action'[a].status = clerk[c].to
    BY <1>2, <2>1, ActionWritten
  <2>3. clerk[c].seen = action[a]
    BY <2>1, <2>2 DEF ReadIsCurrent
  <2>4. \A b \in Actions : b # a => action'[b] = action[b]
    BY <1>2, <2>1, OthersUnwritten
  <2> QED
    BY <2>2, <2>3, <2>4 DEF ActionMovesAreStrict
<1>3. CASE UNCHANGED actionTables
  BY <1>3 DEF actionTables, ActionMovesAreStrict
<1> QED
  BY <1>1, <1>2, <1>3, ActionStepIs

\* A resolution is written from an approval that is current, over no earlier resolution.
LEMMA ResolvedOnceStep ==
    ASSUME ActionInv, ReadIsCurrent, ResolvedOnce, [ActionNext]_actionVars PROVE ResolvedOnce'
<1>1. ASSUME NEW a \in Actions, CreateAction(a) PROVE ResolvedOnce'
  <2>1. /\ action[a].status = "none" /\ action'[a].status = "open" /\ measured' = measured
        /\ \A b \in Actions \ {a} : action'[b] = action[b]
    BY <1>1 DEF CreateAction, NoAction, ActionInv, ActionTypeOK
  <2> QED
    BY <2>1 DEF ResolvedOnce
<1>2. ASSUME NEW c \in Clerks, WriteAction(c) PROVE ResolvedOnce'
  <2>1. PICK a \in Actions : a = clerk[c].action
    BY <1>2, ActionWritten
  <2>a. clerk[c].to \in CorrectiveStatuses /\ clerk[c].seen \in ActionRow /\ clerk[c].outcome \in [Columns -> ColumnValues]
    BY <1>2, ClerkHas DEF WriteAction, AtWork, Away
  <2>2. PICK to \in CorrectiveStatuses, o \in [Columns -> ColumnValues], seen \in ActionRow :
           to = clerk[c].to /\ o = clerk[c].outcome /\ seen = clerk[c].seen
    BY <2>a
  <2>3. /\ clerk[c] # Away /\ <<seen.status, to>> \in CorrectiveMoves /\ action'[a].status = to
        /\ action'[a].outcome = IF to # "resolved" THEN action[a].outcome
                                ELSE UpdatedOutcome(action[a].outcome, seen.outcome, o)
        /\ measured'[a] = IF to = "resolved" THEN Append(measured[a], o) ELSE measured[a]
    BY <1>2, <2>1, <2>2, ActionWritten
  <2>4. seen = action[a]
    BY <2>1, <2>2, <2>3 DEF ReadIsCurrent
  <2>5. seen.status # "resolved" /\ measured[a] = <<>>
    BY <2>3, <2>4 DEF CorrectiveMoves, ResolvedOnce
  <2>6. to = "resolved" => action'[a].outcome = o
    BY <2>3, <2>4, OutcomeColumns DEF ActionRow
  <2>7. measured'[a] = IF to = "resolved" THEN <<o>> ELSE <<>>
    BY <2>3, <2>5
  <2>8. \A b \in Actions : b # a => action'[b] = action[b] /\ measured'[b] = measured[b]
    BY <1>2, <2>1, OthersUnwritten
  <2> QED
    BY <2>3, <2>6, <2>7, <2>8 DEF ResolvedOnce
<1>3. CASE UNCHANGED actionTables
  BY <1>3 DEF actionTables, ResolvedOnce
<1> QED
  BY <1>1, <1>2, <1>3, ActionStepIs

\* While no two requests have one action in hand, it moves along the lifecycle only, is
\* resolved at most once and shows the outcome of that (transition_corrective_action).
THEOREM ActionsMoveInOrder ==
    ActionSpec /\ []ActionsApart => [][ActionMovesAreStrict]_actionVars /\ []ResolvedOnce
<1>1. ActionInit => ReadIsCurrent /\ ResolvedOnce
  BY DEF ActionInit, ReadIsCurrent, ResolvedOnce, NoAction
<1>2. ActionInv /\ ReadIsCurrent /\ [ActionNext]_actionVars => [ActionMovesAreStrict]_actionVars
  BY ActionMovesStrictly
<1> QED
  BY <1>1, <1>2, ActionStart, ActionStep, ReadStaysCurrent, ResolvedOnceStep, PTL DEF ActionSpec

-----------------------------------------------------------------------------
(* Work items *)

ItemHad(i) == {log[i][n][2] : n \in DOMAIN log[i]}
LogType == (ActionStatuses \cup {"none"}) \X ActionStatuses
AskType == [item: Items, status: {"pending", "approved"}]
Requested(i) == \E a \in DOMAIN asked : asked[a].item = i
Allowed(i) == \E a \in DOMAIN asked : asked[a] = [item |-> i, status |-> "approved"]

\* A stored item is where some event put it; a wait has a request, and a stamp its event.
ItemOK(i) ==
    /\ item[i].status = "none" => log[i] = <<>> /\ item[i] = NoItem
    /\ item[i].status # "none" => item[i].status \in ItemHad(i)
    /\ item[i].status = "pending_approval" => AskedFor(i) # {}
    /\ item[i].approvedAt = MovedTo(i, "approved") /\ item[i].completedAt = MovedTo(i, "completed")
    /\ item[i].approvedAt => Allowed(i)

\* What a request has read was so at some time, and what lasts of it still is.
JobOK(t) ==
    /\ Doing(t, "move") =>
        LET i == job[t].item  seen == job[t].seen IN
        /\ Stored(i) /\ seen.status \in ItemHad(i)
        /\ <<seen.status, job[t].to>> \in ActionMoves
        /\ seen.status = "pending_approval" => Requested(i)
    /\ Doing(t, "link") =>
        LET p == job[t].pair IN p[1] # p[2] /\ Stored(p[1]) /\ Stored(p[2])

ItemInv == /\ ItemTypeOK
           /\ \A i \in Items : ItemOK(i)
           /\ \A t \in Threads : JobOK(t)
           /\ LinksAreLogged

\* What no write takes back.
Lasts(i) == /\ ItemHad(i) \subseteq ItemHad(i)'
            /\ Stored(i) => Stored(i)'
            /\ Requested(i) => Requested(i)'

\* Nothing is stored at first.
LEMMA ItemStart == ItemInit => ItemInv
<1> SUFFICES ASSUME ItemInit PROVE ItemInv
  OBVIOUS
<1>1. ItemTypeOK
  BY DEF ItemInit, ItemTypeOK, Job, Free
<1>2. ASSUME NEW i \in Items PROVE ItemOK(i)
  <2>1. item[i] = NoItem /\ log[i] = <<>> /\ DOMAIN log[i] = {}
    BY DEF ItemInit
  <2>2. MovedTo(i, "approved") = FALSE /\ MovedTo(i, "completed") = FALSE
    BY <2>1 DEF MovedTo
  <2>3. item[i].status = "none" /\ item[i].approvedAt = FALSE /\ item[i].completedAt = FALSE
    BY <2>1 DEF NoItem
  <2> QED
    BY <2>1, <2>2, <2>3 DEF ItemOK
<1>3. \A t \in Threads : JobOK(t)
  BY DEF ItemInit, JobOK, Doing, Free
<1>4. LinksAreLogged
  BY DEF ItemInit, LinksAreLogged
<1> QED
  BY <1>1, <1>2, <1>3, <1>4 DEF ItemInv

\* What a request at work holds.
LEMMA JobHas ==
    ASSUME ItemInv, NEW t \in Threads
    PROVE  /\ Doing(t, "move") => /\ job[t].item \in Items /\ job[t].seen \in ItemRow
                                   /\ job[t].to \in ActionStatuses /\ item[job[t].item] \in ItemRow
           /\ Doing(t, "link") => job[t].pair \in Items \X Items
<1>1. job[t] \in Job
  BY DEF ItemInv, ItemTypeOK
<1>2. Doing(t, "move") => job[t].item \in Items /\ job[t].seen \in ItemRow /\ job[t].to \in ActionStatuses
  BY <1>1 DEF Job, Doing
<1>3. Doing(t, "link") => job[t].pair \in Items \X Items
  BY <1>1 DEF Job, Doing
<1>4. ASSUME Doing(t, "move") PROVE item[job[t].item] \in ItemRow
  <2>1. item[job[t].item].status # "none" /\ item[job[t].item] \in ItemRow \cup {NoItem}
    BY <1>2, <1>4 DEF ItemInv, ItemTypeOK, JobOK, Stored
  <2> QED
    BY <2>1 DEF NoItem
<1> QED
  BY <1>2, <1>3, <1>4

\* A request that does not move stays true while the rows last.
LEMMA JobsLast ==
    ASSUME ItemInv, NEW t \in Threads, job'[t] = job[t], \A i \in Items : Lasts(i)
    PROVE  JobOK(t)'
<1>1. JobOK(t) /\ (Doing(t, "move")' <=> Doing(t, "move")) /\ (Doing(t, "link")' <=> Doing(t, "link"))
  BY DEF ItemInv, Doing
<1>2. ASSUME Doing(t, "move") PROVE JobOK(t)'
  <2>1. PICK i \in Items : i = job[t].item
    BY <1>2, JobHas
  <2>2. Lasts(i) /\ ~ Doing(t, "link")
    BY <1>2 DEF Doing
  <2>3. ItemHad(job[t].item)' = ItemHad(i)' /\ Requested(job[t].item)' = Requested(i)' /\ Stored(job[t].item)' = Stored(i)'
    BY <2>1 DEF ItemHad, Requested, Stored
  <2> QED
    BY <1>1, <1>2, <2>1, <2>2, <2>3 DEF JobOK, Lasts
<1>3. ASSUME Doing(t, "link") PROVE JobOK(t)'
  <2>1. PICK i \in Items, on \in Items : job[t].pair = <<i, on>>
    BY <1>3, JobHas
  <2>2. Lasts(i) /\ Lasts(on) /\ i # on /\ Stored(i) /\ Stored(on) /\ ~ Doing(t, "move")
    BY <1>1, <1>3, <2>1 DEF Doing, JobOK
  <2> QED
    BY <1>1, <2>1, <2>2 DEF JobOK, Lasts, Stored
<1> QED
  BY <1>1, <1>2, <1>3 DEF JobOK

\* An item whose rows stay as they are stays true.
LEMMA ItemStays ==
    ASSUME ItemInv, NEW i \in Items, item'[i] = item[i], log'[i] = log[i],
           AskedFor(i) \subseteq AskedFor(i)', Allowed(i) => Allowed(i)', Requested(i) => Requested(i)'
    PROVE  Lasts(i) /\ ItemOK(i)'
<1>1. ItemOK(i)
  BY DEF ItemInv
<1>2. MovedTo(i, "approved")' = MovedTo(i, "approved") /\ MovedTo(i, "completed")' = MovedTo(i, "completed")
  BY DEF MovedTo
<1>3. ItemHad(i)' = ItemHad(i) /\ Stored(i)' = Stored(i)
  BY DEF ItemHad, Stored
<1> QED
  BY <1>1, <1>2, <1>3 DEF Lasts, ItemOK

\* An event is added to an item's log.
LEMMA LogGrows ==
    ASSUME ItemInv, NEW i \in Items, NEW from \in ActionStatuses \cup {"none"}, NEW to \in ActionStatuses,
           log' = [log EXCEPT ![i] = Append(@, <<from, to>>)]
    PROVE  /\ log'[i] \in Seq(LogType)
           /\ ItemHad(i) \subseteq ItemHad(i)' /\ to \in ItemHad(i)'
           /\ log[i] # <<>> => \A s \in ActionStatuses : MovedTo(i, s)' = (MovedTo(i, s) \/ s = to)
           /\ log[i] = <<>> => \A s \in ActionStatuses : ~ MovedTo(i, s)'
<1> DEFINE x == <<from, to>>
<1>1. x \in LogType /\ x[2] = to
  BY DEF LogType
<1>2. log[i] \in Seq(LogType) /\ log'[i] = Append(log[i], x)
  BY DEF ItemInv, ItemTypeOK, LogType
<1> HIDE DEF x
<1>3. PICK s \in Seq(LogType), y \in LogType : s = log[i] /\ y = x
  BY <1>1, <1>2
<1>4. /\ Append(s, y) \in Seq(LogType)
      /\ DOMAIN Append(s, y) = DOMAIN s \cup {Len(s) + 1}
      /\ \A n \in DOMAIN s : Append(s, y)[n] = s[n]
      /\ Append(s, y)[Len(s) + 1] = y
  BY Inserted
<1>5. log'[i] = Append(s, y) /\ log[i] = s /\ y[2] = to
  BY <1>1, <1>2, <1>3
<1>6. ItemHad(i) = {s[n][2] : n \in DOMAIN s} /\ ItemHad(i)' = {Append(s, y)[n][2] : n \in DOMAIN Append(s, y)}
  BY <1>5 DEF ItemHad
<1>7. ItemHad(i) \subseteq ItemHad(i)' /\ to \in ItemHad(i)'
  BY <1>4, <1>5, <1>6
<1>8. Len(s) \in Nat /\ DOMAIN s = 1..Len(s) /\ (s # <<>> <=> Len(s) > 0)
  OBVIOUS
<1>9. ASSUME NEW st \in ActionStatuses
      PROVE  MovedTo(i, st)' <=> (\E n \in DOMAIN s : n > 1 /\ s[n][2] = st) \/ (s # <<>> /\ st = to)
  <2>1. MovedTo(i, st)' <=> \E n \in DOMAIN Append(s, y) : n > 1 /\ Append(s, y)[n][2] = st
    BY <1>5 DEF MovedTo
  <2>2. Len(s) + 1 > 1 <=> s # <<>>
    BY <1>8
  <2> QED
    BY <1>4, <1>5, <1>8, <2>1, <2>2
<1>10. ASSUME NEW st \in ActionStatuses PROVE MovedTo(i, st) <=> \E n \in DOMAIN s : n > 1 /\ s[n][2] = st
  BY <1>5 DEF MovedTo
<1>11. s = <<>> => DOMAIN s = {}
  OBVIOUS
<1>12. \A st \in ActionStatuses : MovedTo(i, st)' \in BOOLEAN /\ MovedTo(i, st) \in BOOLEAN
  BY DEF MovedTo
<1>13. s # <<>> => \A st \in ActionStatuses : MovedTo(i, st)' = (MovedTo(i, st) \/ st = to)
  BY <1>9, <1>10, <1>12
<1>14. s = <<>> => \A st \in ActionStatuses : ~ MovedTo(i, st)'
  BY <1>9, <1>11
<1> QED
  BY <1>4, <1>5, <1>7, <1>13, <1>14

\* A request for an approval is filed: what was asked and granted before is left.
LEMMA AskFiled ==
    ASSUME asked \in Seq(AskType), NEW i \in Items,
           asked' = Append(asked, [item |-> i, status |-> "pending"])
    PROVE  /\ asked' \in Seq(AskType) /\ AskedFor(i)' # {}
           /\ \A j \in Items : /\ AskedFor(j) \subseteq AskedFor(j)'
                               /\ Allowed(j) => Allowed(j)'
                               /\ Requested(j) => Requested(j)'
<1> DEFINE x == [item |-> i, status |-> "pending"]
<1>1. x \in AskType
  BY DEF AskType
<1>2. /\ asked' \in Seq(AskType)
      /\ DOMAIN asked' = DOMAIN asked \cup {Len(asked) + 1}
      /\ \A n \in DOMAIN asked : asked'[n] = asked[n]
      /\ asked'[Len(asked) + 1] = x
  BY <1>1, Inserted
<1>3. Len(asked) + 1 \in AskedFor(i)'
  BY <1>2 DEF AskedFor
<1> QED
  BY <1>2, <1>3 DEF AskedFor, Allowed, Requested

\* An approval decides the newest pending request: it withdraws no other.
LEMMA AskDecided ==
    ASSUME asked \in Seq(AskType), NEW i \in Items, AskedFor(i) # {},
           asked' = [asked EXCEPT ![Max(AskedFor(i))].status = "approved"]
    PROVE  /\ asked' \in Seq(AskType) /\ Allowed(i)'
           /\ \A j \in Items : /\ j # i => AskedFor(j) \subseteq AskedFor(j)'
                               /\ Allowed(j) => Allowed(j)'
                               /\ Requested(j) => Requested(j)'
<1> DEFINE m == Max(AskedFor(i))
<1>1. AskedFor(i) \in SUBSET (1..Len(asked)) /\ Len(asked) \in Nat
  BY DEF AskedFor
<1>2. m \in AskedFor(i)
  BY <1>1, Newest
<1> HIDE DEF m
<1>3. m \in DOMAIN asked /\ asked[m] = [item |-> i, status |-> "pending"]
  BY <1>2 DEF AskedFor
<1>4. /\ DOMAIN asked' = DOMAIN asked
      /\ asked'[m] = [item |-> i, status |-> "approved"]
      /\ \A n \in DOMAIN asked : n # m => asked'[n] = asked[n]
  BY <1>3 DEF m
<1>5. asked' \in Seq(AskType)
  <2>1. [asked[m] EXCEPT !.status = "approved"] \in AskType
    BY <1>3 DEF AskType
  <2>2. asked' = [asked EXCEPT ![m] = [asked[m] EXCEPT !.status = "approved"]]
    BY DEF m
  <2> QED
    BY <1>3, <2>1, <2>2, ExceptSeq
<1>6. Allowed(i)'
  BY <1>3, <1>4 DEF Allowed
<1>7. ASSUME NEW j \in Items
      PROVE  /\ j # i => AskedFor(j) \subseteq AskedFor(j)'
             /\ Allowed(j) => Allowed(j)'
             /\ Requested(j) => Requested(j)'
  <2>1. ASSUME j # i PROVE AskedFor(j) \subseteq AskedFor(j)'
    <3>1. ASSUME NEW a \in AskedFor(j) PROVE a \in AskedFor(j)'
      <4>1. a \in DOMAIN asked /\ asked[a] = [item |-> j, status |-> "pending"]
        BY DEF AskedFor
      <4>2. asked[a].item = j /\ asked[m].item = i
        BY <1>3, <4>1
      <4>3. a # m
        BY <2>1, <4>2
      <4> QED
        BY <1>4, <4>1, <4>3 DEF AskedFor
    <3> QED
      BY <3>1
  <2>2. Allowed(j) => Allowed(j)'
    <3> SUFFICES ASSUME NEW a \in DOMAIN asked, asked[a] = [item |-> j, status |-> "approved"]
                 PROVE  Allowed(j)'
      BY DEF Allowed
    <3>1. asked[a].status = "approved" /\ asked[m].status = "pending"
      BY <1>3
    <3>2. a # m
      BY <3>1
    <3>3. asked'[a] = asked[a]
      BY <1>4, <3>2
    <3> QED
      BY <1>4, <3>3 DEF Allowed
  <2>3. \A n \in DOMAIN asked : asked'[n].item = asked[n].item
    BY <1>3, <1>4
  <2>4. Requested(j) => Requested(j)'
    BY <1>4, <2>3 DEF Requested
  <2> QED
    BY <2>1, <2>2, <2>4
<1> QED
  BY <1>5, <1>6, <1>7

\* A step of one request that stores nothing keeps the rest.
LEMMA JobSteps ==
    ASSUME ItemInv, UNCHANGED itemTables, NEW t \in Threads, NEW j \in Job, Turn(t, j), JobOK(t)'
    PROVE  ItemInv'
<1>1. ItemTypeOK'
  BY DEF ItemInv, ItemTypeOK, Turn, itemTables
<1>2. \A i \in Items : Lasts(i) /\ ItemOK(i)'
  BY ItemStays DEF itemTables, AskedFor, Allowed, Requested
<1>3. ASSUME NEW u \in Threads \ {t} PROVE JobOK(u)'
  BY <1>2, JobsLast DEF Turn, ItemInv, ItemTypeOK
<1>4. LinksAreLogged'
  BY DEF ItemInv, LinksAreLogged, itemTables, Stored
<1> QED
  BY <1>1, <1>2, <1>3, <1>4 DEF ItemInv

\* A note is of an item that is there, and nothing asks for it.
LEMMA NoteKeeps == ASSUME ItemInv, NEW i \in Items, AddNote(i) PROVE ItemInv'
<1>1. ItemTypeOK'
  BY DEF ItemInv, ItemTypeOK, AddNote
<1>2. \A j \in Items : Lasts(j) /\ ItemOK(j)'
  BY ItemStays DEF AddNote, AskedFor, Allowed, Requested
<1>3. ASSUME NEW u \in Threads PROVE JobOK(u)'
  BY <1>2, JobsLast DEF AddNote
<1>4. LinksAreLogged'
  BY DEF ItemInv, LinksAreLogged, AddNote, Stored
<1> QED
  BY <1>1, <1>2, <1>3, <1>4 DEF ItemInv

\* A request reads an item and checks its move.
LEMMA ReadItemKeeps ==
    ASSUME ItemInv, NEW t \in Threads, NEW i \in Items, NEW to \in ActionStatuses, ReadItem(t, i, to)
    PROVE  ItemInv'
<1> DEFINE j == [does |-> "move", item |-> i, seen |-> item[i], to |-> to]
<1>1. item[i].status # "none" /\ <<item[i].status, to>> \in ActionMoves
  BY DEF ReadItem, ActionMoves
<1>2. item[i] \in ItemRow
  BY <1>1 DEF ItemInv, ItemTypeOK, NoItem
<1>3. j \in Job
  BY <1>2 DEF Job
<1>4. Turn(t, j) /\ UNCHANGED itemTables /\ job'[t] = j
  BY DEF ReadItem, Turn, ItemInv, ItemTypeOK
<1>5. /\ item[i].status \in ItemHad(i) /\ Stored(i)
      /\ item[i].status = "pending_approval" => Requested(i)
  <2>1. ItemOK(i)
    BY DEF ItemInv
  <2>2. AskedFor(i) # {} => Requested(i)
    BY DEF AskedFor, Requested
  <2> QED
    BY <1>1, <2>1, <2>2 DEF ItemOK, Stored
<1>6. j.does = "move" /\ j.item = i /\ j.seen = item[i] /\ j.to = to
  OBVIOUS
<1> HIDE DEF j
<1>7. JobOK(t)'
  <2>1. /\ ItemHad(job[t].item)' = ItemHad(i)
        /\ Requested(job[t].item)' = Requested(i) /\ Stored(job[t].item)' = Stored(i)
    BY <1>4, <1>6 DEF ItemHad, Requested, Stored, itemTables
  <2> QED
    BY <1>1, <1>4, <1>5, <1>6, <2>1 DEF JobOK, Doing
<1> QED
  BY <1>3, <1>4, <1>7, JobSteps

\* A request looks for both ends of a dependency.
LEMMA ReadLinkKeeps ==
    ASSUME ItemInv, NEW t \in Threads, NEW i \in Items, NEW on \in Items, ReadLink(t, i, on)
    PROVE  ItemInv'
<1> DEFINE j == [does |-> "link", pair |-> <<i, on>>]
<1>1. j \in Job /\ j.does = "link" /\ j.pair = <<i, on>>
  BY DEF Job
<1>2. Turn(t, j) /\ UNCHANGED itemTables /\ job'[t] = j
  BY DEF ReadLink, Turn, ItemInv, ItemTypeOK
<1> HIDE DEF j
<1>3. JobOK(t)'
  <2>1. ~ Doing(t, "move")' /\ job'[t].pair = <<i, on>>
    BY <1>1, <1>2 DEF Doing
  <2>2. i # on /\ Stored(i)' /\ Stored(on)'
    BY <1>2 DEF ReadLink, Stored, itemTables
  <2> QED
    BY <2>1, <2>2 DEF JobOK, Stored
<1> QED
  BY <1>1, <1>2, <1>3, JobSteps

\* A request that is dropped stores nothing.
LEMMA DropKeeps == ASSUME ItemInv, NEW t \in Threads, DropJob(t) PROVE ItemInv'
<1>1. Free \in Job /\ Turn(t, Free) /\ UNCHANGED itemTables /\ job'[t] = Free
  BY DEF DropJob, Job, Free, Turn, ItemInv, ItemTypeOK
<1>2. JobOK(t)'
  BY <1>1 DEF JobOK, Doing, Free
<1> QED
  BY <1>1, <1>2, JobSteps

\* The unique index and the rows' permanence keep the dependencies and their events.
LEMMA InsertLinkKeeps == ASSUME ItemInv, NEW t \in Threads, InsertLink(t) PROVE ItemInv'
<1>1. PICK p \in Items \X Items : p = job[t].pair
  BY JobHas DEF InsertLink
<1>2. /\ p \notin links /\ links' = links \cup {p} /\ linkLog' = Append(linkLog, p)
      /\ Turn(t, Free) /\ UNCHANGED <<item, log, asked, notes>> /\ job'[t] = Free
  BY <1>1 DEF InsertLink, Turn, ItemInv, ItemTypeOK
<1>3. p[1] # p[2] /\ Stored(p[1]) /\ Stored(p[2])
  BY <1>1 DEF InsertLink, ItemInv, JobOK
<1>4. linkLog \in Seq(Items \X Items)
  BY DEF ItemInv, ItemTypeOK
<1>5. /\ linkLog' \in Seq(Items \X Items)
      /\ DOMAIN linkLog' = DOMAIN linkLog \cup {Len(linkLog) + 1}
      /\ Len(linkLog) + 1 \notin DOMAIN linkLog
      /\ \A n \in DOMAIN linkLog : linkLog'[n] = linkLog[n]
      /\ linkLog'[Len(linkLog) + 1] = p
  BY <1>2, <1>4, Inserted
<1>6. ItemTypeOK'
  BY <1>2, <1>5 DEF ItemInv, ItemTypeOK, Turn, Job, Free
<1>7. \A i \in Items : Lasts(i) /\ ItemOK(i)'
  BY <1>2, ItemStays DEF AskedFor, Allowed, Requested
<1>8. ASSUME NEW u \in Threads PROVE JobOK(u)'
  <2>1. CASE u = t
    BY <1>2, <2>1 DEF JobOK, Doing, Free
  <2>2. CASE u # t
    BY <1>2, <1>7, <2>2, JobsLast DEF Turn, ItemInv, ItemTypeOK
  <2> QED
    BY <2>1, <2>2
<1>9. LinksAreLogged'
  <2>1. LinksAreLogged
    BY DEF ItemInv
  <2>2. links' = {linkLog'[n] : n \in DOMAIN linkLog'}
    BY <1>2, <1>5, <2>1 DEF LinksAreLogged
  <2>3. \A m, n \in DOMAIN linkLog' : linkLog'[m] = linkLog'[n] => m = n
    BY <1>2, <1>5, <2>1 DEF LinksAreLogged
  <2>4. \A q \in links' : q[1] # q[2] /\ Stored(q[1])' /\ Stored(q[2])'
    BY <1>2, <1>3, <2>1 DEF LinksAreLogged, Stored
  <2> QED
    BY <2>2, <2>3, <2>4 DEF LinksAreLogged, Stored
<1> QED
  BY <1>6, <1>7, <1>8, <1>9 DEF ItemInv

\* An item is created in any status the payload gives, asked for if it waits.
LEMMA CreateItemKeeps ==
    ASSUME ItemInv, NEW i \in Items, NEW status \in NewStatuses, NEW approval \in NewApprovals,
           CreateItem(i, status, approval)
    PROVE  ItemInv'
<1> DEFINE row == [NoItem EXCEPT !.status = status,
                      !.approval = IF status = "pending_approval" THEN "pending" ELSE approval]
<1>1. item[i].status = "none" /\ item[i] = NoItem /\ log[i] = <<>>
  BY DEF CreateItem, Stored, ItemInv, ItemOK
<1>2. status \in ActionStatuses
  BY PayloadAssumption DEF ActionStatuses
<1>3. /\ row \in ItemRow /\ row.status = status
      /\ row.approvedAt = FALSE /\ row.completedAt = FALSE
  BY <1>2 DEF ItemRow, NoItem, ApprovalStatuses
<1>4. /\ item' = [item EXCEPT ![i] = row]
      /\ log' = [log EXCEPT ![i] = << <<"none", status>> >>]
      /\ UNCHANGED <<links, linkLog, notes, job>>
  BY DEF CreateItem
<1> HIDE DEF row
<1>5. item'[i] = row /\ \A j \in Items \ {i} : item'[j] = item[j] /\ log'[j] = log[j]
  BY <1>4 DEF ItemInv, ItemTypeOK
<1>6. log'[i] = << <<"none", status>> >>
  BY <1>4 DEF ItemInv, ItemTypeOK
<1>7. log' \in [Items -> Seq(LogType)]
  <2>1. << <<"none", status>> >> \in Seq(LogType)
    BY <1>2 DEF LogType
  <2> QED
    BY <1>4, <2>1 DEF ItemInv, ItemTypeOK, LogType
<1>8. asked \in Seq(AskType)
  BY DEF ItemInv, ItemTypeOK, AskType
<1>9. /\ asked' \in Seq(AskType)
      /\ status = "pending_approval" => AskedFor(i)' # {}
      /\ \A j \in Items : /\ AskedFor(j) \subseteq AskedFor(j)'
                          /\ Allowed(j) => Allowed(j)'
                          /\ Requested(j) => Requested(j)'
  <2>1. CASE status = "pending_approval"
    <3>1. asked' = Append(asked, [item |-> i, status |-> "pending"])
      BY <2>1 DEF CreateItem
    <3> QED
      BY <1>8, <3>1, AskFiled
  <2>2. CASE status # "pending_approval"
    <3>1. asked' = asked
      BY <2>2 DEF CreateItem
    <3> QED
      BY <1>8, <2>2, <3>1 DEF AskedFor, Allowed, Requested
  <2> QED
    BY <2>1, <2>2
<1>10. ItemTypeOK'
  <2>1. item' \in [Items -> ItemRow \cup {NoItem}]
    BY <1>3, <1>4 DEF ItemInv, ItemTypeOK
  <2> QED
    BY <1>4, <1>7, <1>9, <2>1 DEF ItemInv, ItemTypeOK, LogType, AskType
<1>11. ItemOK(i)'
  <2>1. status \in ItemHad(i)'
    BY <1>6 DEF ItemHad
  <2>2. MovedTo(i, "approved")' = FALSE /\ MovedTo(i, "completed")' = FALSE
    BY <1>6 DEF MovedTo
  <2>3. item'[i].status = status /\ item'[i].approvedAt = FALSE /\ item'[i].completedAt = FALSE
    BY <1>3, <1>5
  <2>4. status # "none"
    BY <1>2 DEF ActionStatuses
  <2> QED
    BY <1>9, <2>1, <2>2, <2>3, <2>4 DEF ItemOK
<1>12. Lasts(i)
  <2>1. ItemHad(i) = {}
    BY <1>1 DEF ItemHad
  <2>2. ~ Stored(i)
    BY <1>1 DEF Stored
  <2> QED
    BY <1>9, <2>1, <2>2 DEF Lasts
<1>13. ASSUME NEW j \in Items \ {i} PROVE Lasts(j) /\ ItemOK(j)'
  BY <1>5, <1>9, ItemStays
<1>14. ASSUME NEW t \in Threads PROVE JobOK(t)'
  BY <1>4, <1>12, <1>13, JobsLast
<1>15. LinksAreLogged'
  <2>1. \A j \in Items : Stored(j) => Stored(j)'
    BY <1>12, <1>13 DEF Lasts
  <2> QED
    BY <1>4, <2>1 DEF ItemInv, ItemTypeOK, LinksAreLogged, Stored
<1> QED
  BY <1>10, <1>11, <1>13, <1>14, <1>15 DEF ItemInv

\* A move writes over whatever the row holds by then, with its event and its request.
LEMMA WriteItemKeeps == ASSUME ItemInv, NEW t \in Threads, WriteItem(t) PROVE ItemInv'
<1>1. Doing(t, "move")
  BY DEF WriteItem
<1>2. PICK i \in Items, seen \in ItemRow, to \in ActionStatuses :
         i = job[t].item /\ seen = job[t].seen /\ to = job[t].to
  BY <1>1, JobHas
<1>3. /\ item' = [item EXCEPT ![i] = Updated(@, seen, to)]
      /\ log' = [log EXCEPT ![i] = Append(@, <<seen.status, to>>)]
      /\ asked' = Decided(i, to)
      /\ Turn(t, Free) /\ UNCHANGED <<links, linkLog, notes>>
  BY <1>2 DEF WriteItem
<1>4. item[i] \in ItemRow /\ Stored(i)
  BY <1>1, <1>2, JobHas DEF ItemInv, JobOK
<1>5. /\ <<seen.status, to>> \in ActionMoves
      /\ seen.status = "pending_approval" => Requested(i)
  <2>1. JobOK(t)
    BY DEF ItemInv
  <2> QED
    BY <1>1, <1>2, <2>1 DEF JobOK
<1>6. /\ item'[i] = Updated(item[i], seen, to)
      /\ \A j \in Items \ {i} : item'[j] = item[j] /\ log'[j] = log[j]
  BY <1>3 DEF ItemInv, ItemTypeOK
<1>7. ApprovalAfter(seen, to) \in ApprovalStatuses
  BY DEF ApprovalAfter, ApprovalStatuses, ItemRow
<1>8. /\ item'[i].status = to
      /\ item'[i].approvedAt = (item[i].approvedAt \/ to = "approved")
      /\ item'[i].completedAt = (item[i].completedAt \/ to = "completed")
      /\ item'[i] \in ItemRow
  BY <1>4, <1>6, <1>7 DEF Updated, ItemRow
<1>9. ItemOK(i) /\ log[i] # <<>>
  <2>1. ItemOK(i)
    BY DEF ItemInv
  <2>2. item[i].status \in ItemHad(i)
    BY <1>4, <2>1 DEF ItemOK, Stored
  <2> QED
    BY <2>1, <2>2 DEF ItemHad
<1>10. /\ log'[i] \in Seq(LogType)
       /\ ItemHad(i) \subseteq ItemHad(i)' /\ to \in ItemHad(i)'
       /\ \A s \in ActionStatuses : MovedTo(i, s)' = (MovedTo(i, s) \/ s = to)
  BY <1>3, <1>9, LogGrows DEF ItemRow
<1>11. asked \in Seq(AskType)
  BY DEF ItemInv, ItemTypeOK, AskType
<1>12. to = "approved" => seen.status = "pending_approval"
  BY <1>5 DEF ActionMoves
<1>13. /\ asked' \in Seq(AskType)
       /\ to = "pending_approval" => AskedFor(i)' # {}
       /\ to = "approved" => Allowed(i)'
       /\ \A j \in Items : /\ j # i => AskedFor(j) \subseteq AskedFor(j)'
                           /\ Allowed(j) => Allowed(j)'
                           /\ Requested(j) => Requested(j)'
  <2>1. CASE to = "pending_approval"
    <3>1. asked' = Append(asked, [item |-> i, status |-> "pending"])
      BY <1>3, <2>1 DEF Decided
    <3> QED
      BY <1>11, <2>1, <3>1, AskFiled
  <2>2. CASE to = "approved" /\ AskedFor(i) # {}
    <3>1. asked' = [asked EXCEPT ![Max(AskedFor(i))].status = "approved"]
      BY <1>3, <2>2 DEF Decided
    <3> QED
      BY <1>11, <2>2, <3>1, AskDecided
  <2>3. CASE to # "pending_approval" /\ ~ (to = "approved" /\ AskedFor(i) # {})
    <3>1. asked' = asked
      BY <1>3, <2>3 DEF Decided
    <3>2. ASSUME to = "approved" PROVE Allowed(i)
      <4>1. PICK a \in DOMAIN asked : asked[a].item = i
        BY <1>5, <1>12, <3>2 DEF Requested
      <4>2. asked[a] \in AskType /\ a \notin AskedFor(i)
        BY <1>11, <2>3, <3>2
      <4>3. asked[a].status = "approved" /\ asked[a] = [item |-> i, status |-> "approved"]
        BY <4>1, <4>2 DEF AskType, AskedFor
      <4> QED
        BY <4>3 DEF Allowed
    <3> QED
      BY <1>11, <2>3, <3>1, <3>2 DEF AskedFor, Allowed, Requested
  <2> QED
    BY <2>1, <2>2, <2>3
<1>14. ItemTypeOK'
  <2>1. item' \in [Items -> ItemRow \cup {NoItem}]
    BY <1>3, <1>6, <1>8 DEF ItemInv, ItemTypeOK
  <2>2. log' \in [Items -> Seq(LogType)]
    BY <1>3, <1>10 DEF ItemInv, ItemTypeOK, LogType
  <2>3. job' \in [Threads -> Job]
    BY <1>3 DEF ItemInv, ItemTypeOK, Turn, Job, Free
  <2> QED
    BY <1>3, <1>13, <2>1, <2>2, <2>3 DEF ItemInv, ItemTypeOK, LogType, AskType
<1>15. ItemOK(i)'
  <2>1. /\ item'[i].approvedAt = MovedTo(i, "approved")'
        /\ item'[i].completedAt = MovedTo(i, "completed")'
    <3>1. "approved" \in ActionStatuses /\ "completed" \in ActionStatuses
      BY DEF ActionStatuses
    <3>2. /\ MovedTo(i, "approved")' = (MovedTo(i, "approved") \/ "approved" = to)
          /\ MovedTo(i, "completed")' = (MovedTo(i, "completed") \/ "completed" = to)
      BY <1>10, <3>1
    <3> QED
      BY <1>8, <1>9, <3>2 DEF ItemOK
  <2>2. item'[i].approvedAt => Allowed(i)'
    BY <1>4, <1>8, <1>9, <1>13 DEF ItemOK, ItemRow
  <2>3. to # "none"
    BY DEF ActionStatuses
  <2> QED
    BY <1>8, <1>10, <1>13, <2>1, <2>2, <2>3 DEF ItemOK
<1>16. Lasts(i)
  <2>1. Stored(i)'
    BY <1>8 DEF Stored, ActionStatuses
  <2> QED
    BY <1>10, <1>13, <2>1 DEF Lasts
<1>17. ASSUME NEW j \in Items \ {i} PROVE Lasts(j) /\ ItemOK(j)'
  BY <1>6, <1>13, ItemStays
<1>18. ASSUME NEW u \in Threads PROVE JobOK(u)'
  <2>1. CASE u = t
    BY <1>3, <2>1 DEF Turn, JobOK, Doing, Free, ItemInv, ItemTypeOK
  <2>2. CASE u # t
    BY <1>3, <1>16, <1>17, <2>2, JobsLast DEF Turn, ItemInv, ItemTypeOK
  <2> QED
    BY <2>1, <2>2
<1>19. LinksAreLogged'
  <2>1. \A j \in Items : Stored(j) => Stored(j)'
    BY <1>16, <1>17 DEF Lasts
  <2> QED
    BY <1>3, <2>1 DEF ItemInv, ItemTypeOK, LinksAreLogged, Stored
<1> QED
  BY <1>14, <1>15, <1>17, <1>18, <1>19 DEF ItemInv

\* Every step of work items keeps the invariant.
LEMMA ItemStep == ASSUME ItemInv, [ItemNext]_itemVars PROVE ItemInv'
<1>1. CASE UNCHANGED itemVars
  <2>1. UNCHANGED itemTables /\ job' = job
    BY <1>1 DEF itemVars
  <2>2. \A i \in Items : Lasts(i) /\ ItemOK(i)'
    BY <2>1, ItemStays DEF itemTables, AskedFor, Allowed, Requested
  <2>3. \A t \in Threads : JobOK(t)'
    BY <2>1, <2>2, JobsLast
  <2> QED
    BY <2>1, <2>2, <2>3 DEF ItemInv, ItemTypeOK, itemTables, LinksAreLogged, Stored
<1>2. CASE ItemNext
  BY <1>2, NoteKeeps, CreateItemKeeps, ReadItemKeeps, ReadLinkKeeps, WriteItemKeeps, InsertLinkKeeps, DropKeeps
     DEF ItemNext
<1> QED
  BY <1>1, <1>2

\* The rows, events, requests and dependencies of work items keep their types.
THEOREM ItemTypes == ItemSpec => []ItemTypeOK
<1>1. ItemInv => ItemTypeOK
  BY DEF ItemInv
<1> QED
  BY <1>1, ItemStart, ItemStep, PTL DEF ItemSpec

\* However requests race, an item that waits has a request to decide, its stamps are
\* those of its events, and an approval has a request that says so (transition_work_item).
THEOREM ItemsNeedDecisions == ItemSpec => []ItemsAreDecided
<1>1. ItemInv => ItemsAreDecided
  BY DEF ItemInv, ItemsAreDecided, ItemOK, Allowed
<1> QED
  BY <1>1, ItemStart, ItemStep, PTL DEF ItemSpec

\* Each dependency has one row and one event, of two items that exist (add_dependency).
THEOREM LinksHaveEvents == ItemSpec => []LinksAreLogged
<1>1. ItemInv => LinksAreLogged
  BY DEF ItemInv
<1> QED
  BY <1>1, ItemStart, ItemStep, PTL DEF ItemSpec

\* A step of a request is a move of the trail, or leaves it alone.
LEMMA ItemStepIsLogged ==
    ASSUME ItemInv, [ItemNext]_itemVars
    PROVE  [ItemTrail!Next]_<<[i \in Items |-> item[i].status], log>>
<1> DEFINE st == [i \in Items |-> item[i].status]
<1>1. ASSUME NEW i \in Items, NEW status \in NewStatuses, NEW approval \in NewApprovals,
             CreateItem(i, status, approval)
      PROVE  ItemTrail!Next
  <2>1. item[i] = NoItem /\ item[i].status = "none" /\ log[i] = <<>>
    BY <1>1 DEF CreateItem, Stored, ItemInv, ItemOK
  <2>2. item'[i].status = status /\ \A j \in Items : j # i => item'[j] = item[j]
    BY <1>1, <2>1 DEF CreateItem, NoItem, ItemInv, ItemTypeOK
  <2>3. st' = [st EXCEPT ![i] = status]
    BY <2>2
  <2>4. log' = [log EXCEPT ![i] = Append(@, <<"none", status>>)]
    BY <1>1, <2>1 DEF CreateItem, ItemInv, ItemTypeOK
  <2> QED
    BY <2>1, <2>3, <2>4 DEF ItemTrail!Next, ItemTrail!Create, ItemTrail!Logged
<1>2. ASSUME NEW t \in Threads, WriteItem(t) PROVE ItemTrail!Next
  <2>1. Doing(t, "move") /\ JobOK(t)
    BY <1>2 DEF WriteItem, ItemInv
  <2>2. PICK i \in Items : i = job[t].item
    BY <2>1, JobHas
  <2>3. <<job[t].seen.status, job[t].to>> \in ActionMoves /\ job[t].seen.status \in ItemHad(i)
    BY <2>1, <2>2 DEF JobOK
  <2>4. PICK m \in ActionMoves : m = <<job[t].seen.status, job[t].to>>
    BY <2>3
  <2>5. /\ item' = [item EXCEPT ![i] = Updated(@, job[t].seen, m[2])]
        /\ item \in [Items -> ItemRow \cup {NoItem}] /\ item[i] \in ItemRow
    BY <1>2, <2>1, <2>2, <2>4, JobHas DEF WriteItem, ItemInv, ItemTypeOK
  <2>6. \A j \in Items : item'[j].status = IF j = i THEN m[2] ELSE item[j].status
    BY <2>5 DEF Updated, ItemRow
  <2>7. st' = [st EXCEPT ![i] = m[2]]
    BY <2>6
  <2>8. log' = [log EXCEPT ![i] = Append(@, <<m[1], m[2]>>)]
    BY <1>2, <2>2, <2>4 DEF WriteItem
  <2>9. ItemTrail!Move(i)
    BY <2>3, <2>4, <2>7, <2>8 DEF ItemTrail!Move, ItemTrail!Logged, ItemTrail!Had, ItemHad
  <2> QED
    BY <2>9 DEF ItemTrail!Next
<1>3. CASE UNCHANGED <<item, log>>
  BY <1>3
<1> QED
  BY <1>1, <1>2, <1>3
     DEF ItemNext, itemVars, itemTables, AddNote, ReadItem, ReadLink, InsertLink, DropJob

\* Every race of requests leaves a trail of legal moves that ends in the status.
THEOREM ItemsLeaveATrail == ItemSpec => ImplementsItemTrail
<1>1. ItemInit => ItemTrail!Init
  BY DEF ItemInit, NoItem, ItemTrail!Init
<1> QED
  BY <1>1, ItemStart, ItemStep, ItemStepIsLogged, PTL
     DEF ItemSpec, ImplementsItemTrail, ItemTrail!Spec

\* No item is about to be moved by two requests at a time, as for the actions.
AboutToMove(t, i) == Doing(t, "move") /\ job[t].item = i
ItemsApart == \A i \in Items : \A s, t \in Threads : AboutToMove(s, i) /\ AboutToMove(t, i) => s = t

\* Then what a request has read is still so when it writes.
SeenIsCurrent == \A t \in Threads : Doing(t, "move") => job[t].seen = item[job[t].item]

\* A status only moves along the lifecycle, from where it is.
ItemMovesAreStrict == \A i \in Items :
    item'[i].status # item[i].status =>
        item[i].status = "none" \/ <<item[i].status, item'[i].status>> \in ActionMoves

\* An item that waits for approval says so in both its columns, and so does one that was
\* approved; an item created as approved has the approval its payload gave it.
ApprovalFollows == \A i \in Items :
    /\ item[i].status = "pending_approval" => item[i].approval = "pending"
    /\ item[i].status = "approved" /\ Len(log[i]) > 1 => item[i].approval = "approved"

\* A write moves the item of its request and leaves the others alone.
LEMMA ItemWritten ==
    ASSUME ItemInv, NEW t \in Threads, WriteItem(t)
    PROVE  /\ Doing(t, "move") /\ job[t].item \in Items /\ job[t].seen \in ItemRow /\ job[t].to \in ActionStatuses
           /\ <<job[t].seen.status, job[t].to>> \in ActionMoves
           /\ item'[job[t].item] = Updated(item[job[t].item], job[t].seen, job[t].to)
           /\ item[job[t].item] \in ItemRow
           /\ job' = [job EXCEPT ![t] = Free]
<1>1. Doing(t, "move")
  BY DEF WriteItem
<1>2. /\ job[t].item \in Items /\ job[t].seen \in ItemRow /\ job[t].to \in ActionStatuses
      /\ item[job[t].item] \in ItemRow
  BY <1>1, JobHas
<1>3. <<job[t].seen.status, job[t].to>> \in ActionMoves
  BY <1>1 DEF ItemInv, JobOK
<1>4. /\ item' = [item EXCEPT ![job[t].item] = Updated(@, job[t].seen, job[t].to)]
      /\ job' = [job EXCEPT ![t] = Free]
  BY DEF WriteItem, Turn
<1>5. item'[job[t].item] = Updated(item[job[t].item], job[t].seen, job[t].to)
  BY <1>2, <1>4 DEF ItemInv, ItemTypeOK
<1> QED
  BY <1>1, <1>2, <1>3, <1>4, <1>5

LEMMA OthersUnmoved ==
    ASSUME ItemInv, NEW t \in Threads, WriteItem(t), NEW i \in Items, i # job[t].item
    PROVE  item'[i] = item[i] /\ log'[i] = log[i]
BY DEF WriteItem, ItemInv, ItemTypeOK

\* A step creates an item, writes one, or leaves them all alone.
LEMMA ItemStepIs ==
    ASSUME ItemInv, [ItemNext]_itemVars
    PROVE  \/ \E i \in Items, s \in NewStatuses, a \in NewApprovals : CreateItem(i, s, a)
           \/ \E t \in Threads : WriteItem(t)
           \/ UNCHANGED <<item, log>>
<1>1. CASE UNCHANGED itemVars
  BY <1>1 DEF itemVars, itemTables
<1>2. ASSUME NEW i \in Items, AddNote(i) PROVE UNCHANGED <<item, log>>
  BY <1>2 DEF AddNote
<1>3. ASSUME NEW t \in Threads, NEW i \in Items, NEW to \in ActionStatuses, ReadItem(t, i, to)
      PROVE  UNCHANGED <<item, log>>
  BY <1>3 DEF ReadItem, itemTables
<1>4. ASSUME NEW t \in Threads, NEW i \in Items, NEW on \in Items, ReadLink(t, i, on)
      PROVE  UNCHANGED <<item, log>>
  BY <1>4 DEF ReadLink, itemTables
<1>5. ASSUME NEW t \in Threads, InsertLink(t) \/ DropJob(t) PROVE UNCHANGED <<item, log>>
  BY <1>5 DEF InsertLink, DropJob, itemTables
<1> QED
  BY <1>1, <1>2, <1>3, <1>4, <1>5 DEF ItemNext

\* A step that stores nothing keeps what has been read, and reads what there is.
LEMMA QuietItemStep ==
    ASSUME ItemInv, SeenIsCurrent, [ItemNext]_itemVars, UNCHANGED item, NEW t \in Threads, Doing(t, "move")'
    PROVE  job'[t].seen = item[job'[t].item]
<1>1. CASE job'[t] = job[t]
  BY <1>1 DEF SeenIsCurrent, Doing
<1>2. ASSUME NEW u \in Threads, NEW i \in Items, NEW to \in ActionStatuses, ReadItem(u, i, to)
      PROVE  job'[t].seen = item[job'[t].item]
  <2>1. CASE u = t
    <3>1. job'[t].item = i /\ job'[t].seen = item[i]
      BY <1>2, <2>1 DEF ReadItem, Turn, ItemInv, ItemTypeOK
    <3> QED
      BY <3>1
  <2>2. CASE u # t
    BY <1>1, <1>2, <2>2 DEF ReadItem, Turn, ItemInv, ItemTypeOK
  <2> QED
    BY <2>1, <2>2
<1>3. ASSUME NEW u \in Threads, NEW j, Turn(u, j), j.does # "move" PROVE job'[t] = job[t]
  BY <1>3 DEF Turn, Doing, ItemInv, ItemTypeOK
<1>4. ASSUME NEW u \in Threads, NEW i \in Items, NEW on \in Items, ReadLink(u, i, on) PROVE job'[t] = job[t]
  <2>1. \E j : Turn(u, j) /\ j.does # "move"
    <3>1. [does |-> "link", pair |-> <<i, on>>].does # "move"
      OBVIOUS
    <3> QED
      BY <1>4, <3>1 DEF ReadLink
  <2> QED
    BY <1>3, <2>1
<1>5. ASSUME NEW u \in Threads, WriteItem(u) \/ InsertLink(u) \/ DropJob(u) PROVE job'[t] = job[t]
  BY <1>3, <1>5 DEF WriteItem, InsertLink, DropJob, Free
<1>6. ASSUME NEW i \in Items, AddNote(i) PROVE job'[t] = job[t]
  BY <1>6 DEF AddNote
<1>7. ASSUME NEW i \in Items, NEW s \in NewStatuses, NEW a \in NewApprovals, CreateItem(i, s, a) PROVE job'[t] = job[t]
  BY <1>7 DEF CreateItem
<1>8. CASE UNCHANGED itemVars
  BY <1>8, <1>1 DEF itemVars
<1> QED
  BY <1>1, <1>2, <1>4, <1>5, <1>6, <1>7, <1>8 DEF ItemNext

\* A step keeps what others have read when no item is moved by two.
LEMMA SeenStaysCurrent ==
    ASSUME ItemInv, ItemsApart, SeenIsCurrent, [ItemNext]_itemVars PROVE SeenIsCurrent'
<1>1. ASSUME NEW i \in Items, NEW s \in NewStatuses, NEW a \in NewApprovals, CreateItem(i, s, a)
      PROVE  SeenIsCurrent'
  <2> SUFFICES ASSUME NEW t \in Threads, job'[t].does = "move" PROVE job'[t].seen = item'[job'[t].item]
    BY DEF SeenIsCurrent, Doing
  <2>1. job' = job /\ ~ Stored(i) /\ \A k \in Items \ {i} : item'[k] = item[k]
    BY <1>1 DEF CreateItem, ItemInv, ItemTypeOK
  <2>2. Doing(t, "move") /\ JobOK(t)
    BY <2>1 DEF Doing, ItemInv
  <2>3. job[t].item \in Items /\ Stored(job[t].item)
    BY <2>2, JobHas DEF JobOK
  <2> QED
    BY <2>1, <2>2, <2>3 DEF SeenIsCurrent
<1>2. ASSUME NEW t \in Threads, WriteItem(t) PROVE SeenIsCurrent'
  <2> SUFFICES ASSUME NEW u \in Threads, job'[u].does = "move" PROVE job'[u].seen = item'[job'[u].item]
    BY DEF SeenIsCurrent, Doing
  <2>1. job' = [job EXCEPT ![t] = Free] /\ Doing(t, "move")
    BY <1>2, ItemWritten
  <2>2. u # t /\ job'[u] = job[u] /\ Doing(u, "move")
    BY <2>1 DEF Doing, Free, ItemInv, ItemTypeOK
  <2>3. job[u].item \in Items /\ job[t].item \in Items
    BY <2>1, <2>2, JobHas
  <2>4. job[u].item # job[t].item
    BY <2>1, <2>2, <2>3 DEF ItemsApart, AboutToMove
  <2> QED
    BY <1>2, <2>2, <2>3, <2>4, OthersUnmoved DEF SeenIsCurrent
<1>3. CASE UNCHANGED <<item, log>>
  BY <1>3, QuietItemStep DEF SeenIsCurrent
<1> QED
  BY <1>1, <1>2, <1>3, ItemStepIs

\* What is written from a current reading moves from where the item is, and sets its approval.
LEMMA ItemMovesStrictly ==
    ASSUME ItemInv, SeenIsCurrent, ApprovalFollows, [ItemNext]_itemVars
    PROVE  ItemMovesAreStrict /\ ApprovalFollows'
<1>1. ASSUME NEW i \in Items, NEW s \in NewStatuses, NEW a \in NewApprovals, CreateItem(i, s, a)
      PROVE  ItemMovesAreStrict /\ ApprovalFollows'
  <2>1. /\ item[i].status = "none" /\ item'[i].status = s /\ Len(log'[i]) = 1
        /\ s = "pending_approval" => item'[i].approval = "pending"
        /\ \A k \in Items \ {i} : item'[k] = item[k] /\ log'[k] = log[k]
    BY <1>1 DEF CreateItem, Stored, NoItem, ItemInv, ItemTypeOK
  <2>2. ItemMovesAreStrict
    BY <2>1 DEF ItemMovesAreStrict
  <2>3. ~ (Len(log'[i]) > 1)
    BY <2>1
  <2>4. ApprovalFollows'
    BY <2>1, <2>3 DEF ApprovalFollows
  <2> QED
    BY <2>2, <2>4
<1>2. ASSUME NEW t \in Threads, WriteItem(t) PROVE ItemMovesAreStrict /\ ApprovalFollows'
  <2>1. PICK i \in Items, to \in ActionStatuses : i = job[t].item /\ to = job[t].to
    BY <1>2, ItemWritten
  <2>2. /\ job[t].seen = item[i] /\ item[i] \in ItemRow /\ <<item[i].status, to>> \in ActionMoves
        /\ item'[i] = Updated(item[i], item[i], to)
    BY <1>2, <2>1, ItemWritten DEF SeenIsCurrent
  <2>3. item'[i].status = to /\ item'[i].approval = ApprovalAfter(item[i], to)
    BY <2>2 DEF Updated, ItemRow
  <2>4. /\ to = "pending_approval" => item'[i].approval = "pending"
        /\ to = "approved" => item'[i].approval = "approved"
    BY <2>3 DEF ApprovalAfter
  <2>5. \A k \in Items : k # i => item'[k] = item[k] /\ log'[k] = log[k]
    BY <1>2, <2>1, OthersUnmoved
  <2> QED
    BY <2>2, <2>3, <2>4, <2>5 DEF ItemMovesAreStrict, ApprovalFollows
<1>3. CASE UNCHANGED <<item, log>>
  BY <1>3 DEF ItemMovesAreStrict, ApprovalFollows
<1> QED
  BY <1>1, <1>2, <1>3, ItemStepIs

\* While no two requests are about to move one item, it moves along the lifecycle only,
\* and the two columns that speak of its approval agree (transition_work_item).
THEOREM ItemsMoveInOrder ==
    ItemSpec /\ []ItemsApart => [][ItemMovesAreStrict]_itemVars /\ []ApprovalFollows
<1>1. ItemInit => SeenIsCurrent /\ ApprovalFollows
  BY DEF ItemInit, SeenIsCurrent, ApprovalFollows, NoItem, Doing, Free
<1>2. ItemInv /\ SeenIsCurrent /\ ApprovalFollows /\ [ItemNext]_itemVars => [ItemMovesAreStrict]_itemVars /\ ApprovalFollows'
  BY ItemMovesStrictly
<1> QED
  BY <1>1, <1>2, ItemStart, ItemStep, SeenStaysCurrent, PTL DEF ItemSpec
=============================================================================
