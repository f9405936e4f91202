-------------------------- MODULE PlanningWriteback --------------------------
(***************************************************************************)
(* From a demand scenario to a purchase order: app/services/               *)
(* planning_scenarios.py writes the recommendations of an approved         *)
(* scenario, and app/decision_ops/service.py writes them back to a draft   *)
(* order and governs the order's lifecycle and its approval requests.      *)
(*                                                                         *)
(* A request runs in a thread of a web worker.  It reads its rows, outside *)
(* any transaction, and writes in one transaction later; two requests      *)
(* interleave between the two.  Nothing locks or versions a row: an update *)
(* writes the status it decided on whatever the row holds by then.         *)
(* Orders entered by hand and the columns no guard reads are left out.     *)
(***************************************************************************)
EXTENDS Naturals, Sequences, FiniteSets, FiniteSetsExt, Functions

CONSTANTS
    Workers, Names,
    Products,
    MaxPlans,       \* bound on scenarios created
    MaxGrants,      \* bound on a scenario's approvals, past which none is moved
    MaxOrders,      \* bound on orders asked for where there is none
    MaxRequests     \* bound on approvals asked for orders

VARIABLES
    plans,      \* planning_scenarios, by id
    grants,     \* planning_scenario_events that move a scenario to approved, counted
    recs,       \* planning_replenishment_recommendations: rows by scenario and product
    orders,     \* operational_records written back from planning, by id
    requests,   \* approval_records of the orders, by id
    task        \* what each worker has read and is about to write

tables == <<plans, grants, recs, orders, requests>>
vars == <<tables, task>>

PlanStatuses == {"draft", "pending_approval", "approved", "rejected"}
PlanTransitions == {<<"draft", "pending_approval">>,
                    <<"pending_approval", "approved">>, <<"pending_approval", "rejected">>}

OrderStatuses == {"requisition", "draft_po", "pending_approval", "approved", "ordered",
                  "partially_received", "received", "matched", "payment_scheduled", "closed",
                  "exception", "cancelled"}
AnyStepDown(s) ==                                                     \* mutant
    CASE s = "draft_po" -> {"pending_approval", "ordered", "cancelled"}
      [] s = "pending_approval" -> {"approved", "draft_po", "cancelled"}
      [] s = "approved" -> {"ordered", "cancelled"}
      [] OTHER -> {}
OrderMoves(s) ==
    CASE s = "requisition" -> {"draft_po", "cancelled"}
      [] s = "draft_po" -> {"pending_approval", "cancelled"}
      [] s = "pending_approval" -> {"approved", "draft_po", "cancelled"}
      [] s = "approved" -> {"ordered", "cancelled"}
      [] s = "ordered" -> {"partially_received", "received", "exception", "cancelled"}
      [] s = "partially_received" -> {"received", "exception", "cancelled"}
      [] s = "received" -> {"matched", "exception"}
      [] s = "matched" -> {"payment_scheduled", "closed", "exception"}
      [] s = "payment_scheduled" -> {"closed", "exception"}
      [] s = "exception" -> {"draft_po", "ordered", "received", "matched",
                             "payment_scheduled", "cancelled"}
      [] s \in {"closed", "cancelled"} -> {}

Lines == [Products -> Nat]
NoLines == [x \in Products |-> 0]
Idle == [op |-> "idle"]
Does(w, op) == task[w].op = op
Then(w, t) == task' = [task EXCEPT ![w] = t]

-----------------------------------------------------------------------------
(* create_scenario, create_version *)

VersionsOf(n) == {plans[p].version : p \in {q \in DOMAIN plans : plans[q].name = n}}

\* The recommendations are computed, then the highest version of the name is read.
ReadVersion(w, n, results) ==
    /\ Does(w, "idle")
    /\ Then(w, [op |-> "create", name |-> n, results |-> results,
                version |-> Max(VersionsOf(n) \cup {0}) + 1])
    /\ UNCHANGED tables

InsertAnyVersion(w) ==                                                \* mutant
    /\ Does(w, "create") /\ Len(plans) < MaxPlans
    /\ plans' = Append(plans, [name |-> task[w].name, version |-> task[w].version,
                               status |-> "draft", results |-> task[w].results])
    /\ grants' = Append(grants, 0) /\ recs' = Append(recs, NoLines)
    /\ Then(w, Idle)
    /\ UNCHANGED <<orders, requests>>
\* The index on name and version refuses a version taken meanwhile.
InsertPlan(w) ==
    /\ Does(w, "create") /\ Len(plans) < MaxPlans
    /\ task[w].version \notin VersionsOf(task[w].name)
    /\ plans' = Append(plans, [name |-> task[w].name, version |-> task[w].version,
                               status |-> "draft", results |-> task[w].results])
    /\ grants' = Append(grants, 0) /\ recs' = Append(recs, NoLines)
    /\ Then(w, Idle)
    /\ UNCHANGED <<orders, requests>>

-----------------------------------------------------------------------------
(* transition_scenario *)

ReadPlan(w, p, to) ==
    /\ Does(w, "idle") /\ \A q \in DOMAIN plans : grants[q] < MaxGrants
    /\ <<plans[p].status, to>> \in PlanTransitions
    /\ Then(w, [op |-> "move", plan |-> p, to |-> to])
    /\ UNCHANGED tables

\* An approval adds the scenario's recommendations, whole, to those already written.
WithResults(p) ==
    [x \in Products |-> recs[p][x] + (IF x \in plans[p].results THEN 1 ELSE 0)]

WriteAnyDecision(w) ==                                                \* mutant
    LET p == task[w].plan IN
    /\ Does(w, "move")
    /\ plans' = [plans EXCEPT ![p].status = task[w].to]
    /\ grants' = IF task[w].to = "approved" THEN [grants EXCEPT ![p] = @ + 1] ELSE grants
    /\ recs' = IF task[w].to # "pending_approval" THEN [recs EXCEPT ![p] = WithResults(p)] ELSE recs
    /\ Then(w, Idle)
    /\ UNCHANGED <<orders, requests>>
WritePlan(w) ==
    LET p == task[w].plan IN
    /\ Does(w, "move")
    /\ plans' = [plans EXCEPT ![p].status = task[w].to]
    /\ IF task[w].to = "approved"
       THEN /\ grants' = [grants EXCEPT ![p] = @ + 1]
            /\ recs' = [recs EXCEPT ![p] = WithResults(p)]
       ELSE UNCHANGED <<grants, recs>>
    /\ Then(w, Idle)
    /\ UNCHANGED <<orders, requests>>

-----------------------------------------------------------------------------
(* create_planning_draft_po, create_operational_record *)

OrdersOf(p) == {o \in DOMAIN orders : orders[o].plan = p}

ReadApproved(w, p) ==
    /\ Does(w, "idle") /\ plans[p].status = "approved"
    /\ OrdersOf(p) # {} \/ Len(orders) < MaxOrders
    /\ Then(w, [op |-> "read", plan |-> p])
    /\ UNCHANGED tables

ReadEvenNone(w) ==                                                    \* mutant
    /\ Does(w, "read")
    /\ Then(w, [op |-> "find", plan |-> task[w].plan, lines |-> recs[task[w].plan]])
    /\ UNCHANGED tables
\* A scenario without recommendations is refused.
ReadRecommendations(w) ==
    /\ Does(w, "read")
    /\ Then(w, IF recs[task[w].plan] = NoLines THEN Idle
               ELSE [op |-> "find", plan |-> task[w].plan, lines |-> recs[task[w].plan]])
    /\ UNCHANGED tables

\* An order of the scenario that is there already is the answer.
FindOrder(w) ==
    /\ Does(w, "find")
    /\ Then(w, IF OrdersOf(task[w].plan) # {} THEN Idle ELSE [task[w] EXCEPT !.op = "insert"])
    /\ UNCHANGED tables

DraftOrder(w, status) == [plan |-> task[w].plan, lines |-> task[w].lines, status |-> status]

InsertEither(w) ==                                                    \* mutant
    /\ Does(w, "insert")
    /\ orders' = Append(orders, DraftOrder(w, "draft_po"))
    /\ Then(w, Idle)
    /\ UNCHANGED <<plans, grants, recs, requests>>
\* The index on the source identity refuses a second order of the scenario.
InsertOrder(w) ==
    /\ Does(w, "insert") /\ OrdersOf(task[w].plan) = {}
    /\ orders' = Append(orders, DraftOrder(w, "draft_po"))
    /\ Then(w, Idle)
    /\ UNCHANGED <<plans, grants, recs, requests>>

-----------------------------------------------------------------------------
(* transition_operational_record *)

ReadOrder(w, o, to) ==
    /\ Does(w, "idle") /\ to \in OrderMoves(orders[o].status)
    /\ to = "pending_approval" => Len(requests) < MaxRequests
    /\ Then(w, [op |-> "advance", order |-> o, to |-> to])
    /\ UNCHANGED tables

Pending(o) == {i \in DOMAIN requests : requests[i] = [order |-> o, status |-> "pending"]}

\* An approval decides the newest request that is pending, if one is.
WriteOrder(w) ==
    LET o == task[w].order IN
    /\ Does(w, "advance")
    /\ orders' = [orders EXCEPT ![o].status = task[w].to]
    /\ requests' =
        CASE task[w].to = "pending_approval" ->
                Append(requests, [order |-> o, status |-> "pending"])
          [] task[w].to = "approved" /\ Pending(o) # {} ->
                [requests EXCEPT ![Max(Pending(o))].status = "approved"]
          [] OTHER -> requests
    /\ Then(w, Idle)
    /\ UNCHANGED <<plans, grants, recs>>

\* A worker is killed, or its request fails, before it writes.
Abandon(w) == /\ task[w] # Idle
              /\ Then(w, Idle)
              /\ UNCHANGED tables

-----------------------------------------------------------------------------
Init ==
    /\ plans = <<>> /\ grants = <<>> /\ recs = <<>>
    /\ orders = <<>> /\ requests = <<>>
    /\ task = [w \in Workers |-> Idle]

Begin(w) ==
    \/ \E n \in Names, results \in SUBSET Products : ReadVersion(w, n, results)
    \/ \E p \in DOMAIN plans : \/ \E to \in PlanStatuses : ReadPlan(w, p, to)
                               \/ ReadApproved(w, p)
    \/ \E o \in DOMAIN orders, to \in OrderStatuses : ReadOrder(w, o, to)

Continue(w) ==
    \/ InsertPlan(w) \/ WritePlan(w)
    \/ ReadRecommendations(w) \/ FindOrder(w) \/ InsertOrder(w)
    \/ WriteOrder(w)

Next == \E w \in Workers : Begin(w) \/ Continue(w) \/ Abandon(w)

Spec == Init /\ [][Next]_vars

-----------------------------------------------------------------------------
(* Properties *)

Task ==
    [op: {"idle"}]
    \cup [op: {"create"}, name: Names, results: SUBSET Products, version: Nat \ {0}]
    \cup [op: {"move"}, plan: DOMAIN plans, to: PlanStatuses]
    \cup [op: {"read"}, plan: DOMAIN plans]
    \cup [op: {"find", "insert"}, plan: DOMAIN plans, lines: Lines]
    \cup [op: {"advance"}, order: DOMAIN orders, to: OrderStatuses]

TypeOK ==
    /\ plans \in Seq([name: Names, version: Nat \ {0}, status: PlanStatuses,
                      results: SUBSET Products])
    /\ grants \in Seq(Nat) /\ recs \in Seq(Lines)
    /\ DOMAIN grants = DOMAIN plans /\ DOMAIN recs = DOMAIN plans
    /\ orders \in Seq([plan: DOMAIN plans, lines: Lines, status: OrderStatuses])
    /\ requests \in Seq([order: DOMAIN orders, status: {"pending", "approved"}])
    /\ task \in [Workers -> Task]

\* The versions of a scenario's name are 1, 2, 3, ... without a gap or a double,
\* though each is chosen before it is written (create_scenario).
VersionsCountUp ==
    \A n \in Names : VersionsOf(n) = 1..Cardinality({p \in DOMAIN plans : plans[p].name = n})

\* Recommendations exist exactly as often as their scenario was approved, and all of
\* them: never for one that is only submitted or rejected (transition_scenario).
RecommendationsAreApproved ==
    \A p \in DOMAIN plans :
        recs[p] = [x \in Products |-> IF x \in plans[p].results THEN grants[p] ELSE 0]

\* An order's lines are its scenario's recommendations as some approval left them: it
\* is never empty, never of a part, never of a scenario nobody approved.
OrdersWriteBackApprovals ==
    \A o \in DOMAIN orders :
        LET p == orders[o].plan IN
        \E k \in 1..grants[p] :
            /\ plans[p].results # {}
            /\ orders[o].lines = [x \in Products |-> IF x \in plans[p].results THEN k ELSE 0]

\* Write-back is idempotent: however many requests ask for it, a scenario has one order.
OneOrderPerPlan == \A o, q \in DOMAIN orders : orders[o].plan = orders[q].plan => o = q

\* An order that is approved, or is past it, was approved by a request of its own, and
\* one that waits for approval has a request somebody can still decide.
OrdersAreDecided ==
    \A o \in DOMAIN orders :
        /\ orders[o].status = "pending_approval" => Pending(o) # {}
        /\ orders[o].status \notin {"requisition", "draft_po", "pending_approval", "cancelled"}
           => [order |-> o, status |-> "approved"] \in Range(requests)
=============================================================================
