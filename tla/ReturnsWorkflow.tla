--------------------------- MODULE ReturnsWorkflow ---------------------------
(***************************************************************************)
(* The RMA service of app/returns/service.py as gunicorn threads run it.   *)
(*                                                                         *)
(* SQLite opens its transaction at the first INSERT or UPDATE, and no row  *)
(* carries a version: a handler reads in one step, other requests may      *)
(* commit, and it writes in a later step from what it read.  `seen' is the *)
(* ORM snapshot a handler holds between the two; SQLAlchemy writes only    *)
(* the columns whose new value differs from that snapshot (OrmWrite).      *)
(* Handlers that open several sessions take one such pair per session.     *)
(* A line item stands for the return's lines; price is one, percentage 100.*)
(* Child rows that no handler reads back (shipments, inspections, comments *)
(* and attachments) are left out.                                          *)
(***************************************************************************)
EXTENDS RmaStatus, Naturals, FiniteSets

CONSTANTS
    Workers,        \* request threads
    RMAs,           \* returns
    FinalV1,        \* the RETURNS_FINAL_V1 flag
    Submissions,    \* what customers and staff may submit
    ReceivingForms, \* line payloads a receiving review may carry
    MoveTargets,    \* statuses users ask for directly (any, from the ops console)
    KyleThreshold,  \* credit from which approval is routed to Kyle (300 in the code)
    NoWeight,       \* no received weight recorded
    NoRMA,          \* the return of an idle worker
    MaxRefunds      \* bound on refund rows per return

FollowUps == {"none", "Credit", "Discount"}
Routes == {"none", "Scott", "Brian", "Kyle"}

ItemType == [returning: BOOLEAN, pack: BOOLEAN, followUp: FollowUps,
             weight: Nat, recv: Nat \cup {NoWeight}, credit: Nat]
\* A form without lines updates the header only.
SubmissionType == [item: ItemType, mode: {"policy", "legacy"},
                   evidenceMissing: BOOLEAN, autoApprovable: BOOLEAN]
FormType == [lines: BOOLEAN, pack: BOOLEAN, followUp: FollowUps, recv: Nat \cup {NoWeight}]

ASSUME SentinelAssumption == NoWeight \notin Nat /\ NoRMA \notin RMAs
ASSUME FlagAssumption == FinalV1 \in BOOLEAN
ASSUME BoundAssumption == KyleThreshold \in Nat /\ MaxRefunds \in Nat
\* create_rma refuses weights that are not positive and defaults the follow-up.
ASSUME SubmissionAssumption ==
    \A sub \in Submissions : /\ sub \in SubmissionType
                             /\ sub.item.weight > 0
                             /\ sub.item.recv = NoWeight
                             /\ sub.item.credit = sub.item.weight
                             /\ sub.item.followUp # "none"
ASSUME FormAssumption == ReceivingForms \subseteq FormType /\ MoveTargets \subseteq Statuses

VARIABLES
    rma,        \* the return_rmas row of each return
    item,       \* its line
    approvals,  \* the returns that have a return_approvals row
    trail,      \* status events of return_events, as <<from, to>> pairs
    refunds,    \* number of return_refunds rows
    pc,         \* where each worker's handler is
    job,        \* the arguments of the handler it runs
    seen        \* the rows its session has loaded

db == <<rma, item, approvals, trail, refunds>>
local == <<pc, job, seen>>
vars == <<db, local>>

-----------------------------------------------------------------------------
(* Line items, credits and routing *)

\* The weight a credit is computed from: the received one once recorded.
CreditedWeight(it) == IF it.recv = NoWeight THEN it.weight ELSE it.recv

\* _credit_amount_for_item, at one dollar a pound and 100 percent.
CreditOf(it) == CreditedWeight(it)

\* _determine_approval_target: routes on the line's stored credit.
ApprovalTarget(it) ==
    IF ~it.returning \/ it.followUp = "Discount" THEN "Scott"
    ELSE IF it.credit < KyleThreshold THEN "Brian" ELSE "Kyle"

StaleLineCredit(it, form) ==                                          \* mutant
    IF form.lines THEN [it EXCEPT !.recv = IF form.recv = NoWeight THEN 0 ELSE form.recv] ELSE it
\* What update_receiving_review makes of a line: a missing weight is coerced to zero.
ReceivedItem(it, form) ==
    LET weighed == [it EXCEPT !.pack = form.pack, !.followUp = form.followUp,
                              !.recv = IF form.recv = NoWeight THEN 0 ELSE form.recv]
    IN IF form.lines THEN [weighed EXCEPT !.credit = CreditOf(weighed)] ELSE it

-----------------------------------------------------------------------------
(* The session discipline *)

AbsentRow == [status |-> Absent, wh |-> FALSE, mgr |-> FALSE,
              rejected |-> FALSE, route |-> "none", credit |-> 0]
BlankItem == [returning |-> TRUE, pack |-> FALSE, followUp |-> "none",
              weight |-> 0, recv |-> NoWeight, credit |-> 0]
Blank == [row |-> AbsentRow, item |-> BlankItem, approval |-> FALSE]
NoForm == [lines |-> FALSE, pack |-> FALSE, followUp |-> "none", recv |-> NoWeight]
NoJob == [rma |-> NoRMA, target |-> Absent, then |-> "idle", form |-> NoForm]

\* The rows a session loads, cut to the columns its write half uses.
Snapshot(r, step) ==
    CASE step = "commit" ->
           [row |-> [AbsentRow EXCEPT !.status = rma[r].status, !.rejected = rma[r].rejected],
            item |-> BlankItem, approval |-> r \in approvals]
      [] step \in {"label", "inspect"} ->
           [Blank EXCEPT !.row = [AbsentRow EXCEPT !.status = rma[r].status]]
      [] OTHER ->
           [row |-> [AbsentRow EXCEPT !.route = rma[r].route, !.credit = rma[r].credit],
            item |-> item[r], approval |-> FALSE]

\* The row an UPDATE leaves: columns the session did not change keep what
\* other sessions have written since.
OrmWrite(current, loaded, new) ==
    [c \in DOMAIN current |-> IF new[c] = loaded[c] THEN current[c] ELSE new[c]]

Exists(r) == rma[r].status # Absent

\* A worker's session loads a return and stops before its first write.
Pause(w, step, j) == /\ pc' = [pc EXCEPT ![w] = step]
                     /\ job' = [job EXCEPT ![w] = j]
                     /\ seen' = [seen EXCEPT ![w] = Snapshot(j.rma, step)]

\* A worker closes its session and goes on to another step of the handler.
Proceed(w, step) == /\ pc' = [pc EXCEPT ![w] = step]
                    /\ job' = [job EXCEPT ![w] = IF step = "idle" THEN NoJob ELSE @]
                    /\ seen' = [seen EXCEPT ![w] = Blank]

Abandon(w) == Proceed(w, "idle")

Task(r, target) == [NoJob EXCEPT !.rma = r, !.target = target]

-----------------------------------------------------------------------------
(* create_rma *)

CreateRma(r, sub) ==
    /\ ~Exists(r)
    /\ LET s == InitialStatus(FinalV1, sub.mode, sub.evidenceMissing, sub.autoApprovable)
           scored == FinalV1 \/ sub.mode = "policy"     \* a second event, when a policy ran
       IN /\ rma' = [rma EXCEPT ![r] = [AbsentRow EXCEPT !.status = s, !.credit = CreditOf(sub.item)]]
          /\ trail' = [trail EXCEPT ![r] =
                 {<<Absent, s>>} \cup (IF scored THEN {<<"requested", s>>} ELSE {})]
    /\ item' = [item EXCEPT ![r] = sub.item]
    /\ UNCHANGED <<approvals, refunds, local>>

-----------------------------------------------------------------------------
(* transition_return: the one door every status change but two goes through *)

\* _validate_warehouse_transition and _validate_manager_transition.
PassesValidation(target, reason, row, it) ==
    FinalV1 => CASE target = "wh_approved" -> it.pack /\ it.followUp # "none"
                 [] target = "approved"    -> CreditedWeight(it) > 0 /\ row.credit = CreditOf(it)
                 [] target = "rejected"    -> reason
                 [] OTHER                    -> TRUE

NeedsApprovalRow(target) == target \in {"wh_approved", "approved", "rejected"}

\* The read half, from a handler's first step or from a later one of it.
LoadForTransition(w, j, reason) ==
    LET row == rma[j.rma]
        allowed == LegalMove(row.status, j.target) /\ PassesValidation(j.target, reason, row, item[j.rma])
    IN /\ \/ row.status = j.target /\ job' = [job EXCEPT ![w] = j]
             /\ pc' = [pc EXCEPT ![w] = j.then] /\ seen' = [seen EXCEPT ![w] = Blank]
          \/ row.status # j.target /\ ~allowed /\ Abandon(w)
          \/ row.status # j.target /\ allowed /\ Pause(w, "commit", j)
       /\ UNCHANGED db

UnstampedManager(row, loaded, target) ==                              \* mutant
    [row EXCEPT !.status = target, !.wh = @ \/ target = "wh_approved",
                !.rejected = @ \/ target = "rejected"]
RejectTakesStampsBack(row, loaded, target) ==                         \* mutant
    [row EXCEPT !.status = target,
                !.wh = (@ \/ target = "wh_approved") /\ target # "rejected",
                !.mgr = (@ \/ target = "approved") /\ target # "rejected",
                !.rejected = @ \/ target = "rejected"]
\* The row after the write half: stamps are set anew, but a rejection stamp the
\* session did not see is not in its UPDATE and survives.
Transitioned(row, loaded, target) ==
    [row EXCEPT
        !.status = target,
        !.wh = @ \/ target = "wh_approved",
        !.mgr = @ \/ target = "approved",
        !.rejected = \/ target = "rejected"
                     \/ @ /\ ~(target \in {"wh_approved", "approved"} /\ loaded.rejected)]

TransitionCommit(w) ==
    /\ pc[w] = "commit"
    /\ LET j == job[w]
           r == j.rma
           clash == NeedsApprovalRow(j.target) /\ ~seen[w].approval /\ r \in approvals
       IN \/ clash /\ Abandon(w) /\ UNCHANGED db     \* IntegrityError: the unique index on rma_id
          \/ /\ ~clash
             /\ rma' = [rma EXCEPT ![r] = Transitioned(@, seen[w].row, j.target)]
             /\ approvals' = approvals \cup (IF NeedsApprovalRow(j.target) THEN {r} ELSE {})
             /\ trail' = [trail EXCEPT ![r] = @ \cup {<<seen[w].row.status, j.target>>}]
             /\ Proceed(w, j.then)
             /\ UNCHANGED <<item, refunds>>

\* Handlers that call transition_return and nothing before it: the ops console's
\* approve, deny and override, schedule_pickup, mark_picked_up, reject_rma, complete_rma.
Transition(w, r, target, reason) ==
    /\ pc[w] = "idle"
    /\ Exists(r)
    /\ LoadForTransition(w, Task(r, target), reason)

\* The transition a multi-session handler makes after its first session.
LaterTransition(w) == pc[w] = "transition" /\ LoadForTransition(w, job[w], FALSE)

-----------------------------------------------------------------------------
(* approve_warehouse and approve_manager: a session of their own, then a transition *)

ApproveWarehouse(w, r) ==
    /\ pc[w] = "idle"
    /\ Exists(r)
    /\ Pause(w, "route", Task(r, "wh_approved"))
    /\ UNCHANGED db

StoreRoute(w) ==
    /\ pc[w] = "route"
    /\ LET loaded == seen[w].row
           new == [loaded EXCEPT !.route = ApprovalTarget(seen[w].item)]
       IN rma' = [rma EXCEPT ![job[w].rma] = OrmWrite(@, loaded, new)]
    /\ Proceed(w, "transition")
    /\ UNCHANGED <<item, approvals, trail, refunds>>

ManagerStatus == IF FinalV1 THEN "awaiting_finance" ELSE "approved"

ApproveManager(w, r) ==
    /\ pc[w] = "idle"
    /\ Exists(r)
    /\ Pause(w, "rollup", Task(r, ManagerStatus))
    /\ UNCHANGED db

StoreRollup(w) ==
    /\ pc[w] = "rollup"
    /\ LET loaded == seen[w].row
           new == [loaded EXCEPT !.credit = CreditOf(seen[w].item)]
       IN rma' = [rma EXCEPT ![job[w].rma] = OrmWrite(@, loaded, new)]
    /\ Proceed(w, "transition")
    /\ UNCHANGED <<item, approvals, trail, refunds>>

-----------------------------------------------------------------------------
(* update_receiving_review *)

UpdateReceiving(w, r, form) ==
    /\ pc[w] = "idle"
    /\ Exists(r)
    /\ rma[r].status \notin {"rejected", "denied", "completed"}
    /\ Pause(w, "receiving", [Task(r, Absent) EXCEPT !.form = form])
    /\ UNCHANGED db

StoreReceiving(w) ==
    /\ pc[w] = "receiving"
    /\ LET r == job[w].rma
           newItem == ReceivedItem(seen[w].item, job[w].form)
           newRow == [seen[w].row EXCEPT !.credit = CreditOf(newItem)]
       IN /\ item' = [item EXCEPT ![r] = OrmWrite(@, seen[w].item, newItem)]
          /\ rma' = [rma EXCEPT ![r] = OrmWrite(@, seen[w].row, newRow)]
    /\ Proceed(w, "idle")
    /\ UNCHANGED <<approvals, trail, refunds>>

-----------------------------------------------------------------------------
(* issue_label, receive_rma, inspect_rma *)

IssueLabel(w, r) ==
    /\ pc[w] = "idle"
    /\ Exists(r)
    /\ Pause(w, "label", Task(r, "awaiting_return"))
    /\ UNCHANGED db

StoreLabelAnyStatus(w) ==                                             \* mutant
    /\ pc[w] = "label"
    /\ LET r == job[w].rma
       IN /\ rma' = [rma EXCEPT ![r].status = "awaiting_return"]
          /\ trail' = [trail EXCEPT ![r] = @ \cup {<<seen[w].row.status, "awaiting_return">>}]
    /\ Proceed(w, "idle")
    /\ UNCHANGED <<item, approvals, refunds>>

\* A label is cut in any status; only two of them move on.
StoreLabel(w) ==
    /\ pc[w] = "label"
    /\ LET r == job[w].rma
           prior == seen[w].row.status
           moves == prior \in {"auto_approved", "needs_review"}
       IN /\ rma' = IF moves THEN [rma EXCEPT ![r].status = "awaiting_return"] ELSE rma
          /\ trail' = IF moves THEN [trail EXCEPT ![r] = @ \cup {<<prior, "awaiting_return">>}]
                               ELSE trail
    /\ Proceed(w, "idle")
    /\ UNCHANGED <<item, approvals, refunds>>

\* receive_rma checks in get_rma_detail's session and moves in another.
ReceiveRma(w, r) ==
    /\ pc[w] = "idle"
    /\ rma[r].status \in {"awaiting_return", "in_transit"}
    /\ pc' = [pc EXCEPT ![w] = "transition"]
    /\ job' = [job EXCEPT ![w] = Task(r, "received")]
    /\ UNCHANGED <<db, seen>>

\* disposition_map; any other disposition ends the handler after the inspection.
Dispositions == {"approved_refund", "denied", "completed", Absent}

InspectRma(w, r, disposition) ==
    /\ pc[w] = "idle"
    /\ rma[r].status \in {"received", "inspected"}
    /\ Pause(w, "inspect", Task(r, disposition))
    /\ UNCHANGED db

StoreInspection(w) ==
    /\ pc[w] = "inspect"
    /\ LET r == job[w].rma
           first == seen[w].row.status = "received"
       IN /\ rma' = IF first THEN [rma EXCEPT ![r].status = "inspected"] ELSE rma
          /\ trail' = IF first THEN [trail EXCEPT ![r] = @ \cup {<<"received", "inspected">>}]
                               ELSE trail
    /\ Proceed(w, IF job[w].target = Absent THEN "idle" ELSE "transition")
    /\ UNCHANGED <<item, approvals, refunds>>

-----------------------------------------------------------------------------
(* issue_refund *)

IssueRefundUnapproved(w, r) ==                                        \* mutant
    /\ pc[w] = "idle"
    /\ Exists(r)
    /\ pc' = [pc EXCEPT ![w] = "refund"]
    /\ job' = [job EXCEPT ![w] = [Task(r, "approved_refund") EXCEPT !.then = "refund"]]
    /\ UNCHANGED <<db, seen>>

IssueRefundAgain(w, r) ==                                             \* mutant
    /\ pc[w] = "idle"
    /\ Exists(r)
    /\ pc' = [pc EXCEPT ![w] = IF rma[r].status \in {"approved_refund", "completed"}
                               THEN "refund" ELSE "transition"]
    /\ job' = [job EXCEPT ![w] = [Task(r, "approved_refund") EXCEPT !.then = "refund"]]
    /\ UNCHANGED <<db, seen>>

\* The status is read in one session; a return not yet approved for refund is
\* first moved there, and the refund itself is written in a last session.
IssueRefund(w, r) ==
    /\ pc[w] = "idle"
    /\ Exists(r)
    /\ pc' = [pc EXCEPT ![w] = IF rma[r].status = "approved_refund" THEN "refund" ELSE "transition"]
    /\ job' = [job EXCEPT ![w] = [Task(r, "approved_refund") EXCEPT !.then = "refund"]]
    /\ UNCHANGED <<db, seen>>

\* The refund row is inserted before the return is loaded, so this session is
\* atomic; it sets "completed" without looking at the status.
StoreRefund(w) ==
    /\ pc[w] = "refund"
    /\ LET r == job[w].rma
       IN /\ refunds[r] < MaxRefunds
          /\ refunds' = [refunds EXCEPT ![r] = @ + 1]
          /\ rma' = [rma EXCEPT ![r].status = "completed"]
          /\ trail' = [trail EXCEPT ![r] = @ \cup {<<"approved_refund", "completed">>}]
    /\ Proceed(w, "idle")
    /\ UNCHANGED <<item, approvals>>

\* The worker dies or its request raises between two sessions.
Crash(w) == pc[w] # "idle" /\ Abandon(w) /\ UNCHANGED db

-----------------------------------------------------------------------------
Init ==
    /\ rma = [r \in RMAs |-> AbsentRow]
    /\ item = [r \in RMAs |-> BlankItem]
    /\ approvals = {}
    /\ trail = [r \in RMAs |-> {}]
    /\ refunds = [r \in RMAs |-> 0]
    /\ pc = [w \in Workers |-> "idle"]
    /\ job = [w \in Workers |-> NoJob]
    /\ seen = [w \in Workers |-> Blank]

Begin(w, r) ==
    \/ \E target \in MoveTargets, reason \in BOOLEAN : Transition(w, r, target, reason)
    \/ ApproveWarehouse(w, r)
    \/ ApproveManager(w, r)
    \/ \E form \in ReceivingForms : UpdateReceiving(w, r, form)
    \/ IssueLabel(w, r)
    \/ ReceiveRma(w, r)
    \/ \E d \in Dispositions : InspectRma(w, r, d)
    \/ IssueRefund(w, r)

Continue(w) ==
    \/ LaterTransition(w) \/ TransitionCommit(w)
    \/ StoreRoute(w) \/ StoreRollup(w) \/ StoreReceiving(w)
    \/ StoreLabel(w) \/ StoreInspection(w) \/ StoreRefund(w)
    \/ Crash(w)

Next ==
    \/ \E r \in RMAs, sub \in Submissions : CreateRma(r, sub)
    \/ \E w \in Workers, r \in RMAs : Begin(w, r)
    \/ \E w \in Workers : Continue(w)

Spec == Init /\ [][Next]_vars

-----------------------------------------------------------------------------
(* Properties *)

RowType == [status: Statuses \cup {Absent}, wh: BOOLEAN, mgr: BOOLEAN,
            rejected: BOOLEAN, route: Routes, credit: Nat]
JobType == [rma: RMAs \cup {NoRMA}, target: Statuses \cup {Absent},
            then: {"idle", "refund"}, form: FormType]
SeenType == [row: RowType, item: ItemType, approval: BOOLEAN]
Steps == {"idle", "transition", "commit", "route", "rollup", "receiving",
          "label", "inspect", "refund"}

\* Every column and every handler's local state has its type.
TypeOK ==
    /\ rma \in [RMAs -> RowType]
    /\ item \in [RMAs -> ItemType]
    /\ approvals \subseteq RMAs
    /\ trail \in [RMAs -> SUBSET ((Statuses \cup {Absent}) \X Statuses)]
    /\ refunds \in [RMAs -> 0..MaxRefunds]
    /\ pc \in [Workers -> Steps]
    /\ job \in [Workers -> JobType]
    /\ seen \in [Workers -> SeenType]

\* The statuses the audit trail says a return has reached.
Visited(r) == {e[2] : e \in trail[r]}

\* However requests interleave, the trail accounts for the status a return shows,
\* and each of its events but the opening ones leaves a status an earlier event
\* reached, along an edge the table allows (transition_return, issue_label,
\* inspect_rma and issue_refund write status and event in one transaction).
AuditedHistory ==
    \A r \in RMAs :
        /\ Exists(r) => rma[r].status \in Visited(r)
        /\ \A e \in trail[r] :
               \/ e[1] \in {Absent, "requested"} /\ e[2] \in InitialStatuses
               \/ e[1] \in Visited(r) /\ LegalMove(e[1], e[2])

\* No money leaves, in any interleaving of refunds, receipts, webhooks and
\* overrides, for goods that were not received, inspected and approved for refund.
RefundAfterInspection ==
    \A r \in RMAs : refunds[r] > 0 =>
        {"received", "inspected", "approved_refund"} \subseteq Visited(r)

\* The two-step approval: a return never reaches the manager's or finance's status
\* without the warehouse's stamp, which nothing takes back, not even a rejection;
\* "approved" carries the manager's stamp as well.
TwoStepApproval ==
    \A r \in RMAs :
        /\ Visited(r) \cap {"approved", "awaiting_finance"} # {} => rma[r].wh
        /\ "approved" \in Visited(r) => rma[r].mgr

\* With the sessions of each return apart, crashes between them included, the stamps
\* on the row tell the same story as its status.
StampsMatchStatus ==
    \A r \in RMAs :
        /\ rma[r].rejected => rma[r].status \in {"rejected", "completed"}
        /\ rma[r].status = "rejected" => rma[r].rejected
        /\ rma[r].status \in {"wh_approved", "approved", "awaiting_finance"} => rma[r].wh
        /\ rma[r].status = "approved" => rma[r].mgr

\* With the sessions of each return apart the header total and the line's stored credit are
\* both what the credited weight is worth, whatever reviews and approvals ran.
TotalsInSync ==
    \A r \in RMAs : Exists(r) => /\ rma[r].credit = CreditOf(item[r])
                                 /\ item[r].credit = CreditOf(item[r])

\* docs/returns_runbook.md promises strict server-side transition enforcement: a
\* return's status only ever changes along the table.  Two requests that read the
\* same row break it: the later commit overwrites the earlier one's status.
StrictTransitions ==
    [][\A r \in RMAs : \/ rma'[r].status = rma[r].status
                       \/ ~Exists(r)
                       \/ LegalMove(rma[r].status, rma'[r].status)]_vars

\* With the sessions of each return apart the service implements the promised lifecycle.
Lifecycle == INSTANCE RmaLifecycle WITH status <- [r \in RMAs |-> rma[r].status], paid <- refunds
ImplementsLifecycle == Lifecycle!Spec
=============================================================================
