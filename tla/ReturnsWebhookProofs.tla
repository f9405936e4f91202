------------------------- MODULE ReturnsWebhookProofs -------------------------
(* The desk's promises survive its webhook, and the webhook keeps its own, for   *)
(* every number of workers, returns and events.                                  *)
EXTENDS ReturnsWebhook, ReturnsWorkflowProofs

-----------------------------------------------------------------------------
(* The inbox *)

\* What is filed asks for something, and an event is run by one worker while pending.
InboxInv ==
    /\ WebTypeOK
    /\ RunOnce
    /\ \A e \in Events : inbox[e].status # "none" => inbox[e].ask \in Asks
    /\ \A w \in Workers : Handles(w) => hand[w].status # "none"

\* Nothing is filed at first.
LEMMA InboxStart == WebInit => InboxInv
BY CarrierAssumption
   DEF WebInit, InboxInv, WebTypeOK, RowStatuses, NoRow, NoAsk, Empty, RunOnce, Handles

\* A worker that decides on the outcome of its event still runs it, alone.
LEMMA DecideInbox ==
    ASSUME InboxInv, NEW w \in Workers, Handles(w), NEW status \in {"processed", "error"}, Decide(w, status)
    PROVE  InboxInv'
<1>1. hand' = [hand EXCEPT ![w].status = status] /\ inbox' = inbox
  BY DEF Decide
<1>2. /\ \A v \in Workers : hand'[v].event = hand[v].event
      /\ \A v \in Workers : hand'[v].status \in {hand[v].status, "processed", "error"}
      /\ WebTypeOK'
  BY <1>1 DEF InboxInv, WebTypeOK, RowStatuses
<1> QED
  BY <1>1, <1>2 DEF InboxInv, RunOnce, Handles

\* A worker that lets go of its event leaves the other workers theirs.
LEMMA ReleaseInbox ==
    ASSUME InboxInv, NEW w \in Workers, Handles(w),
           hand' = [hand EXCEPT ![w] = Empty],
           NEW status \in {"pending", "processed", "error"},
           inbox' = [inbox EXCEPT ![hand[w].event].status = status]
    PROVE  InboxInv'
<1>1. hand[w].event \in Events /\ inbox[hand[w].event] \in [ask: Asks \cup {NoAsk}, status: RowStatuses]
  BY DEF InboxInv, WebTypeOK, Handles
<1>2. inbox[hand[w].event].status = "pending"
  BY DEF InboxInv, RunOnce
<1>3. /\ hand'[w] = Empty
      /\ \A v \in Workers \ {w} : hand'[v] = hand[v] /\ hand[v].event # hand[w].event
      /\ \A e \in Events \ {hand[w].event} : inbox'[e] = inbox[e]
      /\ inbox'[hand[w].event].ask = inbox[hand[w].event].ask
  BY <1>1 DEF InboxInv, WebTypeOK, RunOnce
<1>4. WebTypeOK'
  BY <1>1 DEF InboxInv, WebTypeOK, Empty, RowStatuses
<1>5. RunOnce'
  <2> SUFFICES ASSUME NEW v \in Workers, Handles(v)'
               PROVE  /\ inbox'[hand'[v].event].status = "pending"
                      /\ \A u \in Workers \ {v} : hand'[u].event # hand'[v].event
    BY DEF RunOnce
  <2>1. v # w
    BY <1>3 DEF Handles, Empty
  <2>2. Handles(v) /\ hand[v].event \in Events \ {hand[w].event}
    BY <1>3, <2>1 DEF Handles, InboxInv, WebTypeOK
  <2> QED
    BY <1>3, <2>1, <2>2, CarrierAssumption DEF InboxInv, RunOnce, Handles, Empty
<1>6. \A e \in Events : inbox'[e].status # "none" => inbox'[e].ask \in Asks
  BY <1>1, <1>2, <1>3 DEF InboxInv
<1>7. \A v \in Workers : Handles(v)' => hand'[v].status # "none"
  BY <1>3 DEF InboxInv, Handles, Empty
<1> QED
  BY <1>4, <1>5, <1>6, <1>7 DEF InboxInv

\* A new event is run by the worker that filed it.
LEMMA PostInbox ==
    ASSUME InboxInv, NEW w \in Workers, NEW e \in Events, NEW ask \in Asks, Post(w, e, ask)
    PROVE  InboxInv'
<1> DEFINE row == [ask |-> ask, status |-> "pending"]
           mine == [event |-> e, status |-> "pending"]
<1>1. row \in [ask: Asks \cup {NoAsk}, status: RowStatuses] /\ row.ask = ask /\ row.status = "pending"
  BY DEF RowStatuses
<1>2. mine \in [event: Events \cup {NoEvent}, status: RowStatuses] /\ mine.event = e /\ mine.status # "none"
  BY DEF RowStatuses
<1>3. inbox' = [inbox EXCEPT ![e] = row] /\ hand' = [hand EXCEPT ![w] = mine] /\ inbox[e].status = "none"
  BY DEF Post
<1> HIDE DEF row, mine
<1>4. WebTypeOK'
  BY <1>1, <1>2, <1>3 DEF InboxInv, WebTypeOK
<1>5. /\ hand'[w] = mine /\ inbox'[e] = row
      /\ \A v \in Workers \ {w} : hand'[v] = hand[v]
      /\ \A x \in Events \ {e} : inbox'[x] = inbox[x]
  BY <1>3 DEF InboxInv, WebTypeOK
<1>6. \A v \in Workers : Handles(v) => hand[v].event \in Events \ {e}
  BY <1>3 DEF InboxInv, RunOnce, Handles, WebTypeOK
<1>7. RunOnce'
  <2> SUFFICES ASSUME NEW v \in Workers, Handles(v)'
               PROVE  /\ inbox'[hand'[v].event].status = "pending"
                      /\ \A u \in Workers \ {v} : hand'[u].event # hand'[v].event
    BY DEF RunOnce
  <2>1. CASE v = w
    <3>1. \A u \in Workers \ {w} : hand'[u].event # e
      BY <1>5, <1>6, CarrierAssumption DEF Handles
    <3> QED
      BY <1>1, <1>2, <1>5, <2>1, <3>1
  <2>2. CASE v # w
    <3>1. Handles(v) /\ hand'[v].event = hand[v].event
      BY <1>5, <2>2 DEF Handles
    <3> QED
      BY <1>2, <1>5, <1>6, <2>2, <3>1 DEF InboxInv, RunOnce
  <2> QED
    BY <2>1, <2>2
<1>8. \A x \in Events : inbox'[x].status # "none" => inbox'[x].ask \in Asks
  BY <1>1, <1>5 DEF InboxInv
<1>9. \A v \in Workers : Handles(v)' => hand'[v].status # "none"
  BY <1>2, <1>5 DEF InboxInv, Handles
<1> QED
  BY <1>4, <1>7, <1>8, <1>9 DEF InboxInv

\* Every step keeps the inbox in order.
LEMMA InboxStep == ASSUME InboxInv, [WebNext]_webVars PROVE InboxInv'
<1>1. ASSUME UNCHANGED inboxVars PROVE InboxInv'
  BY <1>1 DEF inboxVars, InboxInv, WebTypeOK, RunOnce, Handles
<1>2. ASSUME NEW w \in Workers, Webhook(w) PROVE InboxInv'
  <2> {"processed", "error"} \subseteq RowStatuses
    BY DEF RowStatuses
  <2>1. CASE \E e \in Events, ask \in Asks : Post(w, e, ask)
    BY <2>1, PostInbox
  <2>2. CASE Apply(w)
    BY <2>2, DecideInbox DEF Apply
  <2>3. CASE Commit(w)
    BY <1>1, <2>3 DEF Commit
  <2>4. CASE Catch(w)
    BY <2>4, DecideInbox DEF Catch
  <2>5. CASE StoreOutcome(w)
    <3>1. hand[w].status \in RowStatuses \ {"none"}
      BY <2>5 DEF StoreOutcome, InboxInv, WebTypeOK
    <3> QED
      BY <2>5, <3>1, ReleaseInbox DEF StoreOutcome, RowStatuses
  <2>6. CASE Die(w)
    <3>1. inbox' = [inbox EXCEPT ![hand[w].event].status = "pending"]
      BY <2>6 DEF Die, InboxInv, RunOnce, WebTypeOK, Handles
    <3> QED
      BY <2>6, <3>1, ReleaseInbox DEF Die
  <2> QED
    BY <1>2, <2>1, <2>2, <2>3, <2>4, <2>5, <2>6 DEF Webhook
<1> QED
  BY <1>1, <1>2 DEF WebNext, Desk, webVars

\* The table of events and what each worker holds of it keep their types (WebhookEvent,
\* process_webhook).
THEOREM InboxTypes == WebSpec => []WebTypeOK
<1>1. InboxInv => WebTypeOK
  BY DEF InboxInv
<1> QED
  BY <1>1, InboxStart, InboxStep, PTL DEF WebSpec

\* However often an event is delivered, one worker runs it, and only while it is pending.
THEOREM EventsRunOnce == WebSpec => []RunOnce
<1>1. InboxInv => RunOnce
  BY DEF InboxInv
<1> QED
  BY <1>1, InboxStart, InboxStep, PTL DEF WebSpec

-----------------------------------------------------------------------------
(* The webhook is a client of the desk *)

\* What a webhook does to the desk, a request of the desk could have done.
LEMMA StepIsADeskStep == ASSUME InboxInv, [WebNext]_webVars PROVE [Next]_vars
<1>1. ASSUME NEW w \in Workers, Webhook(w) PROVE [Next]_vars
  <2>1. Crash(w) => Next
    BY DEF Next, Continue
  <2>2. CASE Commit(w)
    BY <2>2 DEF Commit, Next, Continue
  <2>3. CASE Apply(w)
    <3> DEFINE ask == AsksFor(w)
    <3>1. CASE UNCHANGED vars
      BY <3>1
    <3>2. CASE ask.target # Absent /\ Transition(w, ask.rma, ask.target, FALSE)
      <4>1. ask \in Asks
        BY <2>3 DEF Apply, AsksFor, InboxInv, RunOnce, Handles, WebTypeOK
      <4>2. ask.rma \in RMAs /\ ask.target \in MoveTargets /\ FALSE \in BOOLEAN
        BY <3>2, <4>1, CarrierAssumption
      <4> HIDE DEF ask
      <4>3. Begin(w, ask.rma)
        BY <3>2, <4>2 DEF Begin
      <4> QED
        BY <4>2, <4>3 DEF Next
    <3> QED
      BY <2>3, <3>1, <3>2 DEF Apply
  <2> QED
    BY <1>1, <2>1, <2>2, <2>3 DEF Webhook, Post, Catch, StoreOutcome, Die
<1> QED
  BY <1>1 DEF WebNext, Desk, Next, webVars

\* The desk with its webhook is the desk: whatever holds of every run of the desk
\* holds with any number of deliveries, lost workers and caught errors.
THEOREM WebhookIsADeskClient == WebSpec => Spec
<1>1. WebInit => Init
  BY DEF WebInit
<1> QED
  BY <1>1, InboxStart, InboxStep, StepIsADeskStep, PTL DEF WebSpec, Spec

\* So the desk's promises hold with webhooks too: an audited history, no refund
\* without inspection and an approval in two steps.
THEOREM PromisesHoldWithWebhooks ==
    WebSpec => [](AuditedHistory /\ RefundAfterInspection /\ TwoStepApproval)
BY WebhookIsADeskClient, HistoryIsAudited, RefundsFollowInspection, ApprovalTakesTwoSteps, PTL

\* And what it promises while the sessions of each return are apart: carriers' events, errors
\* that are caught and workers that die add no step RmaLifecycle does not have.
THEOREM LifecycleHoldsWithWebhooks ==
    WebSpec /\ []SessionsApart =>
        ImplementsLifecycle /\ StrictTransitions /\ [](StampsMatchStatus /\ RefusedIsUnpaid)
BY WebhookIsADeskClient, DeskKeepsItsPromise, MovesAreStrict, StampsMatch, RefusedStaysUnpaid, PTL

-----------------------------------------------------------------------------
(* What is stored as processed was applied *)

Applied(ask) == ask.target # Absent => Exists(ask.rma) /\ ask.target \in Visited(ask.rma)

\* A worker moves the return its event is about to where the event asks, and has
\* moved it once it is to store that it has.
WorkerApplies(w) ==
    /\ pc[w] \in {"idle", "commit"}
    /\ pc[w] = "commit" => /\ job[w].rma = AsksFor(w).rma
                           /\ job[w].target = AsksFor(w).target
                           /\ job[w].then = "idle"
    /\ pc[w] = "idle" /\ hand[w].status = "processed" => Applied(AsksFor(w))

ApplyInv ==
    /\ \A e \in Events : inbox[e].status = "processed" => Applied(inbox[e].ask)
    /\ \A w \in Workers : Handles(w) => WorkerApplies(w)

\* What was applied stays applied.
LEMMA AppliedLasts ==
    ASSUME SafetyInv, [Next]_vars, NEW ask \in Asks, Applied(ask)
    PROVE  Applied(ask)'
BY ReturnsLast, CarrierAssumption DEF Applied

\* A step that stores no outcome, and leaves the other workers their events and places.
LEMMA WorkerStep ==
    ASSUME SafetyInv, InboxInv, InboxInv', ApplyInv, [Next]_vars, NEW w \in Workers,
           \A v \in Workers \ {w} : pc'[v] = pc[v] /\ job'[v] = job[v] /\ hand'[v] = hand[v],
           \A e \in Events : \/ inbox'[e].status = "pending" /\ inbox[e].status = "none"
                             \/ inbox'[e] = inbox[e]
                             \/ /\ inbox'[e].ask = inbox[e].ask /\ inbox[e].status # "none"
                                /\ inbox'[e].status = "processed" => Applied(inbox[e].ask),
           Handles(w)' => WorkerApplies(w)'
    PROVE  ApplyInv'
<1>1. \A ask \in Asks : Applied(ask) => Applied(ask)'
  BY AppliedLasts
<1>2. \A e \in Events : inbox'[e].status = "processed" => Applied(inbox[e].ask)'
  <2> SUFFICES ASSUME NEW e \in Events, inbox'[e].status = "processed"
               PROVE  Applied(inbox[e].ask)'
    OBVIOUS
  <2>1. inbox'[e].ask = inbox[e].ask /\ Applied(inbox[e].ask) /\ inbox[e].ask \in Asks
    BY DEF ApplyInv, InboxInv
  <2> QED
    BY <1>1, <2>1 DEF Applied, Exists, Visited
<1>3. ASSUME NEW v \in Workers \ {w}, Handles(v)' PROVE WorkerApplies(v)'
  <2>1. Handles(v) /\ hand'[v] = hand[v] /\ pc'[v] = pc[v] /\ job'[v] = job[v]
    BY <1>3 DEF Handles
  <2>2. WorkerApplies(v) /\ hand[v].event \in Events
    BY <2>1 DEF ApplyInv, InboxInv, WebTypeOK, Handles
  <2>3. inbox[hand[v].event].status = "pending"
    BY <2>1 DEF InboxInv, RunOnce
  <2>4. inbox'[hand[v].event].ask = inbox[hand[v].event].ask /\ inbox[hand[v].event].ask \in Asks
    BY <2>2, <2>3 DEF InboxInv
  <2>5. AsksFor(v)' = AsksFor(v) /\ AsksFor(v) \in Asks
    BY <2>1, <2>4 DEF AsksFor
  <2>6. Applied(AsksFor(v)) => Applied(AsksFor(v))'
    BY <1>1, <2>5 DEF Applied, Exists, Visited
  <2> QED
    BY <2>1, <2>2, <2>5, <2>6 DEF WorkerApplies
<1> QED
  BY <1>2, <1>3 DEF ApplyInv

\* Nothing is processed at first.
LEMMA ApplyStart == WebInit => ApplyInv
BY DEF WebInit, ApplyInv, NoRow, Empty, Handles

\* A request of the desk applies nothing, and undoes nothing.
LEMMA DeskApplies ==
    ASSUME SafetyInv, InboxInv, InboxInv', ApplyInv, [Next]_vars, Desk
    PROVE  ApplyInv'
<1>1. UNCHANGED <<inbox, hand>>
  BY DEF Desk, inboxVars
<1>2. ASSUME NEW v \in Workers, Handles(v) PROVE pc'[v] = pc[v] /\ job'[v] = job[v]
  <2>1. CASE \E r \in RMAs, sub \in Submissions : CreateRma(r, sub)
    BY <2>1 DEF CreateRma, local
  <2>2. CASE \E w \in Workers : ~Handles(w) /\ (Continue(w) \/ \E r \in RMAs : Begin(w, r))
    BY <1>2, <2>2, OthersStay DEF SafetyInv, TypeInv
  <2> QED
    BY <2>1, <2>2 DEF Desk
<1>3. \A ask \in Asks : Applied(ask) => Applied(ask)'
  BY AppliedLasts
<1>4. \A e \in Events : inbox'[e].status = "processed" => Applied(inbox[e].ask)'
  BY <1>1, <1>3 DEF ApplyInv, InboxInv, Applied, Exists, Visited
<1>5. ASSUME NEW v \in Workers, Handles(v)' PROVE WorkerApplies(v)'
  <2>1. Handles(v) /\ WorkerApplies(v)
    BY <1>1, <1>5 DEF Handles, ApplyInv
  <2>2. AsksFor(v)' = AsksFor(v) /\ AsksFor(v) \in Asks
    BY <1>1, <2>1 DEF AsksFor, InboxInv, RunOnce, Handles, WebTypeOK
  <2>3. Applied(AsksFor(v)) => Applied(AsksFor(v))'
    BY <1>3, <2>2 DEF Applied, Exists, Visited
  <2> QED
    BY <1>1, <1>2, <2>1, <2>2, <2>3 DEF WorkerApplies
<1> QED
  BY <1>4, <1>5 DEF ApplyInv

\* Looking at the return decides the outcome: refused, found there, or about to move.
LEMMA ApplyApplies ==
    ASSUME SafetyInv, InboxInv, NEW w \in Workers, Apply(w)
    PROVE  WorkerApplies(w)'
<1> DEFINE ask == AsksFor(w)
<1>1. TypeOK /\ AuditedHistory /\ hand \in [Workers -> [event: Events \cup {NoEvent}, status: RowStatuses]]
  BY DEF SafetyInv, TypeInv, InboxInv, WebTypeOK
<1>2. ask \in Asks
  BY DEF Apply, AsksFor, InboxInv, RunOnce, Handles, WebTypeOK
<1>3. PICK status \in {"processed", "error"} :
         /\ Decide(w, status)
         /\ \/ status = "error" /\ UNCHANGED vars
            \/ ask.target = Absent /\ UNCHANGED vars
            \/ /\ ask.target # Absent
               /\ Transition(w, ask.rma, ask.target, FALSE)
               /\ status = "processed" <=> rma[ask.rma].status = ask.target \/ pc'[w] = "commit"
  BY DEF Apply
<1>4. AsksFor(w)' = ask /\ hand'[w].status = status
  BY <1>1, <1>3 DEF Decide, AsksFor
<1>5. CASE UNCHANGED vars /\ (status = "error" \/ ask.target = Absent)
  BY <1>4, <1>5 DEF Apply, WorkerApplies, Applied, vars, local
<1> DEFINE j == Task(ask.rma, ask.target)
<1>6. CASE /\ ask.target # Absent
           /\ Transition(w, ask.rma, ask.target, FALSE)
           /\ status = "processed" <=> rma[ask.rma].status = ask.target \/ pc'[w] = "commit"
  <2>1. ask.rma \in RMAs /\ ask.target \in Statuses
    BY <1>2, <1>6, CarrierAssumption, FormAssumption
  <2>2. j \in JobType /\ j.rma = ask.rma /\ j.target = ask.target /\ j.then = "idle"
    BY <2>1, TaskType
  <2>3. LoadForTransition(w, j, FALSE) /\ Exists(ask.rma) /\ UNCHANGED db
    BY <1>6 DEF Transition, LoadForTransition
  <2> HIDE DEF j, ask
  <2>4. CASE rma[ask.rma].status = ask.target /\ pc' = [pc EXCEPT ![w] = j.then]
    <3>1. pc'[w] = "idle"
      BY <1>1, <2>2, <2>4 DEF TypeOK
    <3>2. Exists(ask.rma) /\ ask.target \in Visited(ask.rma)
      BY <1>1, <2>1, <2>3, <2>4 DEF AuditedHistory
    <3> QED
      BY <1>4, <2>3, <3>1, <3>2 DEF WorkerApplies, Applied, Exists, Visited, db
  <2>5. CASE rma[ask.rma].status # ask.target /\ Abandon(w)
    <3>1. pc'[w] = "idle"
      BY <1>1, <2>5, ProceedFrame DEF Abandon, Steps
    <3> QED
      BY <1>4, <1>6, <2>5, <3>1 DEF WorkerApplies
  <2>6. CASE Pause(w, "commit", j)
    <3>1. pc'[w] = "commit" /\ job'[w] = j
      BY <1>1, <2>2, <2>6, PauseFrame DEF Steps
    <3> QED
      BY <1>4, <2>2, <3>1 DEF WorkerApplies
  <2> QED
    BY <2>2, <2>3, <2>4, <2>5, <2>6 DEF LoadForTransition
<1> QED
  BY <1>3, <1>5, <1>6

\* The second session moves the return: no unique index stands in a carrier's way.
LEMMA CommitApplies ==
    ASSUME SafetyInv, InboxInv, ApplyInv, [Next]_vars, NEW w \in Workers, Commit(w)
    PROVE  WorkerApplies(w)'
<1> DEFINE ask == AsksFor(w)
           r == job[w].rma
<1>1. /\ TypeOK /\ TypeInv /\ r \in RMAs /\ Exists(r)
      /\ ask \in Asks
  BY WorkerTypes DEF SafetyInv, TypeInv, Commit, TransitionCommit, AsksFor, InboxInv, RunOnce, Handles, WebTypeOK
<1>2. r = ask.rma /\ job[w].target = ask.target /\ job[w].then = "idle" /\ AsksFor(w)' = ask
  BY DEF Commit, TransitionCommit, ApplyInv, WorkerApplies, inboxVars, AsksFor
<1>3. ask.target \in Statuses
  BY <1>1, <1>2, LegalMoveType DEF Commit, TransitionCommit, TypeInv, HandlerOK, WorkerOK
<1>4. ~NeedsApprovalRow(ask.target)
  BY <1>1, <1>3, IntakeStatuses, CarrierAssumption DEF NeedsApprovalRow
<1> HIDE DEF ask
<1>5. /\ trail' = [trail EXCEPT ![r] = @ \cup {<<seen[w].row.status, ask.target>>}]
      /\ Proceed(w, "idle")
  BY <1>2, <1>4 DEF Commit, TransitionCommit
<1>6. pc'[w] = "idle"
  BY <1>1, <1>5, ProceedFrame DEF Steps
<1>7. ask.target \in {e[2] : e \in trail'[r]}
  <2>1. <<seen[w].row.status, ask.target>> \in trail'[r]
    BY <1>1, <1>5 DEF TypeOK
  <2> QED
    BY <2>1
<1>8. rma'[r].status # Absent
  BY <1>1, ReturnsLast DEF Exists
<1> QED
  BY <1>2, <1>6, <1>7, <1>8 DEF WorkerApplies, Applied, Exists, Visited

\* Each step of a webhook keeps what was applied, and what is about to be, in line.
LEMMA WebhookApplies ==
    ASSUME SafetyInv, InboxInv, InboxInv', ApplyInv, [Next]_vars, NEW w \in Workers, Webhook(w)
    PROVE  ApplyInv'
<1>1. TypeOK /\ hand \in [Workers -> [event: Events \cup {NoEvent}, status: RowStatuses]]
      /\ inbox \in [Events -> [ask: Asks \cup {NoAsk}, status: RowStatuses]]
  BY DEF SafetyInv, TypeInv, InboxInv, WebTypeOK
<1>2. CASE \E e \in Events, ask \in Asks : Post(w, e, ask)
  <2> PICK e \in Events, ask \in Asks : Post(w, e, ask)
    BY <1>2
  <2>1. \A x \in Events : \/ inbox'[x].status = "pending" /\ inbox[x].status = "none"
                          \/ inbox'[x] = inbox[x]
    BY <1>1 DEF Post
  <2>2. /\ pc' = pc /\ job' = job /\ pc[w] = "idle" /\ hand'[w].status = "pending"
        /\ \A v \in Workers \ {w} : hand'[v] = hand[v]
    BY <1>1 DEF Post, vars, local
  <2>3. WorkerApplies(w)'
    BY <2>2 DEF WorkerApplies
  <2> QED
    BY <2>1, <2>2, <2>3, WorkerStep
<1>3. CASE Apply(w)
  <2>1. \A v \in Workers \ {w} : pc'[v] = pc[v] /\ job'[v] = job[v]
    <3>1. CASE UNCHANGED vars
      BY <3>1 DEF vars, local
    <3>2. ASSUME NEW r, NEW target, Transition(w, r, target, FALSE)
          PROVE  \A v \in Workers \ {w} : pc'[v] = pc[v] /\ job'[v] = job[v]
      BY <1>1, <3>2 DEF Transition, LoadForTransition, Abandon, Proceed, Pause, TypeOK
    <3> QED
      BY <1>3, <3>1, <3>2 DEF Apply
  <2>2. inbox' = inbox /\ \A v \in Workers \ {w} : hand'[v] = hand[v]
    BY <1>1, <1>3 DEF Apply, Decide
  <2>3. WorkerApplies(w)'
    BY <1>3, ApplyApplies
  <2> QED
    BY <2>1, <2>2, <2>3, WorkerStep
<1>4. CASE Commit(w)
  <2>1. \A v \in Workers \ {w} : pc'[v] = pc[v] /\ job'[v] = job[v]
    BY <1>1, <1>4 DEF Commit, TransitionCommit, Abandon, Proceed, TypeOK
  <2>2. WorkerApplies(w)'
    BY <1>4, CommitApplies
  <2> QED
    BY <1>4, <2>1, <2>2, WorkerStep DEF Commit, inboxVars
<1>5. ASSUME Handles(w), IF pc[w] = "idle" THEN UNCHANGED vars ELSE Crash(w)
      PROVE  /\ \A v \in Workers \ {w} : pc'[v] = pc[v] /\ job'[v] = job[v]
             /\ pc'[w] = "idle"
  BY <1>1, <1>5 DEF Crash, Abandon, Proceed, vars, local, TypeOK
<1>6. CASE Catch(w)
  <2>1. /\ inbox' = inbox /\ hand'[w].status = "error"
        /\ \A v \in Workers \ {w} : hand'[v] = hand[v]
    BY <1>1, <1>6 DEF Catch, Decide
  <2>2. pc'[w] = "idle" /\ \A v \in Workers \ {w} : pc'[v] = pc[v] /\ job'[v] = job[v]
    BY <1>5, <1>6 DEF Catch
  <2>3. WorkerApplies(w)'
    BY <2>1, <2>2 DEF WorkerApplies
  <2> QED
    BY <2>1, <2>2, <2>3, WorkerStep
<1>7. CASE StoreOutcome(w)
  <2>1. /\ pc' = pc /\ job' = job /\ ~Handles(w)'
        /\ \A v \in Workers \ {w} : hand'[v] = hand[v]
    BY <1>1, <1>7 DEF StoreOutcome, vars, local, Handles, Empty
  <2>2. hand[w].event \in Events /\ inbox[hand[w].event].status = "pending"
    BY <1>1, <1>7 DEF StoreOutcome, Handles, InboxInv, RunOnce
  <2>3. hand[w].status = "processed" => Applied(inbox[hand[w].event].ask)
    BY <1>7 DEF StoreOutcome, ApplyInv, WorkerApplies, AsksFor
  <2>4. ASSUME NEW e \in Events
        PROVE  \/ inbox'[e] = inbox[e]
               \/ /\ inbox'[e].ask = inbox[e].ask /\ inbox[e].status # "none"
                  /\ inbox'[e].status = "processed" => Applied(inbox[e].ask)
    <3>1. CASE e # hand[w].event
      BY <1>1, <1>7, <3>1 DEF StoreOutcome
    <3>2. CASE e = hand[w].event
      <4>1. inbox'[e].ask = inbox[e].ask /\ inbox'[e].status = hand[w].status
        BY <1>1, <1>7, <3>2 DEF StoreOutcome
      <4> QED
        BY <2>2, <2>3, <3>2, <4>1
    <3> QED
      BY <3>1, <3>2
  <2> QED
    BY <2>1, <2>4, WorkerStep
<1>8. CASE Die(w)
  <2>1. /\ inbox' = inbox /\ ~Handles(w)'
        /\ \A v \in Workers \ {w} : hand'[v] = hand[v]
    BY <1>1, <1>8 DEF Die, Handles, Empty
  <2>2. \A v \in Workers \ {w} : pc'[v] = pc[v] /\ job'[v] = job[v]
    BY <1>5, <1>8 DEF Die
  <2> QED
    BY <2>1, <2>2, WorkerStep
<1> QED
  BY <1>2, <1>3, <1>4, <1>6, <1>7, <1>8 DEF Webhook

\* An event stored as processed moved its return, whichever sessions failed and
\* whatever the desk did in between.
THEOREM ProcessedEventsAreApplied == WebSpec => []ProcessedIsApplied
<1>1. SafetyInv /\ InboxInv /\ InboxInv' /\ ApplyInv /\ [WebNext]_webVars => ApplyInv'
  <2> SUFFICES ASSUME SafetyInv, InboxInv, InboxInv', ApplyInv, [WebNext]_webVars
               PROVE  ApplyInv'
    OBVIOUS
  <2>1. [Next]_vars
    BY StepIsADeskStep
  <2>2. CASE UNCHANGED webVars
    BY <2>2 DEF webVars, vars, db, local, inboxVars, ApplyInv, WorkerApplies, Applied, AsksFor,
       Handles, Exists, Visited
  <2> QED
    BY <2>1, <2>2, DeskApplies, WebhookApplies DEF WebNext
<1>2. ApplyInv => ProcessedIsApplied
  BY DEF ApplyInv, Applied, ProcessedIsApplied
<1> QED
  BY <1>1, <1>2, ApplyStart, InboxStart, InboxStep, WebhookIsADeskClient, SafetyInvariant, PTL DEF WebSpec
=============================================================================
