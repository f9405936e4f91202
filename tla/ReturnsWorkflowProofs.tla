------------------------ MODULE ReturnsWorkflowProofs ------------------------
(* What ReturnsWorkflow guarantees for every number of workers and returns. *)
EXTENDS ReturnsWorkflow, TLAPS

-----------------------------------------------------------------------------
(* The transition table *)

\* A legal move leads from a status to a status.
LEMMA LegalMoveType ==
    ASSUME NEW a, NEW b, LegalMove(a, b)
    PROVE  a \in Statuses /\ b \in Statuses
BY DEF LegalMove, CanTransition, LegacyReject, Statuses, Transitions

\* The statuses with a single way in, and the two ways into finance.
LEMMA OnlyWayIn ==
    ASSUME NEW a, NEW b, LegalMove(a, b)
    PROVE  /\ b = "approved_refund"  => a = "inspected"
           /\ b = "inspected"        => a = "received"
           /\ b = "approved"         => a = "wh_approved"
           /\ b = "awaiting_finance" => a \in {"wh_approved", "approved"}
BY DEF LegalMove, CanTransition, LegacyReject, Statuses, Transitions

\* Writing back a loaded row yields a row, and touches no column the session left alone.
LEMMA OrmWriteRow ==
    ASSUME NEW cur \in RowType, NEW loaded \in RowType, NEW new \in RowType
    PROVE  /\ OrmWrite(cur, loaded, new) \in RowType
           /\ new.status = loaded.status => OrmWrite(cur, loaded, new).status = cur.status
           /\ new.wh = loaded.wh => OrmWrite(cur, loaded, new).wh = cur.wh
           /\ new.mgr = loaded.mgr => OrmWrite(cur, loaded, new).mgr = cur.mgr
BY DEF OrmWrite, RowType

\* Writing back a loaded line yields a line.
LEMMA OrmWriteItem ==
    ASSUME NEW cur \in ItemType, NEW loaded \in ItemType, NEW new \in ItemType
    PROVE  OrmWrite(cur, loaded, new) \in ItemType
BY DEF OrmWrite, ItemType

\* The credit of a line is a number (_credit_amount_for_item).
LEMMA CreditType == ASSUME NEW it \in ItemType PROVE CreditOf(it) \in Nat
BY DEF CreditOf, CreditedWeight, ItemType

\* A line after a receiving review is a line (update_receiving_review).
LEMMA ReceivedType ==
    ASSUME NEW it \in ItemType, NEW form \in FormType
    PROVE  ReceivedItem(it, form) \in ItemType
BY SentinelAssumption DEF ReceivedItem, CreditOf, CreditedWeight, ItemType, FormType

-----------------------------------------------------------------------------
(* Types *)

\* What a handler between two sessions knows: it works on an existing return, and
\* a transition about to be written is legal from the status its session loaded.
WorkerOK(w) ==
    /\ pc[w] # "idle" => job[w].rma \in RMAs /\ Exists(job[w].rma)
    /\ pc[w] \in {"transition", "route", "rollup"} => job[w].target \in Statuses
    /\ pc[w] = "inspect" => job[w].target \in Dispositions
    /\ pc[w] = "commit" => LegalMove(seen[w].row.status, job[w].target)
    /\ job[w].then = "refund" => job[w].target = "approved_refund"
HandlerOK == \A w \in Workers : WorkerOK(w)

TypeInv == TypeOK /\ HandlerOK

\* The empty row, line, form, job and snapshot have their types.
LEMMA ConstantTypes ==
    /\ AbsentRow \in RowType
    /\ BlankItem \in ItemType
    /\ Blank \in SeenType
    /\ NoForm \in FormType
    /\ NoJob \in JobType
BY SentinelAssumption DEF AbsentRow, BlankItem, Blank, NoForm, NoJob, RowType, ItemType,
   SeenType, FormType, JobType, FollowUps, Routes

\* What a session loads has the type of a snapshot.
LEMMA SnapshotType ==
    ASSUME TypeOK, NEW r \in RMAs, NEW step
    PROVE  Snapshot(r, step) \in SeenType
<1>1. /\ rma[r] \in RowType
      /\ item[r] \in ItemType
  BY DEF TypeOK
<1>2. /\ [AbsentRow EXCEPT !.status = rma[r].status, !.rejected = rma[r].rejected] \in RowType
      /\ [AbsentRow EXCEPT !.status = rma[r].status] \in RowType
      /\ [AbsentRow EXCEPT !.route = rma[r].route, !.credit = rma[r].credit] \in RowType
  BY <1>1, ConstantTypes DEF RowType
<1>3. \A x \in RowType, i \in ItemType, b \in BOOLEAN :
          [row |-> x, item |-> i, approval |-> b] \in SeenType
  BY DEF SeenType
<1>4. (r \in approvals) \in BOOLEAN
  BY SMT
<1>5. CASE step = "commit"
  BY <1>1, <1>2, <1>3, <1>4, <1>5, ConstantTypes, Zenon DEF Snapshot
<1>6. CASE step # "commit" /\ step \in {"label", "inspect"}
  BY <1>2, <1>6, ConstantTypes DEF Snapshot, Blank, SeenType
<1>7. CASE step # "commit" /\ step \notin {"label", "inspect"}
  BY <1>1, <1>2, <1>3, <1>7, ConstantTypes DEF Snapshot
<1> QED
  BY <1>5, <1>6, <1>7

\* A transition asked of a return is a job that ends with it.
LEMMA TaskType ==
    ASSUME NEW r \in RMAs, NEW target \in Statuses \cup {Absent}
    PROVE  /\ Task(r, target) \in JobType
           /\ Task(r, target).rma = r
           /\ Task(r, target).target = target
           /\ Task(r, target).then = "idle"
BY ConstantTypes DEF Task, NoJob, JobType

\* Loading rows before a write keeps the types of a worker's state.
LEMMA PauseType ==
    ASSUME TypeOK, NEW w \in Workers, NEW step \in Steps, NEW j \in JobType,
           j.rma \in RMAs, Pause(w, step, j)
    PROVE  /\ pc' \in [Workers -> Steps]
           /\ job' \in [Workers -> JobType]
           /\ seen' \in [Workers -> SeenType]
BY SnapshotType DEF Pause, TypeOK

\* Going on after a commit keeps the types of a worker's state.
LEMMA ProceedType ==
    ASSUME TypeOK, NEW w \in Workers, NEW step \in Steps, Proceed(w, step)
    PROVE  /\ pc' \in [Workers -> Steps]
           /\ job' \in [Workers -> JobType]
           /\ seen' \in [Workers -> SeenType]
BY ConstantTypes DEF Proceed, TypeOK

\* A transitioned row is a row in the target status; it keeps stamps and adds the target's.
LEMMA TransitionedType ==
    ASSUME NEW row \in RowType, NEW loaded \in RowType, NEW target \in Statuses
    PROVE  /\ Transitioned(row, loaded, target) \in RowType
           /\ Transitioned(row, loaded, target).status = target
           /\ row.wh => Transitioned(row, loaded, target).wh
           /\ row.mgr => Transitioned(row, loaded, target).mgr
           /\ target = "wh_approved" => Transitioned(row, loaded, target).wh
           /\ target = "approved" => Transitioned(row, loaded, target).mgr
BY DEF Transitioned, RowType

\* A return is created in one of the intake statuses (create_rma).
LEMMA InitialStatusType ==
    ASSUME NEW mode, NEW evidenceMissing \in BOOLEAN, NEW autoApprovable \in BOOLEAN
    PROVE  InitialStatus(FinalV1, mode, evidenceMissing, autoApprovable) \in InitialStatuses
BY FlagAssumption DEF InitialStatus, PolicyStatus, InitialStatuses

\* The intake statuses are statuses; the status of a return not yet created is not.
LEMMA IntakeStatuses == InitialStatuses \subseteq Statuses /\ Absent \notin Statuses
BY DEF InitialStatuses, Statuses, Absent

\* Creating a return keeps the types (create_rma).
LEMMA CreateType ==
    ASSUME TypeInv, NEW r \in RMAs, NEW sub \in Submissions, CreateRma(r, sub)
    PROVE  TypeInv'
<1> DEFINE s == InitialStatus(FinalV1, sub.mode, sub.evidenceMissing, sub.autoApprovable)
           row == [AbsentRow EXCEPT !.status = s, !.credit = CreditOf(sub.item)]
<1>1. sub \in SubmissionType /\ sub.item \in ItemType
  BY SubmissionAssumption DEF SubmissionType
<1>2. s \in InitialStatuses
  BY <1>1, InitialStatusType DEF SubmissionType
<1>3. s \in Statuses /\ s # Absent
  BY <1>2, IntakeStatuses
<1> HIDE DEF s
<1>4. row \in RowType /\ row.status = s
  BY <1>1, <1>3, CreditType, ConstantTypes DEF RowType
<1> HIDE DEF row
<1>5. /\ rma' = [rma EXCEPT ![r] = row]
      /\ item' = [item EXCEPT ![r] = sub.item]
      /\ \/ trail' = [trail EXCEPT ![r] = {<<Absent, s>>} \cup {<<"requested", s>>}]
         \/ trail' = [trail EXCEPT ![r] = {<<Absent, s>>} \cup {}]
      /\ UNCHANGED <<approvals, refunds, pc, job, seen>>
  BY DEF CreateRma, local, s, row
<1>6. "requested" \in Statuses
  BY DEF Statuses
<1>7. TypeOK'
  BY <1>1, <1>3, <1>4, <1>5, <1>6 DEF TypeInv, TypeOK
<1>8. HandlerOK'
  <2>1. \A x \in RMAs : Exists(x) => Exists(x)'
    BY <1>3, <1>4, <1>5 DEF Exists, TypeInv, TypeOK
  <2> QED
    BY <1>5, <2>1 DEF TypeInv, HandlerOK, WorkerOK
<1> QED
  BY <1>7, <1>8 DEF TypeInv

\* A step of worker w that keeps every return leaves the other workers' knowledge valid.
LEMMA HandlerFrame ==
    ASSUME TypeInv, NEW w \in Workers, WorkerOK(w)',
           \A v \in Workers \ {w} : pc'[v] = pc[v] /\ job'[v] = job[v] /\ seen'[v] = seen[v],
           \A x \in RMAs : Exists(x) => Exists(x)'
    PROVE  HandlerOK'
<1> SUFFICES ASSUME NEW v \in Workers \ {w} PROVE WorkerOK(v)'
  BY DEF HandlerOK
<1>1. WorkerOK(v)
  BY DEF TypeInv, HandlerOK
<1> QED
  BY <1>1 DEF WorkerOK

\* A worker that loads its rows leaves the other workers alone.
LEMMA PauseFrame ==
    ASSUME TypeOK, NEW w \in Workers, NEW step \in Steps, NEW j \in JobType,
           Pause(w, step, j)
    PROVE  /\ pc'[w] = step /\ job'[w] = j /\ seen'[w] = Snapshot(j.rma, step)
           /\ \A v \in Workers \ {w} : pc'[v] = pc[v] /\ job'[v] = job[v] /\ seen'[v] = seen[v]
BY DEF Pause, TypeOK

\* A worker that goes on leaves the other workers alone.
LEMMA ProceedFrame ==
    ASSUME TypeOK, NEW w \in Workers, NEW step \in Steps, Proceed(w, step)
    PROVE  /\ pc'[w] = step /\ seen'[w] = Blank
           /\ job'[w] = IF step = "idle" THEN NoJob ELSE job[w]
           /\ \A v \in Workers \ {w} : pc'[v] = pc[v] /\ job'[v] = job[v] /\ seen'[v] = seen[v]
BY DEF Proceed, TypeOK

\* An idle worker knows nothing, so nothing it knows is wrong.
LEMMA IdleWorkerOK ==
    ASSUME NEW w \in Workers, pc'[w] = "idle", job'[w] = NoJob PROVE WorkerOK(w)'
BY DEF WorkerOK, NoJob

\* Pausing before a write other than a transition's.
LEMMA PauseInv ==
    ASSUME TypeInv, NEW w \in Workers, NEW step \in Steps \ {"transition", "commit"},
           NEW j \in JobType, j.rma \in RMAs, Exists(j.rma), j.then = "idle",
           step \in {"route", "rollup"} => j.target \in Statuses,
           step = "inspect" => j.target \in Dispositions,
           Pause(w, step, j), UNCHANGED db
    PROVE  TypeInv'
<1>1. TypeOK'
  BY PauseType DEF TypeInv, TypeOK, db
<1>2. \A x \in RMAs : Exists(x)' = Exists(x)
  BY DEF Exists, db
<1>3. WorkerOK(w)'
  BY PauseFrame, <1>2 DEF WorkerOK, TypeInv
<1>4. HandlerOK'
  BY PauseFrame, HandlerFrame, <1>2, <1>3 DEF TypeInv
<1> QED
  BY <1>1, <1>4 DEF TypeInv

\* Loading a return for a transition keeps the types (transition_return).
LEMMA LoadType ==
    ASSUME TypeInv, NEW w \in Workers, NEW j \in JobType, NEW reason \in BOOLEAN,
           j.rma \in RMAs, Exists(j.rma), j.target \in Statuses,
           j.then = "refund" => j.target = "approved_refund",
           LoadForTransition(w, j, reason)
    PROVE  TypeInv'
<1> TypeOK /\ "commit" \in Steps /\ "idle" \in Steps /\ j.then \in Steps
  BY DEF TypeInv, Steps, JobType
<1>1. \A x \in RMAs : Exists(x)' = Exists(x)
  BY DEF Exists, db, LoadForTransition
<1>2. UNCHANGED db
  BY DEF LoadForTransition
<1>3. CASE job' = [job EXCEPT ![w] = j] /\ pc' = [pc EXCEPT ![w] = j.then]
           /\ seen' = [seen EXCEPT ![w] = Blank]
  <2>1. TypeOK'
    BY <1>2, <1>3, ConstantTypes DEF TypeOK, db
  <2>2. WorkerOK(w)'
    BY <1>1, <1>3 DEF WorkerOK, TypeOK, JobType
  <2> QED
    BY <1>1, <1>3, <2>1, <2>2, HandlerFrame DEF TypeInv, TypeOK
<1>4. CASE Abandon(w)
  <2>1. TypeOK'
    BY <1>2, <1>4, ProceedType DEF TypeOK, db, Abandon
  <2> QED
    BY <1>1, <1>4, <2>1, ProceedFrame, IdleWorkerOK, HandlerFrame DEF TypeInv, Abandon
<1>5. CASE Pause(w, "commit", j) /\ LegalMove(rma[j.rma].status, j.target)
  <2>1. TypeOK'
    BY <1>2, <1>5, PauseType DEF TypeOK, db
  <2>2. Snapshot(j.rma, "commit").row.status = rma[j.rma].status
    BY DEF Snapshot, AbsentRow
  <2>3. WorkerOK(w)'
    BY <1>1, <1>5, <2>2, PauseFrame DEF WorkerOK
  <2> QED
    BY <1>1, <1>5, <2>1, <2>3, PauseFrame, HandlerFrame DEF TypeInv
<1> QED
  BY <1>3, <1>4, <1>5 DEF LoadForTransition

\* A write step keeps the types when the new row, line and events have theirs.
LEMMA StoreInv ==
    ASSUME TypeInv, NEW w \in Workers, NEW r \in RMAs, NEW step \in {"idle", "transition", "refund"},
           Proceed(w, step), pc[w] # "idle",
           step = "transition" => job[w].target \in Statuses,
           NEW row \in RowType, rma' = [rma EXCEPT ![r] = row], Exists(r) => row.status # Absent,
           item' \in [RMAs -> ItemType], approvals' \subseteq RMAs,
           trail' \in [RMAs -> SUBSET ((Statuses \cup {Absent}) \X Statuses)],
           refunds' \in [RMAs -> 0..MaxRefunds]
    PROVE  TypeInv'
<1>1. TypeOK'
  BY ProceedType DEF TypeInv, TypeOK, Steps
<1>2. \A x \in RMAs : Exists(x) => Exists(x)'
  BY DEF TypeInv, TypeOK, Exists
<1>3. WorkerOK(w)'
  BY ProceedFrame, <1>2 DEF WorkerOK, TypeInv, HandlerOK, NoJob, Steps
<1> QED
  BY <1>1, <1>2, <1>3, ProceedFrame, HandlerFrame DEF TypeInv, Steps

\* What the types say of one worker and of the return it works on.
LEMMA WorkerTypes ==
    ASSUME TypeInv, NEW w \in Workers
    PROVE  /\ job[w] \in JobType /\ job[w].form \in FormType /\ job[w].then \in {"idle", "refund"}
           /\ seen[w] \in SeenType /\ seen[w].row \in RowType /\ seen[w].item \in ItemType
           /\ pc[w] # "idle" =>
                 /\ job[w].rma \in RMAs /\ Exists(job[w].rma)
                 /\ rma[job[w].rma] \in RowType /\ item[job[w].rma] \in ItemType
BY DEF TypeInv, TypeOK, HandlerOK, WorkerOK, JobType, SeenType

\* Committing a transition keeps the types (transition_return).
LEMMA CommitType ==
    ASSUME TypeInv, NEW w \in Workers, TransitionCommit(w)
    PROVE  TypeInv'
<1> DEFINE r == job[w].rma
           target == job[w].target
           row == Transitioned(rma[r], seen[w].row, target)
<1>1. /\ r \in RMAs /\ Exists(r) /\ rma[r] \in RowType
      /\ seen[w].row \in RowType /\ job[w].then \in {"idle", "refund"} /\ pc[w] # "idle"
  BY WorkerTypes DEF TransitionCommit
<1>2. target \in Statuses /\ target # Absent /\ seen[w].row.status \in Statuses
  BY LegalMoveType, IntakeStatuses DEF TypeInv, HandlerOK, WorkerOK, TransitionCommit
<1>3. row \in RowType /\ row.status = target
  BY <1>1, <1>2, TransitionedType
<1>4. CASE Abandon(w) /\ UNCHANGED db
  <2>1. rma' = [rma EXCEPT ![r] = rma[r]]
    BY <1>1, <1>4 DEF db, TypeInv, TypeOK
  <2>2. /\ item' \in [RMAs -> ItemType] /\ approvals' \subseteq RMAs
        /\ trail' \in [RMAs -> SUBSET ((Statuses \cup {Absent}) \X Statuses)]
        /\ refunds' \in [RMAs -> 0..MaxRefunds]
    BY <1>4 DEF db, TypeInv, TypeOK
  <2> QED
    BY <1>1, <1>4, <2>1, <2>2, StoreInv DEF Abandon, Exists
<1>5. CASE /\ rma' = [rma EXCEPT ![r] = row]
           /\ approvals' = approvals \cup (IF NeedsApprovalRow(target) THEN {r} ELSE {})
           /\ trail' = [trail EXCEPT ![r] = @ \cup {<<seen[w].row.status, target>>}]
           /\ Proceed(w, job[w].then)
           /\ UNCHANGED <<item, refunds>>
  <2> HIDE DEF row
  <2>1. /\ item' \in [RMAs -> ItemType] /\ approvals' \subseteq RMAs
        /\ trail' \in [RMAs -> SUBSET ((Statuses \cup {Absent}) \X Statuses)]
        /\ refunds' \in [RMAs -> 0..MaxRefunds]
    BY <1>1, <1>2, <1>5 DEF TypeInv, TypeOK
  <2> QED
    BY <1>1, <1>2, <1>3, <1>5, <2>1, StoreInv
<1> QED
  BY <1>4, <1>5 DEF TransitionCommit

\* Storing the approval route or the totals keeps the types (approve_warehouse, approve_manager).
LEMMA StoreRouteType ==
    ASSUME TypeInv, NEW w \in Workers, StoreRoute(w) \/ StoreRollup(w)
    PROVE  TypeInv'
<1> DEFINE r == job[w].rma
           loaded == seen[w].row
           routed == [loaded EXCEPT !.route = ApprovalTarget(seen[w].item)]
           rolled == [loaded EXCEPT !.credit = CreditOf(seen[w].item)]
<1>1. /\ r \in RMAs /\ Exists(r) /\ rma[r] \in RowType
      /\ loaded \in RowType /\ seen[w].item \in ItemType
  BY WorkerTypes DEF StoreRoute, StoreRollup
<1>2. PICK new \in {routed, rolled} :
          /\ rma' = [rma EXCEPT ![r] = OrmWrite(rma[r], loaded, new)]
          /\ Proceed(w, "transition")
          /\ UNCHANGED <<item, approvals, trail, refunds>>
  BY DEF StoreRoute, StoreRollup
<1>3. new \in RowType /\ new.status = loaded.status
  <2>1. ApprovalTarget(seen[w].item) \in Routes
    BY DEF ApprovalTarget, Routes
  <2> QED
    BY <1>1, <1>2, <2>1, CreditType DEF RowType
<1>4. /\ OrmWrite(rma[r], loaded, new) \in RowType
      /\ OrmWrite(rma[r], loaded, new).status = rma[r].status
  BY <1>1, <1>3, OrmWriteRow
<1>5. /\ item' \in [RMAs -> ItemType] /\ approvals' \subseteq RMAs
      /\ trail' \in [RMAs -> SUBSET ((Statuses \cup {Absent}) \X Statuses)]
      /\ refunds' \in [RMAs -> 0..MaxRefunds]
  BY <1>2 DEF TypeInv, TypeOK
<1>6. job[w].target \in Statuses /\ pc[w] # "idle"
  BY DEF TypeInv, HandlerOK, WorkerOK, StoreRoute, StoreRollup
<1> QED
  BY <1>1, <1>2, <1>4, <1>5, <1>6, StoreInv DEF Exists

\* Storing a receiving review keeps the types (update_receiving_review).
LEMMA StoreReceivingType ==
    ASSUME TypeInv, NEW w \in Workers, StoreReceiving(w)
    PROVE  TypeInv'
<1> DEFINE r == job[w].rma
           loaded == seen[w].row
           newItem == ReceivedItem(seen[w].item, job[w].form)
           newRow == [loaded EXCEPT !.credit = CreditOf(newItem)]
<1>1. /\ r \in RMAs /\ Exists(r) /\ rma[r] \in RowType /\ item[r] \in ItemType /\ pc[w] # "idle"
      /\ loaded \in RowType /\ seen[w].item \in ItemType /\ job[w].form \in FormType
  BY WorkerTypes DEF StoreReceiving
<1>2. newItem \in ItemType
  BY <1>1, ReceivedType
<1>3. CreditOf(newItem) \in Nat
  BY <1>2, CreditType
<1> HIDE DEF newItem
<1>4. newRow \in RowType /\ newRow.status = loaded.status
  BY <1>1, <1>3 DEF RowType
<1> HIDE DEF newRow
<1>5. /\ OrmWrite(rma[r], loaded, newRow) \in RowType
      /\ OrmWrite(rma[r], loaded, newRow).status = rma[r].status
      /\ OrmWrite(item[r], seen[w].item, newItem) \in ItemType
  BY <1>1, <1>2, <1>4, OrmWriteRow, OrmWriteItem
<1>6. /\ item' = [item EXCEPT ![r] = OrmWrite(item[r], seen[w].item, newItem)]
      /\ rma' = [rma EXCEPT ![r] = OrmWrite(rma[r], loaded, newRow)]
      /\ Proceed(w, "idle")
      /\ UNCHANGED <<approvals, trail, refunds>>
  BY DEF StoreReceiving, newItem, newRow
<1>7. /\ item' \in [RMAs -> ItemType] /\ approvals' \subseteq RMAs
      /\ trail' \in [RMAs -> SUBSET ((Statuses \cup {Absent}) \X Statuses)]
      /\ refunds' \in [RMAs -> 0..MaxRefunds]
  BY <1>1, <1>5, <1>6 DEF TypeInv, TypeOK
<1> QED
  BY <1>1, <1>5, <1>6, <1>7, StoreInv DEF Exists

\* A write step that sets the status, if it does, and records the move.
LEMMA SetStatusInv ==
    ASSUME TypeInv, NEW w \in Workers, pc[w] # "idle",
           NEW step \in {"idle", "transition", "refund"}, Proceed(w, step),
           step = "transition" => job[w].target \in Statuses,
           NEW from \in Statuses, NEW to \in Statuses,
           \/ /\ rma' = [rma EXCEPT ![job[w].rma].status = to]
              /\ trail' = [trail EXCEPT ![job[w].rma] = @ \cup {<<from, to>>}]
           \/ rma' = rma /\ trail' = trail,
           UNCHANGED <<item, approvals>>, refunds' \in [RMAs -> 0..MaxRefunds]
    PROVE  TypeInv'
<1> DEFINE r == job[w].rma
           row == [rma[r] EXCEPT !.status = to]
<1>1. r \in RMAs /\ Exists(r) /\ rma[r] \in RowType
  BY WorkerTypes
<1>2. row \in RowType /\ row.status # Absent /\ rma[r].status # Absent
  BY <1>1, IntakeStatuses DEF RowType, Exists
<1>3. rma' = [rma EXCEPT ![r] = row] \/ rma' = [rma EXCEPT ![r] = rma[r]]
  BY <1>1 DEF TypeInv, TypeOK
<1> HIDE DEF row
<1>4. /\ item' \in [RMAs -> ItemType] /\ approvals' \subseteq RMAs
      /\ trail' \in [RMAs -> SUBSET ((Statuses \cup {Absent}) \X Statuses)]
  BY <1>1 DEF TypeInv, TypeOK
<1> QED
  BY <1>1, <1>2, <1>3, <1>4, StoreInv

\* Storing a label keeps the types (issue_label).
LEMMA StoreLabelType ==
    ASSUME TypeInv, NEW w \in Workers, StoreLabel(w)
    PROVE  TypeInv'
<1> DEFINE prior == seen[w].row.status
<1>1. "awaiting_return" \in Statuses /\ {"auto_approved", "needs_review"} \subseteq Statuses
  BY DEF Statuses
<1>2. PICK from \in Statuses :
         \/ /\ rma' = [rma EXCEPT ![job[w].rma].status = "awaiting_return"]
            /\ trail' = [trail EXCEPT ![job[w].rma] = @ \cup {<<from, "awaiting_return">>}]
         \/ rma' = rma /\ trail' = trail
  BY <1>1 DEF StoreLabel
<1>3. /\ pc[w] # "idle" /\ Proceed(w, "idle") /\ UNCHANGED <<item, approvals>>
      /\ refunds' \in [RMAs -> 0..MaxRefunds]
  BY DEF StoreLabel, TypeInv, TypeOK
<1> QED
  BY <1>1, <1>2, <1>3, SetStatusInv

\* Storing an inspection keeps the types (inspect_rma).
LEMMA StoreInspectionType ==
    ASSUME TypeInv, NEW w \in Workers, StoreInspection(w)
    PROVE  TypeInv'
<1> DEFINE step == IF job[w].target = Absent THEN "idle" ELSE "transition"
<1>1. {"received", "inspected"} \subseteq Statuses /\ Dispositions \subseteq Statuses \cup {Absent}
  BY DEF Statuses, Dispositions
<1>2. \/ /\ rma' = [rma EXCEPT ![job[w].rma].status = "inspected"]
         /\ trail' = [trail EXCEPT ![job[w].rma] = @ \cup {<<"received", "inspected">>}]
      \/ rma' = rma /\ trail' = trail
  BY DEF StoreInspection
<1>3. /\ pc[w] # "idle" /\ Proceed(w, step) /\ UNCHANGED <<item, approvals>>
      /\ refunds' \in [RMAs -> 0..MaxRefunds]
  BY DEF StoreInspection, TypeInv, TypeOK
<1>4. step = "transition" => job[w].target \in Statuses
  BY <1>1 DEF StoreInspection, TypeInv, HandlerOK, WorkerOK
<1> HIDE DEF step
<1>5. step \in {"idle", "transition", "refund"}
  BY DEF step
<1> QED
  BY <1>1, <1>2, <1>3, <1>4, <1>5, SetStatusInv

\* Storing a refund keeps the types (issue_refund).
LEMMA StoreRefundType ==
    ASSUME TypeInv, NEW w \in Workers, StoreRefund(w)
    PROVE  TypeInv'
<1>1. "approved_refund" \in Statuses /\ "completed" \in Statuses
  BY DEF Statuses
<1>2. refunds' \in [RMAs -> 0..MaxRefunds]
  BY WorkerTypes, BoundAssumption DEF StoreRefund, TypeInv, TypeOK
<1> QED
  BY <1>1, <1>2, SetStatusInv DEF StoreRefund

\* The first session of every handler keeps the types.
LEMMA BeginType ==
    ASSUME TypeInv, NEW w \in Workers, NEW r \in RMAs, Begin(w, r)
    PROVE  TypeInv'
<1>1. ASSUME NEW target \in MoveTargets, NEW reason \in BOOLEAN, Transition(w, r, target, reason)
      PROVE  TypeInv'
  BY <1>1, TaskType, LoadType, FormAssumption DEF Transition
<1>2. ASSUME ApproveWarehouse(w, r) PROVE TypeInv'
  <2>1. "wh_approved" \in Statuses /\ "route" \in Steps \ {"transition", "commit"}
    BY DEF Statuses, Steps
  <2> QED
    BY <1>2, <2>1, TaskType, PauseInv DEF ApproveWarehouse
<1>3. ASSUME ApproveManager(w, r) PROVE TypeInv'
  <2>1. ManagerStatus \in Statuses /\ "rollup" \in Steps \ {"transition", "commit"}
    BY DEF Statuses, Steps, ManagerStatus
  <2> QED
    BY <1>3, <2>1, TaskType, PauseInv DEF ApproveManager
<1>4. ASSUME NEW form \in ReceivingForms, UpdateReceiving(w, r, form) PROVE TypeInv'
  <2> DEFINE j == [Task(r, Absent) EXCEPT !.form = form]
  <2>1. j \in JobType /\ j.rma = r /\ j.then = "idle"
    BY TaskType, FormAssumption DEF JobType
  <2>2. "receiving" \in Steps \ {"transition", "commit"}
    BY DEF Steps
  <2> QED
    BY <1>4, <2>1, <2>2, PauseInv DEF UpdateReceiving
<1>5. ASSUME IssueLabel(w, r) PROVE TypeInv'
  <2>1. "awaiting_return" \in Statuses /\ "label" \in Steps \ {"transition", "commit"}
    BY DEF Statuses, Steps
  <2> QED
    BY <1>5, <2>1, TaskType, PauseInv DEF IssueLabel
<1>6. ASSUME ReceiveRma(w, r) PROVE TypeInv'
  <2>1. "received" \in Statuses /\ "transition" \in Steps /\ rma[r].status # Absent
    BY <1>6 DEF Statuses, Steps, ReceiveRma, Absent
  <2>2. TypeOK'
    BY <1>6, <2>1, TaskType DEF ReceiveRma, TypeInv, TypeOK, db
  <2>3. \A x \in RMAs : Exists(x)' = Exists(x)
    BY <1>6 DEF ReceiveRma, Exists, db
  <2>4. WorkerOK(w)'
    BY <1>6, <2>1, <2>3, TaskType DEF ReceiveRma, TypeInv, TypeOK, WorkerOK, Exists
  <2> QED
    BY <1>6, <2>2, <2>3, <2>4, HandlerFrame DEF ReceiveRma, TypeInv, TypeOK
<1>7. ASSUME NEW d \in Dispositions, InspectRma(w, r, d) PROVE TypeInv'
  <2>1. /\ d \in Statuses \cup {Absent} /\ "inspect" \in Steps \ {"transition", "commit"}
        /\ rma[r].status # Absent
    BY <1>7 DEF Statuses, Steps, Dispositions, InspectRma, Absent
  <2> QED
    BY <1>7, <2>1, TaskType, PauseInv DEF InspectRma, Exists
<1>8. ASSUME IssueRefund(w, r) PROVE TypeInv'
  <2> DEFINE j == [Task(r, "approved_refund") EXCEPT !.then = "refund"]
  <2>1. "approved_refund" \in Statuses /\ "transition" \in Steps /\ "refund" \in Steps
    BY DEF Statuses, Steps
  <2>2. j \in JobType /\ j.rma = r /\ j.target = "approved_refund"
    BY <2>1, TaskType DEF JobType
  <2>3. /\ \/ pc' = [pc EXCEPT ![w] = "refund"]
           \/ pc' = [pc EXCEPT ![w] = "transition"]
        /\ job' = [job EXCEPT ![w] = j]
        /\ UNCHANGED <<db, seen>> /\ Exists(r)
    BY <1>8 DEF IssueRefund
  <2> HIDE DEF j
  <2>4. TypeOK'
    BY <2>1, <2>2, <2>3 DEF TypeInv, TypeOK, db
  <2>5. \A x \in RMAs : Exists(x)' = Exists(x)
    BY <2>3 DEF Exists, db
  <2>6. WorkerOK(w)'
    BY <2>1, <2>2, <2>3, <2>5 DEF TypeInv, TypeOK, WorkerOK
  <2> QED
    BY <2>3, <2>4, <2>5, <2>6, HandlerFrame DEF TypeInv, TypeOK
<1> QED
  BY <1>1, <1>2, <1>3, <1>4, <1>5, <1>6, <1>7, <1>8 DEF Begin

\* Every later session of a handler keeps the types.
LEMMA ContinueType ==
    ASSUME TypeInv, NEW w \in Workers, Continue(w)
    PROVE  TypeInv'
<1>1. ASSUME LaterTransition(w) PROVE TypeInv'
  <2>1. FALSE \in BOOLEAN /\ job[w].target \in Statuses
        /\ (job[w].then = "refund" => job[w].target = "approved_refund")
    BY <1>1 DEF LaterTransition, TypeInv, HandlerOK, WorkerOK
  <2>2. job[w] \in JobType /\ job[w].rma \in RMAs /\ Exists(job[w].rma)
    BY <1>1, WorkerTypes DEF LaterTransition
  <2> QED
    BY <1>1, <2>1, <2>2, LoadType DEF LaterTransition
<1>2. ASSUME Crash(w) PROVE TypeInv'
  <2>1. TypeOK'
    BY <1>2, ProceedType DEF Crash, Abandon, TypeInv, TypeOK, db, Steps
  <2>2. \A x \in RMAs : Exists(x)' = Exists(x)
    BY <1>2 DEF Crash, Exists, db
  <2> QED
    BY <1>2, <2>1, <2>2, ProceedFrame, IdleWorkerOK, HandlerFrame DEF Crash, Abandon, TypeInv, Steps
<1> QED
  BY <1>1, <1>2, CommitType, StoreRouteType, StoreReceivingType, StoreLabelType,
     StoreInspectionType, StoreRefundType DEF Continue

\* Type correctness: every row, event and handler snapshot keeps its type, and what
\* a handler carries between two sessions stays meaningful, for any number of workers.
THEOREM TypeCorrect == Spec => []TypeInv
<1>1. Init => TypeInv
  BY ConstantTypes, BoundAssumption, IntakeStatuses
     DEF Init, TypeInv, TypeOK, HandlerOK, WorkerOK, NoJob, Steps
<1>2. TypeInv /\ [Next]_vars => TypeInv'
  <2> SUFFICES ASSUME TypeInv, [Next]_vars PROVE TypeInv'
    OBVIOUS
  <2>1. CASE UNCHANGED vars
    BY <2>1 DEF vars, db, local, TypeInv, TypeOK, HandlerOK, WorkerOK, Exists
  <2>2. CASE Next
    BY <2>2, CreateType, BeginType, ContinueType DEF Next
  <2> QED
    BY <2>1, <2>2
<1> QED
  BY <1>1, <1>2, PTL DEF Spec

\* Every variable keeps its type, for any number of workers and returns.
THEOREM TypesHold == Spec => []TypeOK
<1>1. TypeInv => TypeOK
  BY DEF TypeInv
<1> QED
  BY <1>1, TypeCorrect, PTL

-----------------------------------------------------------------------------
(* The audit trail, the stamps and the refunds *)

\* A handler acts on a status its return has really had.
WorkerGrounded(w) ==
    /\ pc[w] \in {"commit", "label", "inspect"} => seen[w].row.status \in Visited(job[w].rma)
    /\ pc[w] = "refund" => "approved_refund" \in Visited(job[w].rma)
Grounded == \A w \in Workers : WorkerGrounded(w)

StampsKept ==
    \A r \in RMAs : /\ "wh_approved" \in Visited(r) => rma[r].wh
                    /\ "approved" \in Visited(r) => rma[r].mgr

RefundsEarned ==
    \A r \in RMAs : refunds[r] > 0 => Exists(r) /\ "approved_refund" \in Visited(r)

SafetyInv == TypeInv /\ AuditedHistory /\ Grounded /\ StampsKept /\ RefundsEarned

\* No return is created in a status that approval or inspection must earn.
LEMMA IntakeIsNotEarned ==
    /\ "wh_approved" \notin InitialStatuses /\ "approved" \notin InitialStatuses
    /\ "approved_refund" \notin InitialStatuses /\ "inspected" \notin InitialStatuses
    /\ "awaiting_finance" \notin InitialStatuses
BY DEF InitialStatuses

\* An audited history with a status that has one way in has the way's start as well.
LEMMA WayIn ==
    ASSUME AuditedHistory, NEW r \in RMAs, NEW s \in Visited(r), s \notin InitialStatuses
    PROVE  \E from \in Visited(r) : LegalMove(from, s)
<1>1. PICK e \in trail[r] : s = e[2]
  BY DEF Visited
<1> QED
  BY <1>1 DEF AuditedHistory

\* An audited history with kept stamps and earned refunds has the two orders of steps.
LEMMA SafetyConsequences ==
    ASSUME SafetyInv PROVE RefundAfterInspection /\ TwoStepApproval
<1>1. RefundAfterInspection
  <2> SUFFICES ASSUME NEW r \in RMAs, refunds[r] > 0
               PROVE  {"received", "inspected", "approved_refund"} \subseteq Visited(r)
    BY DEF RefundAfterInspection
  <2>1. "approved_refund" \in Visited(r)
    BY DEF SafetyInv, RefundsEarned
  <2>2. "inspected" \in Visited(r)
    BY <2>1, WayIn, OnlyWayIn, IntakeIsNotEarned DEF SafetyInv
  <2>3. "received" \in Visited(r)
    BY <2>2, WayIn, OnlyWayIn, IntakeIsNotEarned DEF SafetyInv
  <2> QED
    BY <2>1, <2>2, <2>3
<1>2. TwoStepApproval
  <2> SUFFICES ASSUME NEW r \in RMAs
               PROVE  /\ Visited(r) \cap {"approved", "awaiting_finance"} # {} => rma[r].wh
                      /\ "approved" \in Visited(r) => rma[r].mgr
    BY DEF TwoStepApproval
  <2>1. "approved" \in Visited(r) => "wh_approved" \in Visited(r)
    BY WayIn, OnlyWayIn, IntakeIsNotEarned DEF SafetyInv
  <2>2. "awaiting_finance" \in Visited(r) => "wh_approved" \in Visited(r)
    BY <2>1, WayIn, OnlyWayIn, IntakeIsNotEarned DEF SafetyInv
  <2> QED
    BY <2>1, <2>2 DEF SafetyInv, StampsKept
<1> QED
  BY <1>1, <1>2

\* Creating a return keeps the safety invariant (create_rma).
LEMMA CreateSafe ==
    ASSUME SafetyInv, NEW r \in RMAs, NEW sub \in Submissions, CreateRma(r, sub)
    PROVE  SafetyInv'
<1> DEFINE s == InitialStatus(FinalV1, sub.mode, sub.evidenceMissing, sub.autoApprovable)
           row == [AbsentRow EXCEPT !.status = s, !.credit = CreditOf(sub.item)]
<1>1. s \in InitialStatuses
  BY SubmissionAssumption, InitialStatusType DEF SubmissionType
<1>2. row.status = s
  BY DEF AbsentRow
<1> HIDE DEF s, row
<1>3. PICK events \in SUBSET {<<Absent, s>>, <<"requested", s>>} :
         /\ <<Absent, s>> \in events
         /\ trail' = [trail EXCEPT ![r] = events]
         /\ rma' = [rma EXCEPT ![r] = row]
         /\ UNCHANGED <<refunds, pc, job, seen>> /\ ~Exists(r)
  BY DEF CreateRma, local, s, row
<1>4. /\ Visited(r)' = {s}
      /\ \A x \in RMAs \ {r} : Visited(x)' = Visited(x)
  BY <1>3 DEF Visited, SafetyInv, TypeInv, TypeOK
<1>5. /\ rma'[r] = row /\ trail'[r] = events
      /\ \A x \in RMAs \ {r} : rma'[x] = rma[x] /\ trail'[x] = trail[x]
  BY <1>3 DEF SafetyInv, TypeInv, TypeOK
<1>6. TypeInv'
  BY CreateType DEF SafetyInv
<1>7. AuditedHistory'
  <2> SUFFICES ASSUME NEW x \in RMAs
               PROVE  /\ Exists(x)' => rma'[x].status \in Visited(x)'
                      /\ \A e \in trail'[x] :
                            \/ e[1] \in {Absent, "requested"} /\ e[2] \in InitialStatuses
                            \/ e[1] \in Visited(x)' /\ LegalMove(e[1], e[2])
    BY DEF AuditedHistory
  <2>1. CASE x = r
    BY <1>1, <1>2, <1>3, <1>4, <1>5, <2>1
  <2>2. CASE x # r
    BY <1>4, <1>5, <2>2 DEF SafetyInv, AuditedHistory, Exists
  <2> QED
    BY <2>1, <2>2
<1>8. Grounded'
  <2> SUFFICES ASSUME NEW w \in Workers PROVE WorkerGrounded(w)'
    BY DEF Grounded
  <2>1. pc[w] # "idle" => job[w].rma \in RMAs \ {r}
    BY <1>3, WorkerTypes DEF SafetyInv
  <2> QED
    BY <1>3, <1>4, <2>1 DEF SafetyInv, Grounded, WorkerGrounded
<1>9. StampsKept' /\ RefundsEarned'
  BY <1>1, <1>3, <1>4, <1>5, IntakeIsNotEarned DEF SafetyInv, StampsKept, RefundsEarned, Exists
<1> QED
  BY <1>6, <1>7, <1>8, <1>9 DEF SafetyInv

\* A step that appends legal moves out of visited statuses, shows the status it was
\* in or the one it moved to, and takes no stamp back.
LEMMA MoveSafe ==
    ASSUME SafetyInv, TypeInv', NEW w \in Workers, WorkerGrounded(w)',
           \A v \in Workers \ {w} : pc'[v] = pc[v] /\ job'[v] = job[v] /\ seen'[v] = seen[v],
           NEW r \in RMAs, NEW row, NEW events, Exists(r),
           rma' = [rma EXCEPT ![r] = row], trail' = [trail EXCEPT ![r] = @ \cup events],
           \A e \in events : e[1] \in Visited(r) /\ LegalMove(e[1], e[2]),
           row.status = rma[r].status \/ \E e \in events : row.status = e[2],
           rma[r].wh \/ (\E e \in events : e[2] = "wh_approved") => row.wh,
           rma[r].mgr \/ (\E e \in events : e[2] = "approved") => row.mgr,
           \A x \in RMAs : refunds'[x] > 0 =>
               refunds[x] > 0 \/ (Exists(x) /\ "approved_refund" \in Visited(x))
    PROVE  SafetyInv'
<1>1. /\ rma'[r] = row /\ trail'[r] = trail[r] \cup events
      /\ \A x \in RMAs \ {r} : rma'[x] = rma[x] /\ trail'[x] = trail[x]
  BY DEF SafetyInv, TypeInv, TypeOK
<1>2. /\ Visited(r)' = Visited(r) \cup {e[2] : e \in events}
      /\ \A x \in RMAs \ {r} : Visited(x)' = Visited(x)
  BY <1>1 DEF Visited
<1>3. \A x \in RMAs : Visited(x) \subseteq Visited(x)' /\ (Exists(x) => Exists(x)')
  <2>1. \A e \in events : e[2] # Absent
    BY LegalMoveType, IntakeStatuses
  <2> QED
    BY <1>1, <1>2, <2>1 DEF Exists
<1>4. AuditedHistory'
  <2> SUFFICES ASSUME NEW x \in RMAs
               PROVE  /\ Exists(x)' => rma'[x].status \in Visited(x)'
                      /\ \A e \in trail'[x] :
                            \/ e[1] \in {Absent, "requested"} /\ e[2] \in InitialStatuses
                            \/ e[1] \in Visited(x)' /\ LegalMove(e[1], e[2])
    BY DEF AuditedHistory
  <2>1. CASE x = r
    BY <1>1, <1>2, <1>3, <2>1 DEF SafetyInv, AuditedHistory
  <2>2. CASE x # r
    BY <1>1, <1>2, <2>2 DEF SafetyInv, AuditedHistory, Exists
  <2> QED
    BY <2>1, <2>2
<1>5. Grounded'
  <2> SUFFICES ASSUME NEW v \in Workers \ {w} PROVE WorkerGrounded(v)'
    BY DEF Grounded
  <2>1. pc[v] # "idle" => job[v].rma \in RMAs
    BY WorkerTypes DEF SafetyInv
  <2>2. WorkerGrounded(v)
    BY DEF SafetyInv, Grounded
  <2> QED
    BY <1>3, <2>1, <2>2 DEF WorkerGrounded
<1>6. StampsKept'
  BY <1>1, <1>2 DEF SafetyInv, StampsKept
<1>7. RefundsEarned'
  BY <1>3 DEF SafetyInv, RefundsEarned
<1> QED
  BY <1>4, <1>5, <1>6, <1>7 DEF SafetyInv

\* A write that makes one recorded, legal move keeps the safety invariant.
LEMMA OneMoveSafe ==
    ASSUME SafetyInv, TypeInv', NEW w \in Workers, WorkerGrounded(w)',
           \A v \in Workers \ {w} : pc'[v] = pc[v] /\ job'[v] = job[v] /\ seen'[v] = seen[v],
           NEW r \in RMAs, NEW row, NEW from \in Visited(r), NEW to, Exists(r), LegalMove(from, to),
           rma' = [rma EXCEPT ![r] = row], trail' = [trail EXCEPT ![r] = @ \cup {<<from, to>>}],
           row.status = to,
           rma[r].wh \/ to = "wh_approved" => row.wh,
           rma[r].mgr \/ to = "approved" => row.mgr,
           \A x \in RMAs : refunds'[x] > 0 =>
               refunds[x] > 0 \/ (Exists(x) /\ "approved_refund" \in Visited(x))
    PROVE  SafetyInv'
<1> DEFINE events == {<<from, to>>}
<1>1. /\ \A e \in events : e[1] \in Visited(r) /\ LegalMove(e[1], e[2])
      /\ \E e \in events : row.status = e[2]
      /\ rma[r].wh \/ (\E e \in events : e[2] = "wh_approved") => row.wh
      /\ rma[r].mgr \/ (\E e \in events : e[2] = "approved") => row.mgr
  OBVIOUS
<1>2. trail' = [trail EXCEPT ![r] = @ \cup events]
  OBVIOUS
<1> HIDE DEF events
<1> QED
  BY <1>1, <1>2, MoveSafe

\* A write that leaves the status and the stamps alone keeps the safety invariant.
LEMMA NoMoveSafe ==
    ASSUME SafetyInv, TypeInv', NEW w \in Workers, WorkerGrounded(w)',
           \A v \in Workers \ {w} : pc'[v] = pc[v] /\ job'[v] = job[v] /\ seen'[v] = seen[v],
           NEW r \in RMAs, NEW row, Exists(r), rma' = [rma EXCEPT ![r] = row], UNCHANGED trail,
           row.status = rma[r].status, row.wh = rma[r].wh, row.mgr = rma[r].mgr,
           \A x \in RMAs : refunds'[x] > 0 =>
               refunds[x] > 0 \/ (Exists(x) /\ "approved_refund" \in Visited(x))
    PROVE  SafetyInv'
<1> DEFINE events == {}
<1>1. trail' = [trail EXCEPT ![r] = @ \cup events]
  BY DEF SafetyInv, TypeInv, TypeOK
<1>2. /\ \A e \in events : e[1] \in Visited(r) /\ LegalMove(e[1], e[2])
      /\ rma[r].wh \/ (\E e \in events : e[2] = "wh_approved") => row.wh
      /\ rma[r].mgr \/ (\E e \in events : e[2] = "approved") => row.mgr
  OBVIOUS
<1> HIDE DEF events
<1> QED
  BY <1>1, <1>2, MoveSafe

\* A step that only reads.
LEMMA ReadSafe ==
    ASSUME SafetyInv, TypeInv', UNCHANGED db, NEW w \in Workers, WorkerGrounded(w)',
           \A v \in Workers \ {w} : pc'[v] = pc[v] /\ job'[v] = job[v] /\ seen'[v] = seen[v]
    PROVE  SafetyInv'
<1>1. \A x \in RMAs : Visited(x)' = Visited(x) /\ Exists(x)' = Exists(x)
  BY DEF Visited, Exists, db
<1>2. AuditedHistory'
  BY <1>1 DEF SafetyInv, AuditedHistory, db
<1>3. Grounded'
  <2> SUFFICES ASSUME NEW v \in Workers \ {w} PROVE WorkerGrounded(v)'
    BY DEF Grounded
  <2>1. pc[v] # "idle" => job[v].rma \in RMAs
    BY WorkerTypes DEF SafetyInv
  <2> QED
    BY <1>1, <2>1 DEF SafetyInv, Grounded, WorkerGrounded
<1>4. StampsKept' /\ RefundsEarned'
  BY <1>1 DEF SafetyInv, StampsKept, RefundsEarned, db
<1> QED
  BY <1>2, <1>3, <1>4 DEF SafetyInv

\* A worker about to write no status has nothing to answer for.
LEMMA IdleGrounded ==
    ASSUME NEW w \in Workers, pc'[w] \notin {"commit", "label", "inspect", "refund"}
    PROVE  WorkerGrounded(w)'
BY DEF WorkerGrounded

\* A session that loads an existing return has read a status the trail knows.
LEMMA PauseSafe ==
    ASSUME SafetyInv, TypeInv', UNCHANGED db, NEW w \in Workers,
           NEW step \in Steps \ {"refund"}, NEW j \in JobType,
           j.rma \in RMAs, Exists(j.rma), Pause(w, step, j)
    PROVE  SafetyInv'
<1>1. TypeOK
  BY DEF SafetyInv, TypeInv
<1>2. step \in {"commit", "label", "inspect"} =>
          Snapshot(j.rma, step).row.status = rma[j.rma].status
  BY DEF Snapshot, AbsentRow, Blank
<1>3. rma[j.rma].status \in Visited(j.rma) /\ Visited(j.rma)' = Visited(j.rma)
  BY DEF SafetyInv, AuditedHistory, Visited, db
<1>4. pc'[w] = step /\ job'[w] = j /\ seen'[w] = Snapshot(j.rma, step)
  BY <1>1, PauseFrame
<1>5. WorkerGrounded(w)'
  <2>1. Visited(job[w].rma)' = Visited(j.rma)
    BY <1>4 DEF Visited, db
  <2> QED
    BY <1>2, <1>3, <1>4, <2>1 DEF WorkerGrounded
<1> QED
  BY <1>1, <1>5, PauseFrame, ReadSafe

\* Loading a return for a transition keeps the safety invariant (transition_return).
LEMMA LoadSafe ==
    ASSUME SafetyInv, TypeInv', NEW w \in Workers, NEW j \in JobType, NEW reason \in BOOLEAN,
           j.rma \in RMAs, Exists(j.rma), j.then = "refund" => j.target = "approved_refund",
           LoadForTransition(w, j, reason)
    PROVE  SafetyInv'
<1> TypeOK /\ "commit" \in Steps \ {"refund"} /\ "idle" \in Steps
  BY DEF SafetyInv, TypeInv, Steps
<1>1. UNCHANGED db
  BY DEF LoadForTransition
<1>2. CASE rma[j.rma].status = j.target /\ job' = [job EXCEPT ![w] = j]
           /\ pc' = [pc EXCEPT ![w] = j.then] /\ seen' = [seen EXCEPT ![w] = Blank]
  <2>1. pc'[w] = j.then /\ job'[w] = j /\ j.then \in {"idle", "refund"}
    BY <1>2 DEF TypeOK, JobType
  <2>2. j.target \in Visited(j.rma)
    BY <1>2 DEF SafetyInv, AuditedHistory
  <2>3. Visited(job[w].rma)' = Visited(j.rma)
    BY <1>1, <2>1 DEF Visited, db
  <2>4. WorkerGrounded(w)'
    BY <2>1, <2>2, <2>3 DEF WorkerGrounded
  <2> QED
    BY <1>1, <1>2, <2>4, ReadSafe DEF TypeOK
<1>3. CASE Abandon(w)
  BY <1>1, <1>3, ProceedFrame, IdleGrounded, ReadSafe DEF Abandon
<1>4. CASE Pause(w, "commit", j)
  BY <1>1, <1>4, PauseSafe
<1> QED
  BY <1>2, <1>3, <1>4 DEF LoadForTransition

\* Committing a transition keeps the safety invariant, though its status is stale.
LEMMA CommitSafe ==
    ASSUME SafetyInv, NEW w \in Workers, TransitionCommit(w)
    PROVE  SafetyInv'
<1> DEFINE r == job[w].rma
           from == seen[w].row.status
           target == job[w].target
           row == Transitioned(rma[r], seen[w].row, target)
<1> TypeInv /\ TypeOK /\ "idle" \in Steps
  BY DEF SafetyInv, TypeInv, Steps
<1>1. TypeInv'
  BY CommitType
<1>2. /\ r \in RMAs /\ Exists(r) /\ rma[r] \in RowType
      /\ seen[w].row \in RowType /\ job[w].then \in {"idle", "refund"}
  BY WorkerTypes DEF TransitionCommit
<1>3. LegalMove(from, target) /\ from \in Visited(r)
  BY DEF TypeInv, HandlerOK, WorkerOK, SafetyInv, Grounded, WorkerGrounded, TransitionCommit
<1>4. /\ row.status = target
      /\ rma[r].wh \/ target = "wh_approved" => row.wh
      /\ rma[r].mgr \/ target = "approved" => row.mgr
  BY <1>2, <1>3, LegalMoveType, TransitionedType
<1>5. CASE Abandon(w) /\ UNCHANGED db
  BY <1>1, <1>5, ProceedFrame, IdleGrounded, ReadSafe DEF Abandon
<1>6. CASE /\ rma' = [rma EXCEPT ![r] = row]
           /\ trail' = [trail EXCEPT ![r] = @ \cup {<<from, target>>}]
           /\ Proceed(w, job[w].then)
           /\ UNCHANGED refunds
  <2> HIDE DEF row
  <2>1. job[w].then \in Steps
    BY <1>2 DEF Steps
  <2>2. /\ pc'[w] = job[w].then
        /\ pc'[w] = "refund" => job'[w] = job[w] /\ target = "approved_refund"
    BY <1>2, <1>6, <2>1, ProceedFrame DEF TypeInv, HandlerOK, WorkerOK
  <2>3. target \in {e[2] : e \in trail'[r]}
    <3>1. <<from, target>> \in trail'[r]
      BY <1>2, <1>6 DEF TypeOK
    <3> QED
      BY <3>1
  <2>4. WorkerGrounded(w)'
    BY <1>2, <2>2, <2>3 DEF WorkerGrounded, Visited
  <2> QED
    BY <1>1, <1>2, <1>3, <1>4, <1>6, <2>1, <2>4, ProceedFrame, OneMoveSafe
<1> QED
  BY <1>5, <1>6 DEF TransitionCommit

\* Writes that leave the status, the stamps and the trail alone.
LEMMA QuietWriteSafe ==
    ASSUME SafetyInv, TypeInv', NEW w \in Workers, pc[w] # "idle",
           NEW step \in {"idle", "transition"}, Proceed(w, step),
           NEW row, rma' = [rma EXCEPT ![job[w].rma] = row],
           row.status = rma[job[w].rma].status,
           row.wh = rma[job[w].rma].wh, row.mgr = rma[job[w].rma].mgr,
           UNCHANGED <<trail, refunds>>
    PROVE  SafetyInv'
<1> DEFINE r == job[w].rma
<1> TypeInv /\ TypeOK /\ step \in Steps
  BY DEF SafetyInv, TypeInv, Steps
<1>1. r \in RMAs /\ Exists(r)
  BY WorkerTypes
<1>2. UNCHANGED trail /\ UNCHANGED refunds
  OBVIOUS
<1>3. WorkerGrounded(w)'
  BY ProceedFrame, IdleGrounded
<1>4. \A v \in Workers \ {w} : pc'[v] = pc[v] /\ job'[v] = job[v] /\ seen'[v] = seen[v]
  BY ProceedFrame
<1> HIDE DEF r
<1> QED
  BY <1>1, <1>2, <1>3, <1>4, NoMoveSafe DEF r

\* Storing the approval route or the totals keeps the safety invariant.
LEMMA StoreRouteSafe ==
    ASSUME SafetyInv, NEW w \in Workers, StoreRoute(w) \/ StoreRollup(w)
    PROVE  SafetyInv'
<1> DEFINE r == job[w].rma
           loaded == seen[w].row
           routed == [loaded EXCEPT !.route = ApprovalTarget(seen[w].item)]
           rolled == [loaded EXCEPT !.credit = CreditOf(seen[w].item)]
<1>1. /\ rma[r] \in RowType /\ loaded \in RowType /\ seen[w].item \in ItemType
      /\ TypeInv /\ pc[w] # "idle"
  BY WorkerTypes DEF SafetyInv, StoreRoute, StoreRollup
<1>2. PICK new \in {routed, rolled} :
          /\ rma' = [rma EXCEPT ![r] = OrmWrite(rma[r], loaded, new)]
          /\ Proceed(w, "transition")
          /\ UNCHANGED <<trail, refunds>>
  BY DEF StoreRoute, StoreRollup
<1>3. /\ new \in RowType
      /\ new.status = loaded.status /\ new.wh = loaded.wh /\ new.mgr = loaded.mgr
  <2>1. ApprovalTarget(seen[w].item) \in Routes
    BY DEF ApprovalTarget, Routes
  <2> QED
    BY <1>1, <1>2, <2>1, CreditType DEF RowType
<1> DEFINE row == OrmWrite(rma[r], loaded, new)
<1>4. row.status = rma[r].status /\ row.wh = rma[r].wh /\ row.mgr = rma[r].mgr
  BY <1>1, <1>3, OrmWriteRow
<1>5. rma' = [rma EXCEPT ![r] = row]
  BY <1>2
<1>6. TypeInv'
  BY <1>1, StoreRouteType
<1> HIDE DEF row
<1> QED
  BY <1>1, <1>2, <1>4, <1>5, <1>6, QuietWriteSafe

\* Storing a receiving review keeps the safety invariant.
LEMMA StoreReceivingSafe ==
    ASSUME SafetyInv, NEW w \in Workers, StoreReceiving(w)
    PROVE  SafetyInv'
<1> DEFINE r == job[w].rma
           loaded == seen[w].row
           newItem == ReceivedItem(seen[w].item, job[w].form)
           newRow == [loaded EXCEPT !.credit = CreditOf(newItem)]
<1>1. /\ rma[r] \in RowType /\ loaded \in RowType /\ seen[w].item \in ItemType
      /\ job[w].form \in FormType /\ TypeInv /\ pc[w] # "idle"
  BY WorkerTypes DEF SafetyInv, StoreReceiving
<1>2. CreditOf(newItem) \in Nat
  BY <1>1, ReceivedType, CreditType
<1> HIDE DEF newItem
<1>3. /\ newRow \in RowType /\ newRow.status = loaded.status
      /\ newRow.wh = loaded.wh /\ newRow.mgr = loaded.mgr
  BY <1>1, <1>2 DEF RowType
<1> HIDE DEF newRow
<1>4. /\ rma' = [rma EXCEPT ![r] = OrmWrite(rma[r], loaded, newRow)]
      /\ Proceed(w, "idle")
      /\ UNCHANGED <<trail, refunds>>
  BY DEF StoreReceiving, newItem, newRow
<1> DEFINE row == OrmWrite(rma[r], loaded, newRow)
<1>5. row.status = rma[r].status /\ row.wh = rma[r].wh /\ row.mgr = rma[r].mgr
  BY <1>1, <1>3, OrmWriteRow
<1>6. rma' = [rma EXCEPT ![r] = row]
  BY <1>4
<1>7. TypeInv'
  BY <1>1, StoreReceivingType
<1> HIDE DEF row
<1> QED
  BY <1>1, <1>4, <1>5, <1>6, <1>7, QuietWriteSafe

\* A step that sets the status along a legal move out of a visited status, or does not.
LEMMA SetStatusSafe ==
    ASSUME SafetyInv, TypeInv', NEW w \in Workers, pc[w] # "idle",
           NEW step \in {"idle", "transition"}, Proceed(w, step),
           NEW from, NEW to \in Statuses \ {"wh_approved", "approved"},
           \/ /\ rma' = [rma EXCEPT ![job[w].rma].status = to]
              /\ trail' = [trail EXCEPT ![job[w].rma] = @ \cup {<<from, to>>}]
              /\ from \in Visited(job[w].rma) /\ LegalMove(from, to)
           \/ rma' = rma /\ trail' = trail,
           \A x \in RMAs : refunds'[x] > 0 =>
               refunds[x] > 0 \/ (Exists(x) /\ "approved_refund" \in Visited(x))
    PROVE  SafetyInv'
<1> DEFINE r == job[w].rma
           row == [rma[r] EXCEPT !.status = to]
<1> TypeInv /\ TypeOK /\ step \in Steps
  BY DEF SafetyInv, TypeInv, Steps
<1>1. r \in RMAs /\ Exists(r) /\ rma[r] \in RowType
  BY WorkerTypes
<1>2. row.status = to /\ row.wh = rma[r].wh /\ row.mgr = rma[r].mgr
  BY <1>1 DEF RowType
<1>3. WorkerGrounded(w)'
  BY ProceedFrame, IdleGrounded
<1>4. CASE /\ rma' = [rma EXCEPT ![r].status = to]
           /\ trail' = [trail EXCEPT ![r] = @ \cup {<<from, to>>}]
           /\ from \in Visited(r) /\ LegalMove(from, to)
  <2>1. rma' = [rma EXCEPT ![r] = row]
    BY <1>4
  <2>2. \A v \in Workers \ {w} : pc'[v] = pc[v] /\ job'[v] = job[v] /\ seen'[v] = seen[v]
    BY ProceedFrame
  <2>3. /\ rma[r].wh \/ to = "wh_approved" => row.wh
        /\ rma[r].mgr \/ to = "approved" => row.mgr
    BY <1>2
  <2> HIDE DEF row, r
  <2> QED
    BY <1>1, <1>2, <1>3, <1>4, <2>1, <2>2, <2>3, OneMoveSafe
<1>5. CASE rma' = rma /\ trail' = trail
  <2>1. rma' = [rma EXCEPT ![r] = rma[r]]
    BY <1>1, <1>5 DEF TypeOK
  <2> QED
    BY <1>1, <1>3, <1>5, <2>1, ProceedFrame, NoMoveSafe
<1> QED
  BY <1>4, <1>5

\* Storing a label or an inspection keeps the safety invariant.
LEMMA LabelAndInspectionSafe ==
    ASSUME SafetyInv, NEW w \in Workers, StoreLabel(w) \/ StoreInspection(w)
    PROVE  SafetyInv'
<1> DEFINE prior == seen[w].row.status
<1>1. /\ \A from \in {"auto_approved", "needs_review"} : LegalMove(from, "awaiting_return")
      /\ LegalMove("received", "inspected")
      /\ "awaiting_return" \in Statuses \ {"wh_approved", "approved"}
      /\ "inspected" \in Statuses \ {"wh_approved", "approved"}
  BY DEF LegalMove, CanTransition, Transitions, Statuses
<1>2. pc[w] # "idle" /\ prior \in Visited(job[w].rma)
  BY DEF SafetyInv, Grounded, WorkerGrounded, StoreLabel, StoreInspection
<1>3. TypeInv'
  BY StoreLabelType, StoreInspectionType DEF SafetyInv
<1>4. PICK to \in {"awaiting_return", "inspected"}, step \in {"idle", "transition"} :
         /\ Proceed(w, step)
         /\ \/ /\ rma' = [rma EXCEPT ![job[w].rma].status = to]
               /\ trail' = [trail EXCEPT ![job[w].rma] = @ \cup {<<prior, to>>}]
               /\ LegalMove(prior, to)
            \/ rma' = rma /\ trail' = trail
         /\ UNCHANGED refunds
  <2>1. CASE StoreLabel(w)
    BY <1>1, <2>1 DEF StoreLabel
  <2>2. CASE StoreInspection(w)
    <3>1. Proceed(w, "idle") \/ Proceed(w, "transition")
      BY <2>2 DEF StoreInspection
    <3>2. /\ \/ /\ rma' = [rma EXCEPT ![job[w].rma].status = "inspected"]
                /\ trail' = [trail EXCEPT ![job[w].rma] = @ \cup {<<prior, "inspected">>}]
                /\ prior = "received"
             \/ rma' = rma /\ trail' = trail
          /\ UNCHANGED refunds
      BY <2>2 DEF StoreInspection
    <3> QED
      BY <1>1, <3>1, <3>2
  <2> QED
    BY <2>1, <2>2
<1> HIDE DEF prior
<1> QED
  BY <1>1, <1>2, <1>3, <1>4, SetStatusSafe

\* Storing a refund keeps the safety invariant (issue_refund).
LEMMA StoreRefundSafe ==
    ASSUME SafetyInv, NEW w \in Workers, StoreRefund(w)
    PROVE  SafetyInv'
<1> DEFINE r == job[w].rma
<1>1. LegalMove("approved_refund", "completed") /\ "completed" \in Statuses \ {"wh_approved", "approved"}
  BY DEF LegalMove, CanTransition, Transitions, Statuses
<1>2. /\ "approved_refund" \in Visited(r) /\ pc[w] # "idle"
      /\ r \in RMAs /\ Exists(r)
  BY WorkerTypes DEF SafetyInv, Grounded, WorkerGrounded, StoreRefund
<1>3. TypeInv'
  BY StoreRefundType DEF SafetyInv
<1>4. /\ rma' = [rma EXCEPT ![r].status = "completed"]
      /\ trail' = [trail EXCEPT ![r] = @ \cup {<<"approved_refund", "completed">>}]
      /\ refunds' = [refunds EXCEPT ![r] = @ + 1]
      /\ Proceed(w, "idle")
  BY DEF StoreRefund
<1>5. \A x \in RMAs : refunds'[x] > 0 =>
          refunds[x] > 0 \/ (Exists(x) /\ "approved_refund" \in Visited(x))
  BY <1>2, <1>4 DEF SafetyInv, TypeInv, TypeOK
<1> QED
  BY <1>1, <1>2, <1>3, <1>4, <1>5, SetStatusSafe

\* The first session of every handler keeps the safety invariant.
LEMMA BeginSafe ==
    ASSUME SafetyInv, NEW w \in Workers, NEW r \in RMAs, Begin(w, r)
    PROVE  SafetyInv'
<1>1. TypeInv' /\ TypeInv
  BY BeginType DEF SafetyInv
<1>2. ASSUME NEW target \in MoveTargets, NEW reason \in BOOLEAN, Transition(w, r, target, reason)
      PROVE  SafetyInv'
  BY <1>1, <1>2, TaskType, LoadSafe, FormAssumption DEF Transition
<1>3. ASSUME ApproveWarehouse(w, r) PROVE SafetyInv'
  <2>1. "wh_approved" \in Statuses /\ "route" \in Steps \ {"refund"}
    BY DEF Statuses, Steps
  <2> QED
    BY <1>1, <1>3, <2>1, TaskType, PauseSafe DEF ApproveWarehouse
<1>4. ASSUME ApproveManager(w, r) PROVE SafetyInv'
  <2>1. ManagerStatus \in Statuses /\ "rollup" \in Steps \ {"refund"}
    BY DEF Statuses, Steps, ManagerStatus
  <2> QED
    BY <1>1, <1>4, <2>1, TaskType, PauseSafe DEF ApproveManager
<1>5. ASSUME NEW form \in ReceivingForms, UpdateReceiving(w, r, form) PROVE SafetyInv'
  <2> DEFINE j == [Task(r, Absent) EXCEPT !.form = form]
  <2>1. j \in JobType /\ j.rma = r
    BY TaskType, FormAssumption DEF JobType
  <2>2. "receiving" \in Steps \ {"refund"}
    BY DEF Steps
  <2>3. Pause(w, "receiving", j) /\ Exists(r) /\ UNCHANGED db
    BY <1>5 DEF UpdateReceiving
  <2> HIDE DEF j
  <2> QED
    BY <1>1, <2>1, <2>2, <2>3, PauseSafe
<1>6. ASSUME IssueLabel(w, r) PROVE SafetyInv'
  <2>1. "awaiting_return" \in Statuses /\ "label" \in Steps \ {"refund"}
    BY DEF Statuses, Steps
  <2> QED
    BY <1>1, <1>6, <2>1, TaskType, PauseSafe DEF IssueLabel
<1>7. ASSUME ReceiveRma(w, r) PROVE SafetyInv'
  <2>1. WorkerGrounded(w)'
    BY <1>1, <1>7, IdleGrounded DEF ReceiveRma, TypeInv, TypeOK
  <2> QED
    BY <1>1, <1>7, <2>1, ReadSafe DEF ReceiveRma, TypeInv, TypeOK
<1>8. ASSUME NEW d \in Dispositions, InspectRma(w, r, d) PROVE SafetyInv'
  <2>1. /\ d \in Statuses \cup {Absent} /\ "inspect" \in Steps \ {"refund"}
        /\ Exists(r)
    BY <1>8 DEF Statuses, Steps, Dispositions, InspectRma, Absent, Exists
  <2> QED
    BY <1>1, <1>8, <2>1, TaskType, PauseSafe DEF InspectRma
<1>9. ASSUME IssueRefund(w, r) PROVE SafetyInv'
  <2> DEFINE j == [Task(r, "approved_refund") EXCEPT !.then = "refund"]
  <2>1. j.rma = r
    BY TaskType DEF Statuses, JobType
  <2>2. /\ UNCHANGED <<db, seen>> /\ Exists(r)
        /\ job' = [job EXCEPT ![w] = j]
        /\ \/ pc' = [pc EXCEPT ![w] = "refund"] /\ rma[r].status = "approved_refund"
           \/ pc' = [pc EXCEPT ![w] = "transition"]
    BY <1>9 DEF IssueRefund
  <2>3. job'[w].rma = r /\ Visited(job[w].rma)' = Visited(r)
    BY <1>1, <2>1, <2>2 DEF TypeInv, TypeOK, Visited, db
  <2>4. WorkerGrounded(w)'
    BY <1>1, <2>2, <2>3 DEF WorkerGrounded, SafetyInv, AuditedHistory, TypeInv, TypeOK
  <2> HIDE DEF j
  <2> QED
    BY <1>1, <2>2, <2>4, ReadSafe DEF TypeInv, TypeOK
<1> QED
  BY <1>2, <1>3, <1>4, <1>5, <1>6, <1>7, <1>8, <1>9 DEF Begin

\* Every later session of a handler keeps the safety invariant.
LEMMA ContinueSafe ==
    ASSUME SafetyInv, NEW w \in Workers, Continue(w)
    PROVE  SafetyInv'
<1>1. TypeInv' /\ TypeInv
  BY ContinueType DEF SafetyInv
<1>2. ASSUME LaterTransition(w) PROVE SafetyInv'
  <2>1. /\ job[w] \in JobType /\ job[w].rma \in RMAs /\ Exists(job[w].rma) /\ FALSE \in BOOLEAN
        /\ (job[w].then = "refund" => job[w].target = "approved_refund")
    BY <1>1, <1>2, WorkerTypes DEF LaterTransition, TypeInv, HandlerOK, WorkerOK
  <2> QED
    BY <1>1, <1>2, <2>1, LoadSafe DEF LaterTransition
<1>3. ASSUME Crash(w) PROVE SafetyInv'
  BY <1>1, <1>3, ProceedFrame, IdleGrounded, ReadSafe DEF Crash, Abandon, TypeInv, Steps
<1> QED
  BY <1>2, <1>3, CommitSafe, StoreRouteSafe, StoreReceivingSafe, LabelAndInspectionSafe,
     StoreRefundSafe DEF Continue

\* The safety invariant holds in every reachable state, whatever the interleaving.
THEOREM SafetyInvariant == Spec => []SafetyInv
<1>1. Init => SafetyInv
  <2>1. Init => TypeInv
    BY ConstantTypes, BoundAssumption, IntakeStatuses
       DEF Init, TypeInv, TypeOK, HandlerOK, WorkerOK, NoJob, Steps
  <2> QED
    BY <2>1 DEF Init, SafetyInv, AuditedHistory, Grounded, WorkerGrounded, StampsKept,
       RefundsEarned, Visited, Exists, AbsentRow
<1>2. SafetyInv /\ [Next]_vars => SafetyInv'
  <2> SUFFICES ASSUME SafetyInv, [Next]_vars PROVE SafetyInv'
    OBVIOUS
  <2>1. CASE UNCHANGED vars
    BY <2>1 DEF vars, db, local, SafetyInv, TypeInv, TypeOK, HandlerOK, WorkerOK, Exists,
       AuditedHistory, Grounded, WorkerGrounded, StampsKept, RefundsEarned, Visited
  <2>2. CASE Next
    BY <2>2, CreateSafe, BeginSafe, ContinueSafe DEF Next
  <2> QED
    BY <2>1, <2>2
<1> QED
  BY <1>1, <1>2, PTL DEF Spec

\* The audit trail accounts for every status, whatever the interleaving.
THEOREM HistoryIsAudited == Spec => []AuditedHistory
<1>1. SafetyInv => AuditedHistory
  BY DEF SafetyInv
<1> QED
  BY <1>1, SafetyInvariant, PTL

\* No refund without receipt, inspection and approval, whatever the interleaving.
THEOREM RefundsFollowInspection == Spec => []RefundAfterInspection
<1>1. SafetyInv => RefundAfterInspection
  BY SafetyConsequences
<1> QED
  BY <1>1, SafetyInvariant, PTL

\* No manager or finance status without the warehouse's stamp, whatever the interleaving.
THEOREM ApprovalTakesTwoSteps == Spec => []TwoStepApproval
<1>1. SafetyInv => TwoStepApproval
  BY SafetyConsequences
<1> QED
  BY <1>1, SafetyInvariant, PTL

-----------------------------------------------------------------------------
(* What no request takes back *)

\* A return on file stays on file, with the stamps of its approvers.
RowKept(r) == Exists(r)' /\ (rma[r].wh => rma'[r].wh) /\ (rma[r].mgr => rma'[r].mgr)

\* A step that writes one row and takes neither its status nor its stamps away.
LEMMA RowLasts ==
    ASSUME TypeOK, NEW x \in RMAs, Exists(x), NEW r \in RMAs, NEW row,
           rma' = [rma EXCEPT ![r] = row], row.status = rma[r].status \/ row.status # Absent,
           rma[r].wh => row.wh, rma[r].mgr => row.mgr
    PROVE  RowKept(x)
BY DEF RowKept, Exists, TypeOK

\* A return keeps its row, its stamps, its trail and its refunds.
Kept(r) == RowKept(r) /\ trail[r] \subseteq trail'[r] /\ refunds[r] <= refunds'[r]

\* No request takes back what was recorded of a return, however requests interleave.
HistoryLasts == [][\A r \in RMAs : Exists(r) => Kept(r)]_vars

\* No later session of a handler takes anything of a return away.
LEMMA ContinueLasts ==
    ASSUME SafetyInv, NEW w \in Workers, Continue(w), NEW x \in RMAs, Exists(x)
    PROVE  Kept(x)
<1> DEFINE r == job[w].rma
<1>1. TypeOK /\ TypeInv
  BY DEF SafetyInv, TypeInv
<1>2. \/ UNCHANGED trail
      \/ \E e : trail' = [trail EXCEPT ![r] = @ \cup {e}]
  <2>1. CASE LaterTransition(w)
    BY <2>1 DEF LaterTransition, LoadForTransition, db
  <2>2. CASE TransitionCommit(w)
    BY <2>2 DEF TransitionCommit, db
  <2> QED
    BY <2>1, <2>2 DEF Continue, StoreRoute, StoreRollup, StoreReceiving, StoreLabel, StoreInspection,
       StoreRefund, Crash, db
<1>3. trail[x] \subseteq trail'[x]
  BY <1>1, <1>2 DEF TypeOK
<1>14. refunds[x] <= refunds'[x]
  <2>1. UNCHANGED refunds \/ refunds' = [refunds EXCEPT ![r] = @ + 1]
    BY DEF Continue, LaterTransition, LoadForTransition, TransitionCommit, StoreRoute, StoreRollup,
       StoreReceiving, StoreLabel, StoreInspection, StoreRefund, Crash, db
  <2> QED
    BY <1>1, <2>1, BoundAssumption DEF TypeOK
<1> SUFFICES RowKept(x)
  BY <1>3, <1>14 DEF Kept
<1>4. ASSUME pc[w] # "idle"
      PROVE  r \in RMAs /\ rma[r] \in RowType /\ seen[w].row \in RowType /\ seen[w].item \in ItemType
             /\ job[w].form \in FormType
  BY <1>1, <1>4, WorkerTypes
<1>5. ASSUME UNCHANGED rma PROVE RowKept(x)
  BY <1>5 DEF RowKept, Exists
<1>6. ASSUME NEW status \in Statuses, rma' = [rma EXCEPT ![r].status = status] PROVE RowKept(x)
  BY <1>1, <1>6, IntakeStatuses DEF RowKept, Exists, TypeOK, RowType
<1>7. ASSUME pc[w] # "idle", NEW new \in RowType, new.status = seen[w].row.status,
             new.wh = seen[w].row.wh, new.mgr = seen[w].row.mgr,
             rma' = [rma EXCEPT ![r] = OrmWrite(rma[r], seen[w].row, new)]
      PROVE  RowKept(x)
  <2>1. /\ OrmWrite(rma[r], seen[w].row, new).status = rma[r].status
        /\ OrmWrite(rma[r], seen[w].row, new).wh = rma[r].wh
        /\ OrmWrite(rma[r], seen[w].row, new).mgr = rma[r].mgr
    BY <1>4, <1>7, OrmWriteRow
  <2> DEFINE row == OrmWrite(rma[r], seen[w].row, new)
  <2>2. /\ rma' = [rma EXCEPT ![r] = row] /\ row.status = rma[r].status
        /\ (rma[r].wh => row.wh) /\ (rma[r].mgr => row.mgr)
    BY <1>7, <2>1
  <2> HIDE DEF row
  <2> QED
    BY <1>1, <1>4, <1>7, <2>2, RowLasts
<1>8. CASE LaterTransition(w) \/ Crash(w)
  BY <1>5, <1>8 DEF LaterTransition, LoadForTransition, Crash, db
<1>9. CASE TransitionCommit(w)
  <2> DEFINE row == Transitioned(rma[r], seen[w].row, job[w].target)
  <2>1. pc[w] # "idle" /\ job[w].target \in Statuses
    BY <1>1, <1>9, LegalMoveType DEF TransitionCommit, TypeInv, HandlerOK, WorkerOK
  <2>2. /\ row.status = job[w].target /\ job[w].target # Absent
        /\ rma[r].wh => row.wh
        /\ rma[r].mgr => row.mgr
    BY <1>4, <2>1, TransitionedType, IntakeStatuses
  <2>3. UNCHANGED rma \/ rma' = [rma EXCEPT ![r] = row]
    BY <1>9 DEF TransitionCommit, db
  <2> HIDE DEF row
  <2> QED
    BY <1>1, <1>4, <1>5, <2>1, <2>2, <2>3, RowLasts
<1>10. CASE StoreRoute(w)
  <2> DEFINE new == [seen[w].row EXCEPT !.route = ApprovalTarget(seen[w].item)]
  <2>1. pc[w] # "idle" /\ rma' = [rma EXCEPT ![r] = OrmWrite(rma[r], seen[w].row, new)]
    BY <1>10 DEF StoreRoute
  <2>2. /\ new \in RowType /\ new.status = seen[w].row.status
        /\ new.wh = seen[w].row.wh /\ new.mgr = seen[w].row.mgr
    BY <1>4, <2>1 DEF RowType, ApprovalTarget, Routes
  <2> HIDE DEF new
  <2> QED
    BY <1>7, <2>1, <2>2
<1>11. CASE StoreRollup(w)
  <2> DEFINE new == [seen[w].row EXCEPT !.credit = CreditOf(seen[w].item)]
  <2>1. pc[w] # "idle" /\ rma' = [rma EXCEPT ![r] = OrmWrite(rma[r], seen[w].row, new)]
    BY <1>11 DEF StoreRollup
  <2>2. /\ new \in RowType /\ new.status = seen[w].row.status
        /\ new.wh = seen[w].row.wh /\ new.mgr = seen[w].row.mgr
    BY <1>4, <2>1, CreditType DEF RowType
  <2> HIDE DEF new
  <2> QED
    BY <1>7, <2>1, <2>2
<1>12. CASE StoreReceiving(w)
  <2> DEFINE it == ReceivedItem(seen[w].item, job[w].form)
             new == [seen[w].row EXCEPT !.credit = CreditOf(it)]
  <2>1. pc[w] # "idle" /\ rma' = [rma EXCEPT ![r] = OrmWrite(rma[r], seen[w].row, new)]
    BY <1>12 DEF StoreReceiving
  <2>2. CreditOf(it) \in Nat
    BY <1>4, <2>1, CreditType, ReceivedType
  <2> HIDE DEF it
  <2>3. /\ new \in RowType /\ new.status = seen[w].row.status
        /\ new.wh = seen[w].row.wh /\ new.mgr = seen[w].row.mgr
    BY <1>4, <2>1, <2>2 DEF RowType
  <2> HIDE DEF new
  <2> QED
    BY <1>7, <2>1, <2>3
<1>13. CASE StoreLabel(w) \/ StoreInspection(w) \/ StoreRefund(w)
  BY <1>5, <1>6, <1>13 DEF StoreLabel, StoreInspection, StoreRefund, Statuses
<1> QED
  BY <1>8, <1>9, <1>10, <1>11, <1>12, <1>13 DEF Continue

\* The first session of a handler writes nothing.
LEMMA BeginWritesNothing ==
    ASSUME NEW w \in Workers, NEW r \in RMAs, Begin(w, r)
    PROVE  UNCHANGED db
BY DEF Begin, Transition, LoadForTransition, ApproveWarehouse, ApproveManager, UpdateReceiving,
   IssueLabel, ReceiveRma, InspectRma, IssueRefund

\* Nor does the creation of another return, or the first session of a handler.
LEMMA ReturnsLast ==
    ASSUME SafetyInv, [Next]_vars, NEW x \in RMAs, Exists(x)
    PROVE  Kept(x) /\ Exists(x)' /\ Visited(x) \subseteq Visited(x)'
<1>1. SUFFICES Kept(x)
  BY DEF Kept, RowKept, Visited
<1>2. CASE UNCHANGED <<rma, trail, refunds>>
  BY <1>2, BoundAssumption DEF Kept, RowKept, Exists, SafetyInv, TypeInv, TypeOK
<1>3. ASSUME NEW r \in RMAs, NEW sub \in Submissions, CreateRma(r, sub)
      PROVE  Kept(x)
  BY <1>3, BoundAssumption DEF CreateRma, Kept, RowKept, Exists, SafetyInv, TypeInv, TypeOK
<1> QED
  BY <1>2, <1>3, BeginWritesNothing, ContinueLasts DEF Next, vars, db

\* A return on file, its stamps, its trail and its refunds outlast every request: no
\* handler, whatever it read and whichever others commit meanwhile, removes an event,
\* clears an approver's stamp or drops a refund (no UPDATE of app/returns/service.py does).
THEOREM RecordsLast == Spec => HistoryLasts
<1>1. SafetyInv /\ [Next]_vars => \A r \in RMAs : Exists(r) => Kept(r)
  BY ReturnsLast
<1> QED
  BY <1>1, SafetyInvariant, PTL DEF Spec, HistoryLasts

\* A worker of the desk leaves the other workers alone.
LEMMA OthersStay ==
    ASSUME TypeOK, NEW w \in Workers, Continue(w) \/ \E r \in RMAs : Begin(w, r),
           NEW v \in Workers \ {w}
    PROVE  pc'[v] = pc[v] /\ job'[v] = job[v] /\ seen'[v] = seen[v]
<1>1. CASE Continue(w)
  BY <1>1 DEF Continue, LaterTransition, LoadForTransition, Pause, Abandon, Proceed, TransitionCommit,
     StoreRoute, StoreRollup, StoreReceiving, StoreLabel, StoreInspection, StoreRefund, Crash, TypeOK
<1>2. CASE \E r \in RMAs : Begin(w, r)
  BY <1>2 DEF Begin, Transition, LoadForTransition, Pause, Abandon, Proceed, ApproveWarehouse,
     ApproveManager, UpdateReceiving, IssueLabel, ReceiveRma, InspectRma, IssueRefund, TypeOK
<1> QED
  BY <1>1, <1>2

-----------------------------------------------------------------------------
(* Sessions of one return kept apart *)

\* No two requests are inside a session of one return at once, or due to pay it: what
\* one request at a time gives, and a lock of the return's row held from a session's
\* read to its write, and from a refund's check to its payment, would give.  Requests
\* of different returns interleave freely, and so do the sessions of one return.
InSession(w) == pc[w] \notin {"idle", "transition"}
SessionsApart ==
    \A v, w \in Workers : v # w /\ InSession(v) /\ InSession(w) => job[v].rma # job[w].rma

\* What a session has loaded is still there, since nobody else writes that return.
Reading == {"commit", "route", "rollup", "receiving", "label", "inspect"}
Current(w) ==
    /\ pc[w] \in Reading => seen[w] = Snapshot(job[w].rma, pc[w])
    /\ pc[w] = "refund" => rma[job[w].rma].status = "approved_refund"

\* A return whose stamps, credits and payment agree with its status.
StampsAgree(row) ==
    /\ row.rejected => row.status \in {"rejected", "completed"}
    /\ row.status = "rejected" => row.rejected
    /\ row.status \in {"wh_approved", "approved", "awaiting_finance"} => row.wh
    /\ row.status = "approved" => row.mgr
CreditsAgree(row, it) ==
    row.status # Absent => row.credit = CreditOf(it) /\ it.credit = CreditOf(it)
PaidOnce(row, n) == n = 0 \/ (n = 1 /\ row.status = "completed")
Agrees(row, it, n) == StampsAgree(row) /\ CreditsAgree(row, it) /\ PaidOnce(row, n)
Agreed == \A r \in RMAs : Agrees(rma[r], item[r], refunds[r])

SerialInv == TypeInv /\ Agreed /\ \A w \in Workers : Current(w)

\* How the status and the payments of a return may change in one step.
Moves(row, new, n, m) ==
    \/ new.status = row.status /\ m = n
    \/ row.status = Absent /\ new.status \in InitialStatuses /\ m = n
    \/ LegalMove(row.status, new.status) /\ m = n
    \/ row.status = "approved_refund" /\ n = 0 /\ new.status = "completed" /\ m = 1

\* The promised lifecycle has the desk's table of moves.
LEMMA SameMoves ==
    ASSUME NEW a, NEW b
    PROVE  Lifecycle!LegalMove(a, b) = LegalMove(a, b)
BY DEF Lifecycle!LegalMove, LegalMove, Lifecycle!CanTransition, CanTransition, Lifecycle!LegacyReject,
   LegacyReject, Lifecycle!Transitions, Transitions, Lifecycle!Statuses, Statuses

\* A step that changes one return, as it may, keeps what agrees and is a step of the promise.
LEMMA ChangeKeeps ==
    ASSUME TypeOK, Agreed, NEW r \in RMAs, NEW row \in RowType, NEW it \in ItemType, NEW n \in Nat,
           rma' = [rma EXCEPT ![r] = row], item' = [item EXCEPT ![r] = it],
           refunds' = [refunds EXCEPT ![r] = n],
           Agrees(row, it, n), Moves(rma[r], row, refunds[r], n)
    PROVE  Agreed' /\ [Lifecycle!Next]_(Lifecycle!lifecycleVars)
<1>1. /\ rma'[r] = row /\ item'[r] = it /\ refunds'[r] = n
      /\ \A x \in RMAs \ {r} : rma'[x] = rma[x] /\ item'[x] = item[x] /\ refunds'[x] = refunds[x]
  BY DEF TypeOK
<1>2. Agreed'
  BY <1>1 DEF Agreed
<1> DEFINE status == [x \in RMAs |-> rma[x].status]
           next == [x \in RMAs |-> rma'[x].status]
<1>3. next = [status EXCEPT ![r] = row.status] /\ status[r] = rma[r].status
  <2>1. \A x \in RMAs : next[x] = [status EXCEPT ![r] = row.status][x]
    BY <1>1
  <2> QED BY <2>1, Zenon
<1>4. CASE row.status = rma[r].status /\ n = refunds[r]
  <2>1. next = status /\ refunds' = refunds
    BY <1>3, <1>4 DEF TypeOK
  <2> QED BY <1>2, <2>1 DEF Lifecycle!lifecycleVars
<1>5. CASE rma[r].status = Absent /\ row.status \in InitialStatuses /\ n = refunds[r]
  <2>1. refunds' = refunds
    BY <1>5 DEF TypeOK
  <2>2. Lifecycle!Open(r)
    BY <1>3, <1>5, <2>1 DEF Lifecycle!Open, Lifecycle!InitialStatuses, InitialStatuses, Lifecycle!Absent, Absent
  <2> QED BY <1>2, <2>2 DEF Lifecycle!Next
<1>6. CASE LegalMove(rma[r].status, row.status) /\ n = refunds[r]
  <2>1. refunds' = refunds
    BY <1>6 DEF TypeOK
  <2>2. row.status \in Lifecycle!Statuses
    BY <1>6, LegalMoveType DEF Lifecycle!Statuses, Statuses
  <2>3. Lifecycle!Move(r)
    BY <1>3, <1>6, <2>1, <2>2, SameMoves DEF Lifecycle!Move
  <2> QED BY <1>2, <2>3 DEF Lifecycle!Next
<1>7. CASE rma[r].status = "approved_refund" /\ refunds[r] = 0 /\ row.status = "completed" /\ n = 1
  <2>1. Lifecycle!PayOut(r)
    BY <1>3, <1>7 DEF Lifecycle!PayOut
  <2> QED BY <1>2, <2>1 DEF Lifecycle!Next
<1> QED BY <1>2, <1>4, <1>5, <1>6, <1>7 DEF Moves

\* A step that writes nothing.
LEMMA NothingWritten ==
    ASSUME Agreed, UNCHANGED db
    PROVE  Agreed' /\ [Lifecycle!Next]_(Lifecycle!lifecycleVars)
BY DEF Agreed, db, Lifecycle!lifecycleVars

\* Writing back a credit nobody else has written since leaves the new one.
LEMMA CurrentRowWrite ==
    ASSUME NEW cur \in RowType, NEW loaded \in RowType, NEW new \in RowType,
           loaded.credit = cur.credit, new.status = loaded.status,
           new.wh = loaded.wh, new.mgr = loaded.mgr, new.rejected = loaded.rejected
    PROVE  /\ OrmWrite(cur, loaded, new) \in RowType
           /\ OrmWrite(cur, loaded, new).status = cur.status
           /\ OrmWrite(cur, loaded, new).wh = cur.wh
           /\ OrmWrite(cur, loaded, new).mgr = cur.mgr
           /\ OrmWrite(cur, loaded, new).rejected = cur.rejected
           /\ OrmWrite(cur, loaded, new).credit = new.credit
BY DEF OrmWrite, RowType

\* Writing back a line nobody else has written since leaves the new one.
LEMMA CurrentLineWrite ==
    ASSUME NEW cur \in ItemType, NEW new \in ItemType
    PROVE  OrmWrite(cur, cur, new) = new
BY DEF OrmWrite, ItemType

\* A transition that is legal leaves stamps that agree.
LEMMA TransitionAgrees ==
    ASSUME NEW row \in RowType, NEW loaded \in RowType, NEW target \in Statuses,
           StampsAgree(row), LegalMove(row.status, target), loaded.rejected = row.rejected
    PROVE  /\ StampsAgree(Transitioned(row, loaded, target))
           /\ Transitioned(row, loaded, target).credit = row.credit
<1>1. /\ target = "approved" => row.status = "wh_approved"
      /\ target = "awaiting_finance" => row.status \in {"wh_approved", "approved"}
  BY OnlyWayIn
<1>2. row.status \in {"rejected", "completed"} => target = "completed"
  BY DEF LegalMove, CanTransition, LegacyReject, Transitions, Statuses
<1> DEFINE new == Transitioned(row, loaded, target)
<1>3. /\ new.status = target /\ new.credit = row.credit
      /\ new.wh = (row.wh \/ target = "wh_approved")
      /\ new.mgr = (row.mgr \/ target = "approved")
      /\ new.rejected = (\/ target = "rejected"
                         \/ row.rejected /\ ~(target \in {"wh_approved", "approved"} /\ row.rejected))
  BY DEF Transitioned, RowType
<1> HIDE DEF new
<1>4. StampsAgree(new)
  BY <1>1, <1>2, <1>3, Zenon DEF StampsAgree
<1> QED BY <1>3, <1>4 DEF new

\* A session that has just loaded its rows is current.
LEMMA PausedIsCurrent ==
    ASSUME TypeOK, UNCHANGED db, NEW w \in Workers, NEW step \in Steps \ {"refund"}, NEW j \in JobType,
           Pause(w, step, j)
    PROVE  Current(w)'
<1>1. pc'[w] = step /\ job'[w] = j /\ seen'[w] = Snapshot(j.rma, step)
  BY PauseFrame
<1>2. Snapshot(j.rma, step)' = Snapshot(j.rma, step)
  BY DEF Snapshot, db
<1>3. Snapshot(job[w].rma, pc[w])' = Snapshot(j.rma, step)
  BY <1>1, <1>2 DEF Snapshot
<1> QED BY <1>1, <1>3 DEF Current

\* So is one that has loaded a return for a transition (transition_return).
LEMMA LoadedIsCurrent ==
    ASSUME TypeOK, NEW w \in Workers, NEW j \in JobType, NEW reason \in BOOLEAN,
           j.then = "refund" => j.target = "approved_refund",
           LoadForTransition(w, j, reason)
    PROVE  Current(w)'
<1>1. UNCHANGED db
  BY DEF LoadForTransition
<1>2. CASE rma[j.rma].status = j.target /\ job' = [job EXCEPT ![w] = j]
           /\ pc' = [pc EXCEPT ![w] = j.then]
  BY <1>1, <1>2 DEF TypeOK, JobType, Current, Reading, db
<1>3. CASE Abandon(w)
  BY <1>3, ProceedFrame DEF Abandon, Current, Reading, Steps
<1>4. CASE Pause(w, "commit", j)
  BY <1>1, <1>4, PausedIsCurrent DEF Steps
<1> QED BY <1>2, <1>3, <1>4 DEF LoadForTransition

\* The first session of a handler, and the read of a later one, write nothing.
LEMMA BeginReads ==
    ASSUME SerialInv, NEW w \in Workers, NEW r \in RMAs, Begin(w, r)
    PROVE  UNCHANGED db /\ Current(w)'
<1> TypeOK
  BY DEF SerialInv, TypeInv
<1>1. UNCHANGED db
  BY DEF Begin, Transition, LoadForTransition, ApproveWarehouse, ApproveManager, UpdateReceiving, IssueLabel,
     ReceiveRma, InspectRma, IssueRefund
<1>2. ASSUME NEW step \in Steps \ {"refund"}, NEW j \in JobType, Pause(w, step, j)
      PROVE  Current(w)'
  BY <1>1, <1>2, PausedIsCurrent
<1>3. ASSUME NEW target \in MoveTargets, NEW reason \in BOOLEAN, Transition(w, r, target, reason)
      PROVE  Current(w)'
  BY <1>3, TaskType, LoadedIsCurrent, FormAssumption DEF Transition
<1>4. CASE ApproveWarehouse(w, r)
  BY <1>2, <1>4, TaskType DEF ApproveWarehouse, Statuses, Steps
<1>5. CASE ApproveManager(w, r)
  BY <1>2, <1>5, TaskType DEF ApproveManager, ManagerStatus, Statuses, Steps
<1>6. ASSUME NEW form \in ReceivingForms, UpdateReceiving(w, r, form) PROVE Current(w)'
  <2>1. [Task(r, Absent) EXCEPT !.form = form] \in JobType
    BY TaskType, FormAssumption DEF JobType
  <2> QED BY <1>2, <1>6, <2>1 DEF UpdateReceiving, Steps
<1>7. CASE IssueLabel(w, r)
  BY <1>2, <1>7, TaskType DEF IssueLabel, Statuses, Steps
<1>8. CASE ReceiveRma(w, r)
  BY <1>8 DEF ReceiveRma, TypeOK, Current, Reading
<1>9. ASSUME NEW d \in Dispositions, InspectRma(w, r, d) PROVE Current(w)'
  BY <1>2, <1>9, TaskType DEF InspectRma, Statuses, Steps, Dispositions
<1>10. CASE IssueRefund(w, r)
  <2>1. [Task(r, "approved_refund") EXCEPT !.then = "refund"].rma = r
    BY TaskType DEF Statuses, JobType
  <2>2. /\ pc'[w] \notin Reading
        /\ pc'[w] = "refund" => rma'[job'[w].rma].status = "approved_refund"
    BY <1>1, <1>10, <2>1 DEF IssueRefund, TypeOK, Reading, db
  <2> QED BY <1>1, <2>2 DEF Current, Reading
<1> QED BY <1>1, <1>3, <1>4, <1>5, <1>6, <1>7, <1>8, <1>9, <1>10 DEF Begin

\* A worker that has closed its session holds nothing that could be stale.
LEMMA ProceedIsCurrent ==
    ASSUME TypeOK, NEW w \in Workers, NEW step \in {"idle", "transition"}, Proceed(w, step)
    PROVE  Current(w)'
BY ProceedFrame DEF Current, Reading, Steps

\* Committing a transition moves the return along the table, or fails (transition_return).
LEMMA SerialCommit ==
    ASSUME SerialInv, NEW w \in Workers, TransitionCommit(w)
    PROVE  Agreed' /\ Current(w)' /\ [Lifecycle!Next]_(Lifecycle!lifecycleVars)
<1> DEFINE r == job[w].rma
           target == job[w].target
           row == Transitioned(rma[r], seen[w].row, target)
<1> TypeInv /\ TypeOK /\ Agreed
  BY DEF SerialInv, TypeInv
<1>1. /\ r \in RMAs /\ Exists(r) /\ rma[r] \in RowType /\ item[r] \in ItemType
      /\ seen[w].row \in RowType /\ job[w].then \in {"idle", "refund"}
  BY WorkerTypes DEF TransitionCommit
<1>2. seen[w].row.status = rma[r].status /\ seen[w].row.rejected = rma[r].rejected
  <2>1. seen[w] = Snapshot(r, "commit")
    BY DEF SerialInv, Current, Reading, TransitionCommit
  <2>2. /\ Snapshot(r, "commit").row.status = rma[r].status
        /\ Snapshot(r, "commit").row.rejected = rma[r].rejected
    BY DEF Snapshot, AbsentRow
  <2> QED BY <2>1, <2>2
<1>3. LegalMove(rma[r].status, target) /\ target \in Statuses
      /\ (job[w].then = "refund" => target = "approved_refund")
  BY <1>2, LegalMoveType DEF TypeInv, HandlerOK, WorkerOK, TransitionCommit
<1>4. CASE Abandon(w) /\ UNCHANGED db
  BY <1>4, NothingWritten, ProceedIsCurrent DEF Abandon
<1>5. CASE /\ rma' = [rma EXCEPT ![r] = row] /\ UNCHANGED <<item, refunds>>
           /\ Proceed(w, job[w].then)
  <2>1. row \in RowType /\ row.status = target
    BY <1>1, <1>3, TransitionedType
  <2>2. StampsAgree(row) /\ row.credit = rma[r].credit
    BY <1>1, <1>2, <1>3, TransitionAgrees DEF Agreed, Agrees
  <2>3. rma[r].status # "completed"
    BY <1>3 DEF LegalMove, CanTransition, LegacyReject, Transitions
  <2> HIDE DEF row
  <2>4. Agrees(row, item[r], refunds[r])
    BY <1>1, <2>1, <2>2, <2>3 DEF Agreed, Agrees, CreditsAgree, PaidOnce, Exists
  <2>5. Moves(rma[r], row, refunds[r], refunds[r])
    BY <1>3, <2>1 DEF Moves
  <2>6. item' = [item EXCEPT ![r] = item[r]] /\ refunds' = [refunds EXCEPT ![r] = refunds[r]]
        /\ refunds[r] \in Nat
    BY <1>1, <1>5, BoundAssumption DEF TypeOK
  <2>7. Agreed' /\ [Lifecycle!Next]_(Lifecycle!lifecycleVars)
    BY <1>1, <1>5, <2>1, <2>4, <2>5, <2>6, ChangeKeeps
  <2>8. Current(w)'
    <3>1. pc'[w] = job[w].then /\ (pc'[w] # "idle" => job'[w] = job[w])
      BY <1>1, <1>5, ProceedFrame DEF Steps
    <3>2. rma'[r].status = target
      BY <1>1, <1>5, <2>1 DEF TypeOK
    <3> QED BY <1>1, <1>3, <3>1, <3>2 DEF Current, Reading
  <2> QED BY <2>7, <2>8
<1> QED BY <1>4, <1>5 DEF TransitionCommit

\* A write that keeps the status, the stamps and the payments, and leaves credits that agree.
LEMMA QuietAgrees ==
    ASSUME TypeOK, Agreed, NEW r \in RMAs, Exists(r), NEW row \in RowType, NEW it \in ItemType,
           rma' = [rma EXCEPT ![r] = row], item' = [item EXCEPT ![r] = it], UNCHANGED refunds,
           row.status = rma[r].status, row.wh = rma[r].wh, row.mgr = rma[r].mgr,
           row.rejected = rma[r].rejected, row.credit = CreditOf(it), it.credit = CreditOf(it)
    PROVE  Agreed' /\ [Lifecycle!Next]_(Lifecycle!lifecycleVars)
<1>1. refunds' = [refunds EXCEPT ![r] = refunds[r]] /\ refunds[r] \in Nat
  BY BoundAssumption DEF TypeOK
<1>2. Agrees(row, it, refunds[r])
  BY DEF Agreed, Agrees, StampsAgree, CreditsAgree, PaidOnce
<1>3. Moves(rma[r], row, refunds[r], refunds[r])
  BY DEF Moves
<1> QED BY <1>1, <1>2, <1>3, ChangeKeeps

\* What a session of these handlers has loaded of the return and its line.
LEMMA LoadedRow ==
    ASSUME SerialInv, NEW w \in Workers, pc[w] \in {"route", "rollup", "receiving"}
    PROVE  /\ seen[w].row.route = rma[job[w].rma].route
           /\ seen[w].row.credit = rma[job[w].rma].credit
           /\ seen[w].item = item[job[w].rma]
<1>1. seen[w] = Snapshot(job[w].rma, pc[w])
  BY DEF SerialInv, Current, Reading
<1> QED BY <1>1 DEF Snapshot, AbsentRow

\* Storing the approval route or the totals keeps the credits in agreement.
LEMMA SerialRoute ==
    ASSUME SerialInv, NEW w \in Workers, StoreRoute(w) \/ StoreRollup(w)
    PROVE  Agreed' /\ Current(w)' /\ [Lifecycle!Next]_(Lifecycle!lifecycleVars)
<1> DEFINE r == job[w].rma
           loaded == seen[w].row
           routed == [loaded EXCEPT !.route = ApprovalTarget(seen[w].item)]
           rolled == [loaded EXCEPT !.credit = CreditOf(seen[w].item)]
<1> TypeInv /\ TypeOK /\ Agreed
  BY DEF SerialInv, TypeInv
<1>1. /\ r \in RMAs /\ Exists(r) /\ rma[r] \in RowType /\ item[r] \in ItemType
      /\ loaded \in RowType /\ seen[w].item \in ItemType /\ pc[w] \in {"route", "rollup"}
  BY WorkerTypes DEF StoreRoute, StoreRollup
<1>2. loaded.route = rma[r].route /\ loaded.credit = rma[r].credit /\ seen[w].item = item[r]
  BY <1>1, LoadedRow
<1>3. rma[r].credit = CreditOf(item[r]) /\ item[r].credit = CreditOf(item[r])
  BY <1>1 DEF Agreed, Agrees, CreditsAgree, Exists
<1>4. PICK new \in {routed, rolled} :
          /\ rma' = [rma EXCEPT ![r] = OrmWrite(rma[r], loaded, new)]
          /\ Proceed(w, "transition") /\ UNCHANGED <<item, refunds>>
  BY DEF StoreRoute, StoreRollup
<1>5. /\ new \in RowType /\ new.status = loaded.status /\ new.wh = loaded.wh /\ new.mgr = loaded.mgr
      /\ new.rejected = loaded.rejected /\ new.credit = rma[r].credit
  <2>1. ApprovalTarget(seen[w].item) \in Routes /\ CreditOf(seen[w].item) \in Nat
    BY <1>1, CreditType DEF ApprovalTarget, Routes
  <2> QED BY <1>1, <1>2, <1>3, <1>4, <2>1 DEF RowType
<1> DEFINE row == OrmWrite(rma[r], loaded, new)
<1> HIDE DEF loaded
<1>7. /\ row \in RowType /\ row.status = rma[r].status /\ row.wh = rma[r].wh /\ row.mgr = rma[r].mgr
      /\ row.rejected = rma[r].rejected /\ row.credit = CreditOf(item[r])
  BY <1>1, <1>2, <1>3, <1>5, CurrentRowWrite
<1>8. rma' = [rma EXCEPT ![r] = row] /\ item' = [item EXCEPT ![r] = item[r]] /\ UNCHANGED refunds
  BY <1>1, <1>4 DEF TypeOK
<1> HIDE DEF row
<1>9. Agreed' /\ [Lifecycle!Next]_(Lifecycle!lifecycleVars)
  BY <1>1, <1>3, <1>7, <1>8, QuietAgrees
<1> QED BY <1>4, <1>9, ProceedIsCurrent

\* Storing a receiving review leaves credits that agree (update_receiving_review).
LEMMA SerialReceiving ==
    ASSUME SerialInv, NEW w \in Workers, StoreReceiving(w)
    PROVE  Agreed' /\ Current(w)' /\ [Lifecycle!Next]_(Lifecycle!lifecycleVars)
<1> DEFINE r == job[w].rma
           loaded == seen[w].row
           newItem == ReceivedItem(seen[w].item, job[w].form)
           newRow == [loaded EXCEPT !.credit = CreditOf(newItem)]
<1> TypeInv /\ TypeOK /\ Agreed
  BY DEF SerialInv, TypeInv
<1>1. /\ r \in RMAs /\ Exists(r) /\ rma[r] \in RowType /\ item[r] \in ItemType /\ loaded \in RowType
      /\ job[w].form \in FormType /\ pc[w] = "receiving"
  BY WorkerTypes DEF StoreReceiving
<1>2. loaded.route = rma[r].route /\ loaded.credit = rma[r].credit /\ seen[w].item = item[r]
  BY <1>1, LoadedRow
<1>3. item[r].credit = CreditOf(item[r])
  BY <1>1 DEF Agreed, Agrees, CreditsAgree, Exists
<1>4. newItem \in ItemType /\ newItem.credit = CreditOf(newItem) /\ CreditOf(newItem) \in Nat
  <2>1. newItem \in ItemType /\ CreditOf(newItem) \in Nat
    BY <1>1, <1>2, ReceivedType, CreditType
  <2>2. newItem.credit = CreditOf(newItem)
    BY <1>1, <1>2, <1>3, SentinelAssumption DEF ReceivedItem, CreditOf, CreditedWeight, ItemType, FormType
  <2> QED BY <2>1, <2>2
<1>5. /\ item' = [item EXCEPT ![r] = OrmWrite(item[r], seen[w].item, newItem)]
      /\ rma' = [rma EXCEPT ![r] = OrmWrite(rma[r], loaded, newRow)]
      /\ Proceed(w, "idle") /\ UNCHANGED refunds
  BY DEF StoreReceiving
<1> HIDE DEF newItem
<1>6. /\ newRow \in RowType /\ newRow.status = loaded.status /\ newRow.wh = loaded.wh
      /\ newRow.mgr = loaded.mgr /\ newRow.rejected = loaded.rejected
      /\ newRow.credit = CreditOf(newItem)
  BY <1>1, <1>2, <1>4 DEF RowType
<1> HIDE DEF newRow
<1> DEFINE row == OrmWrite(rma[r], loaded, newRow)
<1>7. OrmWrite(item[r], seen[w].item, newItem) = newItem
  BY <1>1, <1>2, <1>4, CurrentLineWrite
<1> HIDE DEF loaded
<1>8. /\ row \in RowType /\ row.status = rma[r].status /\ row.wh = rma[r].wh /\ row.mgr = rma[r].mgr
      /\ row.rejected = rma[r].rejected /\ row.credit = CreditOf(newItem)
  BY <1>1, <1>2, <1>6, CurrentRowWrite
<1>10. rma' = [rma EXCEPT ![r] = row] /\ item' = [item EXCEPT ![r] = newItem] /\ UNCHANGED refunds
  BY <1>5, <1>7
<1> HIDE DEF row
<1>9. Agreed' /\ [Lifecycle!Next]_(Lifecycle!lifecycleVars)
  BY <1>1, <1>4, <1>8, <1>10, QuietAgrees
<1> QED BY <1>5, <1>9, ProceedIsCurrent

\* A step that sets a status without a stamp, or a refund with it.
LEMMA StatusAgrees ==
    ASSUME TypeOK, Agreed, NEW r \in RMAs, Exists(r), NEW to \in {"awaiting_return", "inspected", "completed"},
           NEW n \in Nat, rma' = [rma EXCEPT ![r].status = to], UNCHANGED item,
           refunds' = [refunds EXCEPT ![r] = n],
           \/ /\ LegalMove(rma[r].status, to) /\ rma[r].status \notin {"rejected", "completed"}
              /\ n = refunds[r]
           \/ to = "completed" /\ rma[r].status = "approved_refund" /\ refunds[r] = 0 /\ n = 1
    PROVE  Agreed' /\ [Lifecycle!Next]_(Lifecycle!lifecycleVars)
<1> DEFINE row == [rma[r] EXCEPT !.status = to]
<1>1. rma[r] \in RowType /\ item[r] \in ItemType
  BY DEF TypeOK
<1>2. /\ row \in RowType /\ row.status = to /\ row.rejected = rma[r].rejected
      /\ row.credit = rma[r].credit
  BY <1>1 DEF RowType, Statuses
<1>3. rma' = [rma EXCEPT ![r] = row] /\ item' = [item EXCEPT ![r] = item[r]]
  BY <1>1 DEF TypeOK
<1> HIDE DEF row
<1>4. Agrees(row, item[r], n)
  <2>1. Agrees(rma[r], item[r], refunds[r])
    BY DEF Agreed
  <2>2. ~rma[r].rejected
    BY <2>1 DEF Agrees, StampsAgree
  <2>3. StampsAgree(row)
    BY <1>2, <2>2 DEF StampsAgree
  <2> QED BY <1>2, <2>1, <2>3 DEF Agrees, CreditsAgree, PaidOnce, Exists
<1>5. Moves(rma[r], row, refunds[r], n)
  BY <1>2 DEF Moves
<1> QED BY <1>1, <1>2, <1>3, <1>4, <1>5, ChangeKeeps

\* Storing a label or an inspection moves the return along the table, or not at all.
LEMMA SerialLabel ==
    ASSUME SerialInv, NEW w \in Workers, StoreLabel(w) \/ StoreInspection(w)
    PROVE  Agreed' /\ Current(w)' /\ [Lifecycle!Next]_(Lifecycle!lifecycleVars)
<1> DEFINE r == job[w].rma
<1> TypeInv /\ TypeOK /\ Agreed
  BY DEF SerialInv, TypeInv
<1>1. /\ \A from \in {"auto_approved", "needs_review"} : LegalMove(from, "awaiting_return")
      /\ LegalMove("received", "inspected")
  BY DEF LegalMove, CanTransition, Transitions, Statuses
<1>2. r \in RMAs /\ Exists(r) /\ pc[w] \in {"label", "inspect"}
  BY WorkerTypes DEF StoreLabel, StoreInspection
<1>3. seen[w].row.status = rma[r].status
  <2>1. seen[w] = Snapshot(r, pc[w])
    BY <1>2 DEF SerialInv, Current, Reading
  <2> QED BY <1>2, <2>1 DEF Snapshot, Blank, AbsentRow
<1>4. refunds' = refunds /\ item' = item /\ (Proceed(w, "idle") \/ Proceed(w, "transition"))
  BY DEF StoreLabel, StoreInspection
<1>5. CASE rma' = rma /\ trail' = trail
  BY <1>4, <1>5, ProceedIsCurrent DEF Agreed, Lifecycle!lifecycleVars
<1>6. CASE \E to \in {"awaiting_return", "inspected"} :
              /\ rma' = [rma EXCEPT ![r].status = to] /\ LegalMove(rma[r].status, to)
              /\ rma[r].status \in {"auto_approved", "needs_review", "received"}
  <2>1. PICK to \in {"awaiting_return", "inspected"} :
              /\ rma' = [rma EXCEPT ![r].status = to] /\ LegalMove(rma[r].status, to)
              /\ rma[r].status \in {"auto_approved", "needs_review", "received"}
    BY <1>6
  <2>2. refunds' = [refunds EXCEPT ![r] = refunds[r]] /\ refunds[r] \in Nat
    BY <1>2, <1>4, BoundAssumption DEF TypeOK
  <2>3. Agreed' /\ [Lifecycle!Next]_(Lifecycle!lifecycleVars)
    BY <1>2, <1>4, <2>1, <2>2, StatusAgrees
  <2> QED BY <1>4, <2>3, ProceedIsCurrent
<1> QED BY <1>1, <1>3, <1>5, <1>6 DEF StoreLabel, StoreInspection

\* A refund is paid out of "approved_refund", and only once (issue_refund).
LEMMA SerialRefund ==
    ASSUME SerialInv, NEW w \in Workers, StoreRefund(w)
    PROVE  Agreed' /\ Current(w)' /\ [Lifecycle!Next]_(Lifecycle!lifecycleVars)
<1> DEFINE r == job[w].rma
<1> TypeInv /\ TypeOK /\ Agreed
  BY DEF SerialInv, TypeInv
<1>1. r \in RMAs /\ Exists(r)
  BY WorkerTypes DEF StoreRefund
<1>2. rma[r].status = "approved_refund"
  BY DEF SerialInv, Current, StoreRefund
<1>3. refunds[r] = 0
  BY <1>1, <1>2 DEF Agreed, Agrees, PaidOnce
<1>4. /\ rma' = [rma EXCEPT ![r].status = "completed"] /\ UNCHANGED item
      /\ refunds' = [refunds EXCEPT ![r] = 1] /\ Proceed(w, "idle")
  BY <1>3 DEF StoreRefund
<1>5. Agreed' /\ [Lifecycle!Next]_(Lifecycle!lifecycleVars)
  BY <1>1, <1>2, <1>3, <1>4, StatusAgrees
<1> QED BY <1>4, <1>5, ProceedIsCurrent

\* A return that is created agrees, and nobody is at work on it (create_rma).
LEMMA SerialCreate ==
    ASSUME SerialInv, NEW r \in RMAs, NEW sub \in Submissions, CreateRma(r, sub)
    PROVE  /\ Agreed' /\ (\A w \in Workers : Current(w)')
           /\ [Lifecycle!Next]_(Lifecycle!lifecycleVars)
<1> DEFINE s == InitialStatus(FinalV1, sub.mode, sub.evidenceMissing, sub.autoApprovable)
           row == [AbsentRow EXCEPT !.status = s, !.credit = CreditOf(sub.item)]
<1> TypeInv /\ TypeOK /\ Agreed
  BY DEF SerialInv, TypeInv
<1>1. s \in InitialStatuses /\ s \in Statuses
  BY SubmissionAssumption, InitialStatusType, IntakeStatuses DEF SubmissionType
<1>2. sub.item \in ItemType /\ sub.item.credit = CreditOf(sub.item) /\ CreditOf(sub.item) \in Nat
  <2>1. sub.item \in ItemType /\ sub.item.recv = NoWeight /\ sub.item.credit = sub.item.weight
    BY SubmissionAssumption DEF SubmissionType
  <2> QED BY <2>1, CreditType DEF CreditOf, CreditedWeight
<1> HIDE DEF s
<1>3. /\ row \in RowType /\ row.status = s /\ ~row.rejected /\ row.credit = CreditOf(sub.item)
  BY <1>1, <1>2, ConstantTypes DEF RowType, AbsentRow
<1>4. /\ rma' = [rma EXCEPT ![r] = row] /\ item' = [item EXCEPT ![r] = sub.item]
      /\ UNCHANGED <<approvals, refunds, pc, job, seen>> /\ rma[r].status = Absent
  BY DEF CreateRma, local, s, Exists
<1> HIDE DEF row
<1>5. refunds[r] = 0 /\ refunds' = [refunds EXCEPT ![r] = 0]
  BY <1>4 DEF Agreed, Agrees, PaidOnce, Absent, TypeOK
<1>6. Agrees(row, sub.item, 0)
  BY <1>1, <1>2, <1>3 DEF Agrees, StampsAgree, CreditsAgree, PaidOnce, InitialStatuses
<1>7. Moves(rma[r], row, refunds[r], 0)
  BY <1>1, <1>3, <1>4, <1>5 DEF Moves
<1>8. Agreed' /\ [Lifecycle!Next]_(Lifecycle!lifecycleVars)
  <2>1. 0 \in Nat
    OBVIOUS
  <2> QED BY <1>2, <1>3, <1>4, <1>5, <1>6, <1>7, <2>1, ChangeKeeps
<1>9. ASSUME NEW w \in Workers PROVE Current(w)'
  <2>1. CASE pc[w] = "idle"
    BY <1>4, <2>1 DEF Current, Reading
  <2>2. CASE pc[w] # "idle"
    <3>1. job[w].rma \in RMAs \ {r}
      BY <1>4, <2>2, WorkerTypes DEF Exists
    <3>2. /\ rma'[job[w].rma] = rma[job[w].rma] /\ item'[job[w].rma] = item[job[w].rma]
          /\ (job[w].rma \in approvals') = (job[w].rma \in approvals)
      BY <1>4, <3>1 DEF TypeOK
    <3>3. Snapshot(job[w].rma, pc[w])' = Snapshot(job[w].rma, pc[w])
      BY <1>4, <3>2 DEF Snapshot
    <3>4. Current(w)
      BY DEF SerialInv
    <3> QED BY <1>4, <3>2, <3>3, <3>4 DEF Current
  <2> QED BY <2>1, <2>2
<1> QED BY <1>8, <1>9

\* A later session of a handler writes its own return only, from inside a session.
LEMMA WritesItsReturn ==
    ASSUME TypeInv, NEW w \in Workers, Continue(w)
    PROVE  \/ UNCHANGED db
           \/ /\ InSession(w)
              /\ \A x \in RMAs \ {job[w].rma} :
                    rma'[x] = rma[x] /\ item'[x] = item[x] /\ (x \in approvals') = (x \in approvals)
<1> TypeOK
  BY DEF TypeInv
<1>1. CASE LaterTransition(w) \/ Crash(w)
  BY <1>1 DEF LaterTransition, LoadForTransition, Crash
<1>2. CASE TransitionCommit(w)
  BY <1>2 DEF TransitionCommit, InSession, TypeOK
<1>3. CASE StoreRoute(w) \/ StoreRollup(w) \/ StoreReceiving(w)
  BY <1>3 DEF StoreRoute, StoreRollup, StoreReceiving, InSession, TypeOK
<1>4. CASE StoreLabel(w) \/ StoreInspection(w) \/ StoreRefund(w)
  BY <1>4 DEF StoreLabel, StoreInspection, StoreRefund, InSession, TypeOK
<1> QED
  BY <1>1, <1>2, <1>3, <1>4 DEF Continue

\* So what a session of another return has loaded stays current.
LEMMA OthersStayCurrent ==
    ASSUME SessionsApart, SerialInv, NEW w \in Workers, Continue(w) \/ \E r \in RMAs : Begin(w, r),
           NEW v \in Workers \ {w}
    PROVE  Current(v)'
<1>1. TypeInv /\ TypeOK /\ Current(v)
  BY DEF SerialInv, TypeInv
<1>2. pc'[v] = pc[v] /\ job'[v] = job[v] /\ seen'[v] = seen[v]
  BY <1>1, OthersStay
<1>3. CASE UNCHANGED db
  <2>1. Snapshot(job[v].rma, pc[v])' = Snapshot(job[v].rma, pc[v])
    BY <1>2, <1>3 DEF Snapshot, db
  <2> QED
    BY <1>1, <1>2, <1>3, <2>1 DEF Current, db
<1>4. CASE ~InSession(v)
  BY <1>2, <1>4 DEF InSession, Current, Reading
<1>5. CASE /\ InSession(v) /\ InSession(w)
           /\ \A x \in RMAs \ {job[w].rma} :
                 rma'[x] = rma[x] /\ item'[x] = item[x] /\ (x \in approvals') = (x \in approvals)
  <2>1. job[v].rma \in RMAs \ {job[w].rma}
    BY <1>1, <1>5, WorkerTypes DEF InSession, SessionsApart
  <2>2. /\ rma'[job[v].rma] = rma[job[v].rma] /\ item'[job[v].rma] = item[job[v].rma]
        /\ (job[v].rma \in approvals') = (job[v].rma \in approvals)
    BY <1>5, <2>1
  <2>3. Snapshot(job[v].rma, pc[v])' = Snapshot(job[v].rma, pc[v])
    BY <1>2, <2>2 DEF Snapshot
  <2> QED
    BY <1>1, <1>2, <2>2, <2>3 DEF Current
<1> QED
  BY <1>1, <1>3, <1>4, <1>5, WritesItsReturn, BeginWritesNothing

\* Every step, with the sessions of each return apart.
LEMMA SerialStep ==
    ASSUME SessionsApart, SerialInv, [Next]_vars
    PROVE  SerialInv' /\ [Lifecycle!Next]_(Lifecycle!lifecycleVars)
<1> TypeInv /\ TypeOK /\ Agreed
  BY DEF SerialInv, TypeInv
<1>1. CASE UNCHANGED vars
  <2>1. TypeInv' /\ Agreed'
    BY <1>1 DEF vars, db, local, TypeInv, TypeOK, HandlerOK, WorkerOK, Exists, Agreed
  <2>2. ASSUME NEW w \in Workers PROVE Current(w)'
    <3>1. pc'[w] = pc[w] /\ job'[w] = job[w] /\ seen'[w] = seen[w] /\ UNCHANGED db
      BY <1>1 DEF vars, local
    <3>2. Snapshot(job[w].rma, pc[w])' = Snapshot(job[w].rma, pc[w])
      BY <3>1 DEF Snapshot, db
    <3> QED BY <3>1, <3>2 DEF SerialInv, Current, db
  <2> QED BY <1>1, <2>1, <2>2, NothingWritten DEF SerialInv, vars
<1>2. ASSUME NEW r \in RMAs, NEW sub \in Submissions, CreateRma(r, sub)
      PROVE  SerialInv' /\ [Lifecycle!Next]_(Lifecycle!lifecycleVars)
  BY <1>2, SerialCreate, CreateType DEF SerialInv
<1>3. ASSUME NEW w \in Workers, Continue(w) \/ \E r \in RMAs : Begin(w, r),
             TypeInv', Agreed', Current(w)'
      PROVE  SerialInv'
  BY <1>3, OthersStayCurrent DEF SerialInv
<1>4. ASSUME NEW w \in Workers, NEW r \in RMAs, Begin(w, r)
      PROVE  SerialInv' /\ [Lifecycle!Next]_(Lifecycle!lifecycleVars)
  BY <1>3, <1>4, BeginType, BeginReads, NothingWritten
<1>5. ASSUME NEW w \in Workers, Continue(w)
      PROVE  SerialInv' /\ [Lifecycle!Next]_(Lifecycle!lifecycleVars)
  <2>1. TypeInv'
    BY <1>5, ContinueType
  <2>2. CASE LaterTransition(w)
    <3>1. UNCHANGED db /\ job[w] \in JobType /\ job[w].rma \in RMAs
      BY <2>2, WorkerTypes DEF LaterTransition, LoadForTransition
    <3>2. job[w].then = "refund" => job[w].target = "approved_refund"
      BY DEF TypeInv, HandlerOK, WorkerOK
    <3>3. Current(w)'
      BY <2>2, <3>1, <3>2, LoadedIsCurrent DEF LaterTransition
    <3> QED BY <1>3, <1>5, <2>1, <3>1, <3>3, NothingWritten
  <2>3. CASE Crash(w)
    BY <1>3, <1>5, <2>1, <2>3, NothingWritten, ProceedIsCurrent DEF Crash, Abandon
  <2> QED BY <1>3, <1>5, <2>1, <2>2, <2>3, SerialCommit, SerialRoute, SerialReceiving, SerialLabel,
             SerialRefund DEF Continue
<1> QED BY <1>1, <1>2, <1>4, <1>5 DEF Next

LEMMA SerialStart == Init => SerialInv /\ Lifecycle!Init
<1> SUFFICES ASSUME Init PROVE SerialInv /\ Lifecycle!Init
  OBVIOUS
<1>1. TypeInv
  BY ConstantTypes, BoundAssumption, IntakeStatuses
     DEF Init, TypeInv, TypeOK, HandlerOK, WorkerOK, NoJob, Steps
<1>2. Agreed
  BY DEF Init, Agreed, Agrees, StampsAgree, CreditsAgree, PaidOnce, AbsentRow, Absent
<1>3. \A w \in Workers : Current(w)
  BY DEF Init, Current, Reading
<1>4. Lifecycle!Init
  BY DEF Init, Lifecycle!Init, AbsentRow, Lifecycle!Absent, Absent
<1> QED BY <1>1, <1>2, <1>3, <1>4 DEF SerialInv

\* Whoever works alone keeps the sessions of every return apart.
LEMMA AloneIsApart == ASSUME \A v, w \in Workers : v = w PROVE SessionsApart
BY DEF SessionsApart

\* While the sessions of each return are apart, everything agrees.
LEMMA SerialInvariant == Spec /\ []SessionsApart => []SerialInv
<1>1. SessionsApart /\ SerialInv /\ [Next]_vars => SerialInv'
  BY SerialStep
<1> QED
  BY <1>1, SerialStart, PTL DEF Spec

\* With the sessions of each return apart, whatever requests on other returns do and
\* whichever are lost between two sessions, stamps match the status.
THEOREM StampsMatch == Spec /\ []SessionsApart => []StampsMatchStatus
<1>1. SerialInv => StampsMatchStatus
  BY DEF SerialInv, Agreed, Agrees, StampsAgree, StampsMatchStatus
<1> QED BY <1>1, SerialInvariant, PTL

\* With the sessions of each return apart header and line agree on the credit.
THEOREM TotalsAgree == Spec /\ []SessionsApart => []TotalsInSync
<1>1. SerialInv => TotalsInSync
  BY DEF SerialInv, Agreed, Agrees, CreditsAgree, TotalsInSync, Exists
<1> QED BY <1>1, SerialInvariant, PTL

\* With the sessions of each return apart the desk implements the promised lifecycle,
\* one payment for each return included.
THEOREM DeskKeepsItsPromise == Spec /\ []SessionsApart => ImplementsLifecycle
<1>1. SessionsApart /\ SerialInv /\ [Next]_vars => [Lifecycle!Next]_(Lifecycle!lifecycleVars)
  BY SerialStep
<1> QED
  BY <1>1, SerialInvariant, SerialStart, PTL DEF Spec, ImplementsLifecycle, Lifecycle!Spec

\* What a step of the promised lifecycle may do to one return.
LEMMA LifecycleMoves ==
    ASSUME [Lifecycle!Next]_(Lifecycle!lifecycleVars), NEW r \in RMAs
    PROVE  \/ rma[r].status = Absent
           \/ rma'[r].status = rma[r].status /\ refunds'[r] = refunds[r]
           \/ LegalMove(rma[r].status, rma'[r].status) /\ refunds'[r] = refunds[r]
           \/ rma[r].status = "approved_refund" /\ rma'[r].status = "completed"
<1> DEFINE status == [x \in RMAs |-> rma[x].status]
           next == [x \in RMAs |-> rma'[x].status]
<1>1. status[r] = rma[r].status /\ next[r] = rma'[r].status
  OBVIOUS
<1>2. CASE next = status /\ refunds' = refunds
  BY <1>1, <1>2
<1>3. ASSUME NEW x \in RMAs, NEW s, next = [status EXCEPT ![x] = s]
      PROVE  \/ x = r /\ rma'[r].status = s
             \/ x # r /\ rma'[r].status = rma[r].status
  BY <1>1, <1>3
<1>4. CASE \E x \in RMAs : Lifecycle!Open(x)
  BY <1>1, <1>3, <1>4 DEF Lifecycle!Open, Lifecycle!Absent, Absent
<1>5. CASE \E x \in RMAs : Lifecycle!Move(x)
  BY <1>1, <1>3, <1>5, SameMoves DEF Lifecycle!Move
<1>6. CASE \E x \in RMAs : Lifecycle!PayOut(x)
  <2> PICK x \in RMAs : Lifecycle!PayOut(x)
    BY <1>6
  <2>1. x # r => refunds'[r] = refunds[r]
    BY DEF Lifecycle!PayOut
  <2> QED
    BY <1>1, <1>3, <2>1 DEF Lifecycle!PayOut
<1> QED
  BY <1>2, <1>4, <1>5, <1>6 DEF Lifecycle!Next, Lifecycle!lifecycleVars

\* With the sessions of each return apart the runbook's strict enforcement of transitions
\* holds, refunds, overrides and crashes included: only overlapping sessions break it.
THEOREM MovesAreStrict == Spec /\ []SessionsApart => StrictTransitions
<1>1. SessionsApart /\ SerialInv /\ [Next]_vars =>
          \A r \in RMAs :
              \/ rma'[r].status = rma[r].status
              \/ ~Exists(r)
              \/ LegalMove(rma[r].status, rma'[r].status)
  <2>1. LegalMove("approved_refund", "completed")
    BY DEF LegalMove, CanTransition, Transitions, Statuses
  <2> QED
    BY <2>1, SerialStep, LifecycleMoves DEF Exists
<1> QED
  BY <1>1, SerialInvariant, PTL DEF Spec, StrictTransitions

-----------------------------------------------------------------------------
(* A refused return is not paid *)

\* A step that records an event shows its status: the trail and the row are written
\* in one transaction (transition_return, issue_label, inspect_rma, issue_refund).
LEMMA EventsFollowRow ==
    ASSUME TypeInv, [Next]_vars, NEW x \in RMAs
    PROVE  Visited(x)' \subseteq Visited(x) \cup {rma'[x].status}
<1> TypeOK
  BY DEF TypeInv
<1>1. CASE UNCHANGED trail
  BY <1>1 DEF Visited
<1>2. ASSUME NEW r \in RMAs, NEW s, NEW e, e[2] = s, rma'[r].status = s,
             trail' = [trail EXCEPT ![r] = @ \cup {e}]
      PROVE  Visited(x)' \subseteq Visited(x) \cup {rma'[x].status}
  <2>1. trail'[x] \subseteq trail[x] \cup (IF x = r THEN {e} ELSE {})
    BY <1>2 DEF TypeOK
  <2> QED
    BY <1>2, <2>1 DEF Visited
<1>3. ASSUME NEW r \in RMAs, NEW sub \in Submissions, CreateRma(r, sub)
      PROVE  Visited(x)' \subseteq Visited(x) \cup {rma'[x].status}
  <2> DEFINE s == InitialStatus(FinalV1, sub.mode, sub.evidenceMissing, sub.autoApprovable)
             row == [AbsentRow EXCEPT !.status = s, !.credit = CreditOf(sub.item)]
  <2>1. rma'[r] = row /\ row.status = s
    BY <1>3 DEF CreateRma, TypeOK, AbsentRow
  <2>2. /\ trail'[r] \subseteq {<<Absent, s>>, <<"requested", s>>}
        /\ x # r => trail'[x] = trail[x]
    BY <1>3 DEF CreateRma, TypeOK
  <2> HIDE DEF s, row
  <2> QED
    BY <2>1, <2>2 DEF Visited
<1>4. ASSUME NEW w \in Workers, Continue(w)
      PROVE  Visited(x)' \subseteq Visited(x) \cup {rma'[x].status}
  <2> DEFINE r == job[w].rma
  <2>1. CASE UNCHANGED trail
    BY <1>1, <2>1
  <2>2. ASSUME pc[w] # "idle", NEW status, NEW from, rma' = [rma EXCEPT ![r].status = status],
               trail' = [trail EXCEPT ![r] = @ \cup {<<from, status>>}]
        PROVE  Visited(x)' \subseteq Visited(x) \cup {rma'[x].status}
    <3>1. r \in RMAs /\ rma[r] \in RowType
      BY <2>2, WorkerTypes
    <3>2. rma'[r].status = status /\ <<from, status>>[2] = status
      BY <2>2, <3>1 DEF TypeOK, RowType
    <3> HIDE DEF r
    <3> QED
      BY <1>2, <2>2, <3>1, <3>2
  <2>3. CASE TransitionCommit(w)
    <3> DEFINE row == Transitioned(rma[r], seen[w].row, job[w].target)
    <3>1. /\ r \in RMAs /\ rma[r] \in RowType /\ seen[w].row \in RowType
          /\ job[w].target \in Statuses
      BY <2>3, WorkerTypes, LegalMoveType DEF TransitionCommit, TypeInv, HandlerOK, WorkerOK
    <3>2. row.status = job[w].target
      BY <3>1, TransitionedType
    <3>3. CASE UNCHANGED trail
      BY <1>1, <3>3
    <3>4. CASE /\ rma' = [rma EXCEPT ![r] = row]
               /\ trail' = [trail EXCEPT ![r] = @ \cup {<<seen[w].row.status, job[w].target>>}]
      <4>1. rma'[r].status = job[w].target
        BY <3>1, <3>2, <3>4 DEF TypeOK
      <4>2. <<seen[w].row.status, job[w].target>>[2] = job[w].target
        OBVIOUS
      <4> HIDE DEF r
      <4> QED
        BY <1>2, <3>1, <3>4, <4>1, <4>2
    <3> QED
      BY <2>3, <3>3, <3>4 DEF TransitionCommit, db
  <2>4. CASE StoreLabel(w) \/ StoreInspection(w) \/ StoreRefund(w)
    BY <2>1, <2>2, <2>4 DEF StoreLabel, StoreInspection, StoreRefund
  <2> QED
    BY <1>4, <2>1, <2>3, <2>4 DEF Continue, LaterTransition, LoadForTransition, StoreRoute, StoreRollup,
       StoreReceiving, Crash, db
<1> QED
  BY <1>1, <1>3, <1>4, BeginWritesNothing DEF Next, vars, db

\* A return that was denied or rejected stays so until it is closed, unpaid.
Refused(r) == Visited(r) \cap {"denied", "rejected"} # {}
RefusedIsFinal ==
    \A r \in RMAs : Refused(r) => /\ rma[r].status \in {"denied", "rejected", "completed"}
                                  /\ refunds[r] = 0

\* No step refuses a return that is paid, or pays one that was refused.
LEMMA RefusalStep ==
    ASSUME SessionsApart, SerialInv, RefusedIsFinal, [Next]_vars
    PROVE  RefusedIsFinal'
<1> SUFFICES ASSUME NEW r \in RMAs, Refused(r)'
             PROVE  /\ rma'[r].status \in {"denied", "rejected", "completed"}
                    /\ refunds'[r] = 0
  BY DEF RefusedIsFinal
<1>1. TypeInv /\ Agreed /\ Agreed'
  BY SerialStep DEF SerialInv
<1>2. Visited(r)' \subseteq Visited(r) \cup {rma'[r].status}
  BY <1>1, EventsFollowRow
<1>3. CASE rma'[r].status \in {"denied", "rejected"}
  BY <1>1, <1>3 DEF Agreed, Agrees, PaidOnce
<1>4. CASE Refused(r) /\ rma'[r].status \notin {"denied", "rejected"}
  <2>1. rma[r].status \in {"denied", "rejected", "completed"} /\ refunds[r] = 0
    BY <1>4 DEF RefusedIsFinal
  <2>2. LegalMove(rma[r].status, rma'[r].status) => rma'[r].status = "completed"
    BY <2>1 DEF LegalMove, CanTransition, Transitions, LegacyReject, Statuses
  <2>3. rma[r].status # Absent
    BY <2>1 DEF Absent
  <2> QED
    BY <1>4, <2>1, <2>2, <2>3, SerialStep, LifecycleMoves
<1> QED
  BY <1>2, <1>3, <1>4 DEF Refused

\* With the sessions of each return apart no return is paid twice, and none that was ever
\* denied or rejected is paid at all (issue_refund's own test is of the status it read).
RefusedIsUnpaid == \A r \in RMAs : refunds[r] > 0 => refunds[r] = 1 /\ ~Refused(r)
THEOREM RefusedStaysUnpaid == Spec /\ []SessionsApart => []RefusedIsUnpaid
<1>1. Init => RefusedIsFinal
  BY DEF Init, RefusedIsFinal, Refused, Visited
<1>2. SessionsApart /\ SerialInv /\ RefusedIsFinal /\ [Next]_vars => RefusedIsFinal'
  BY RefusalStep
<1>3. SerialInv /\ RefusedIsFinal => RefusedIsUnpaid
  BY DEF SerialInv, Agreed, Agrees, PaidOnce, RefusedIsFinal, RefusedIsUnpaid
<1> QED
  BY <1>1, <1>2, <1>3, SerialInvariant, PTL DEF Spec
=============================================================================
