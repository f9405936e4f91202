-------------------------- MODULE CorrectiveActions --------------------------
(***************************************************************************)
(* Corrective actions of the returns desk, app/returns/service.py: their   *)
(* lifecycle, the outcome measured when one is resolved, and their events. *)
(*                                                                         *)
(* A request reads the action, checks the move, measures the outcome of a  *)
(* resolution with queries that may take seconds, and only then writes:    *)
(* the columns that differ from what it read, each by itself.              *)
(***************************************************************************)
EXTENDS Integers, Sequences

CONSTANTS
    Clerks,         \* requests at work at a time
    Actions,        \* ids of return_corrective_actions
    Columns,        \* the columns an outcome is stored in
    Amounts, NoValue,
    Outcomes,       \* what may be measured: an amount, or nothing, for each column
    MaxEvents       \* bound on an action's events

ColumnValues == Amounts \cup {NoValue}
NoOutcome == [x \in Columns |-> NoValue]

ASSUME OutcomeAssumption == Outcomes \subseteq [Columns -> ColumnValues]
ASSUME EventBound == MaxEvents \in Nat

CorrectiveStatuses == {"open", "in_progress", "pending_approval", "approved", "resolved", "cancelled"}
CorrectiveMoves ==
    {<<"open", "in_progress">>, <<"open", "cancelled">>,
     <<"in_progress", "pending_approval">>, <<"in_progress", "cancelled">>,
     <<"pending_approval", "approved">>, <<"pending_approval", "in_progress">>,
     <<"pending_approval", "cancelled">>,
     <<"approved", "resolved">>, <<"approved", "in_progress">>}

VARIABLES
    action,     \* return_corrective_actions; status "none" before the insert
    events,     \* return_corrective_action_events: <<from, to>>
    measured,   \* outcomes in the payloads of the events that resolve
    clerk       \* what each request has read and is about to write

actionTables == <<action, events, measured>>
actionVars == <<actionTables, clerk>>

NoAction == [status |-> "none", approvedAt |-> FALSE, outcome |-> NoOutcome, resolvedAt |-> FALSE]
Away == [does |-> "nothing"]
AtWork(c, step) == clerk[c].does = step
Steps(c, work) == clerk' = [clerk EXCEPT ![c] = work]

-----------------------------------------------------------------------------
\* create_corrective_action: the baseline is measured before, in a session of its own.
CreateAction(a) ==
    /\ action[a] = NoAction
    /\ action' = [action EXCEPT ![a].status = "open"]
    /\ events' = [events EXCEPT ![a] = << <<"none", "open">> >>]
    /\ UNCHANGED <<measured, clerk>>

(* transition_corrective_action *)

ReadAction(c, a, to) ==
    /\ clerk[c] = Away /\ Len(events[a]) < MaxEvents
    /\ <<action[a].status, to>> \in CorrectiveMoves
    /\ Steps(c, [does |-> IF to = "resolved" THEN "measure" ELSE "write",
                 action |-> a, seen |-> action[a], to |-> to, outcome |-> NoOutcome])
    /\ UNCHANGED actionTables

MeasureNothing(c, o) ==                                               \* mutant
    /\ AtWork(c, "measure")
    /\ Steps(c, [clerk[c] EXCEPT !.does = "write"])
    /\ UNCHANGED actionTables
Measure(c, o) ==
    /\ AtWork(c, "measure")
    /\ Steps(c, [clerk[c] EXCEPT !.does = "write", !.outcome = o])
    /\ UNCHANGED actionTables

\* A column is in the UPDATE if its new value is not the one that was read.
UpdatedOutcome(stored, seen, o) == [x \in Columns |-> IF o[x] = seen[x] THEN stored[x] ELSE o[x]]

UpdatedAtAnyMove(row, seen, to, o) ==                                 \* mutant
    [row EXCEPT !.status = to, !.approvedAt = @ \/ to = "approved",
                !.outcome = UpdatedOutcome(@, seen.outcome, o),
                !.resolvedAt = @ \/ to = "resolved"]
\* The row is attached again after the measurement and still holds what was read.
UpdatedAction(row, seen, to, o) ==
    [row EXCEPT !.status = to, !.approvedAt = @ \/ to = "approved",
                !.outcome = IF to = "resolved" THEN UpdatedOutcome(@, seen.outcome, o) ELSE @,
                !.resolvedAt = @ \/ to = "resolved"]

WriteActionAfterReread(c) ==                                          \* mutant
    LET a == clerk[c].action  to == clerk[c].to IN
    /\ AtWork(c, "write")
    /\ action' = [action EXCEPT ![a] = UpdatedAction(@, clerk[c].seen, to, clerk[c].outcome)]
    /\ events' = [events EXCEPT ![a] = Append(@, <<action[a].status, to>>)]
    /\ measured' = IF to = "resolved" THEN [measured EXCEPT ![a] = Append(@, clerk[c].outcome)] ELSE measured
    /\ Steps(c, Away)
WriteAction(c) ==
    LET a == clerk[c].action  seen == clerk[c].seen  to == clerk[c].to IN
    /\ AtWork(c, "write")
    /\ action' = [action EXCEPT ![a] = UpdatedAction(@, seen, to, clerk[c].outcome)]
    /\ events' = [events EXCEPT ![a] = Append(@, <<seen.status, to>>)]
    /\ measured' = IF to = "resolved" THEN [measured EXCEPT ![a] = Append(@, clerk[c].outcome)] ELSE measured
    /\ Steps(c, Away)

\* The outcome window or the measurement is refused, or the worker is killed.
LeaveAction(c) ==
    /\ clerk[c] # Away
    /\ Steps(c, Away)
    /\ UNCHANGED actionTables

-----------------------------------------------------------------------------
ActionInit ==
    /\ action = [a \in Actions |-> NoAction]
    /\ events = [a \in Actions |-> <<>>] /\ measured = [a \in Actions |-> <<>>]
    /\ clerk = [c \in Clerks |-> Away]

ActionNext ==
    \/ \E a \in Actions : CreateAction(a)
    \/ \E c \in Clerks :
        \/ \E a \in Actions, to \in CorrectiveStatuses : ReadAction(c, a, to)
        \/ \E o \in Outcomes : Measure(c, o)
        \/ WriteAction(c) \/ LeaveAction(c)

ActionSpec == ActionInit /\ [][ActionNext]_actionVars

-----------------------------------------------------------------------------
(* Properties *)

ActionRow == [status: CorrectiveStatuses, approvedAt: BOOLEAN,
              outcome: [Columns -> ColumnValues], resolvedAt: BOOLEAN]
ClerkWork == [does: {"nothing"}]
             \cup [does: {"measure"}, action: Actions, seen: ActionRow, to: {"resolved"}, outcome: {NoOutcome}]
             \cup [does: {"write"}, action: Actions, seen: ActionRow, to: {"resolved"}, outcome: Outcomes]
             \cup [does: {"write"}, action: Actions, seen: ActionRow,
                   to: CorrectiveStatuses \ {"resolved"}, outcome: {NoOutcome}]

ActionTypeOK ==
    /\ action \in [Actions -> ActionRow \cup {NoAction}]
    /\ events \in [Actions -> Seq((CorrectiveStatuses \cup {"none"}) \X CorrectiveStatuses)]
    /\ measured \in [Actions -> Seq(Outcomes)]
    /\ clerk \in [Clerks -> ClerkWork]

\* The actions' events are an AuditTrail, through races and slow measurements
\* ("auditable response", "immutable audit trail", app/returns/models.py).
ActionTrail == INSTANCE AuditTrail WITH
    Records <- Actions, Starts <- {"open"}, Moves <- CorrectiveMoves,
    status <- [a \in Actions |-> action[a].status], trail <- events
ImplementsActionTrail == ActionTrail!Spec

\* A resolved action was approved before.  Its row shows in every column what one of its
\* resolutions measured, though the measurement lies between the check and the write;
\* with one resolution that is its measurement, and only with two, from a status both
\* had read, a mixture nobody measured.  Before a resolution there is no outcome.
ResolvedIsMeasured ==
    \A a \in Actions :
        /\ action[a].status = "resolved" => action[a].approvedAt /\ action[a].resolvedAt
        /\ ~action[a].resolvedAt => action[a].outcome = NoOutcome
        /\ action[a].resolvedAt => \A x \in Columns :
               \E n \in DOMAIN measured[a] : measured[a][n][x] = action[a].outcome[x]
        /\ Len(measured[a]) = 1 => action[a].outcome = measured[a][1]
=============================================================================
