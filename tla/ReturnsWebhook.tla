---------------------------- MODULE ReturnsWebhook ----------------------------
(***************************************************************************)
(* The carrier's webhook in front of the returns desk (process_webhook in  *)
(* app/returns/service.py).  A delivery is filed under its idempotency key *)
(* in one session, moves its return by the desk's own transition in others,*)
(* and its outcome is stored in a last one.  The workers of the desk run   *)
(* it, beside and between the desk's handlers.                             *)
(***************************************************************************)
EXTENDS ReturnsWorkflow

CONSTANTS
    Events,     \* the idempotency keys a carrier sends, each as often as it likes
    Asks,       \* what a payload may ask for: a return and a status
    NoEvent     \* the event of a worker that runs no webhook

\* Event types the code does not know move nothing: their target is Absent.
ASSUME CarrierAssumption ==
    /\ Asks \subseteq [rma: RMAs, target: {"in_transit", "received", Absent}]
    /\ \A ask \in Asks : ask.target # Absent => ask.target \in MoveTargets
    /\ NoEvent \notin Events

VARIABLES
    inbox,      \* each event's row in return_webhook_events: its payload and status
    hand        \* the event each worker runs, and what it will store of it

inboxVars == <<inbox, hand>>
webVars == <<vars, inboxVars>>

NoAsk == [rma |-> NoRMA, target |-> Absent]
NoRow == [ask |-> NoAsk, status |-> "none"]
Empty == [event |-> NoEvent, status |-> "none"]
Handles(w) == hand[w].event # NoEvent
AsksFor(w) == inbox[hand[w].event].ask

PostRefusedAgain(w, e, ask) ==                                     \* mutant
    /\ pc[w] = "idle" /\ ~Handles(w)
    /\ inbox[e].status \in {"none", "pending", "error"}
    /\ inbox' = [inbox EXCEPT ![e] = [ask |-> ask, status |-> "pending"]]
    /\ hand' = [hand EXCEPT ![w] = [event |-> e, status |-> "pending"]]
    /\ UNCHANGED vars
\* A delivery is filed as pending.  The unique index on the key settles two that
\* come at once; every later one finds the row and is answered with its status,
\* which changes nothing.
Post(w, e, ask) ==
    /\ pc[w] = "idle" /\ ~Handles(w)
    /\ inbox[e].status = "none"
    /\ inbox' = [inbox EXCEPT ![e] = [ask |-> ask, status |-> "pending"]]
    /\ hand' = [hand EXCEPT ![w] = [event |-> e, status |-> "pending"]]
    /\ UNCHANGED vars

\* The worker knows what it will store.
Decide(w, status) == hand' = [hand EXCEPT ![w].status = status] /\ UNCHANGED inbox

ApplyUnheard(w) ==                                                    \* mutant
    /\ Handles(w) /\ pc[w] = "idle" /\ hand[w].status = "pending"
    /\ LET ask == AsksFor(w)
       IN \/ ask.target = Absent /\ Decide(w, "processed") /\ UNCHANGED vars
          \/ ask.target # Absent /\ ~Exists(ask.rma) /\ Decide(w, "error") /\ UNCHANGED vars
          \/ ask.target # Absent /\ Transition(w, ask.rma, ask.target, FALSE) /\ Decide(w, "processed")
\* transition_rma's first session: it refuses, finds nothing to do, or goes on to commit.
Apply(w) ==
    /\ Handles(w) /\ pc[w] = "idle" /\ hand[w].status = "pending"
    /\ LET ask == AsksFor(w)
       IN \/ ask.target = Absent /\ Decide(w, "processed") /\ UNCHANGED vars
          \/ ask.target # Absent /\ ~Exists(ask.rma) /\ Decide(w, "error") /\ UNCHANGED vars
          \/ /\ ask.target # Absent
             /\ Transition(w, ask.rma, ask.target, FALSE)
             /\ Decide(w, IF rma[ask.rma].status = ask.target \/ pc'[w] = "commit"
                          THEN "processed" ELSE "error")

\* Its second session moves the return.
Commit(w) == Handles(w) /\ TransitionCommit(w) /\ UNCHANGED inboxVars

\* Any exception of the transition, raised before, in or after its sessions, is
\* caught and becomes the event's outcome.
Catch(w) ==
    /\ Handles(w) /\ hand[w].status # "error"
    /\ Decide(w, "error")
    /\ IF pc[w] = "idle" THEN UNCHANGED vars ELSE Crash(w)

\* The outcome is stored in a session of its own.
StoreOutcome(w) ==
    /\ Handles(w) /\ pc[w] = "idle" /\ hand[w].status # "pending"
    /\ inbox' = [inbox EXCEPT ![hand[w].event].status = hand[w].status]
    /\ hand' = [hand EXCEPT ![w] = Empty]
    /\ UNCHANGED vars

\* The worker is killed: the event stays pending, and no redelivery takes it up.
Die(w) ==
    /\ Handles(w)
    /\ hand' = [hand EXCEPT ![w] = Empty]
    /\ IF pc[w] = "idle" THEN UNCHANGED vars ELSE Crash(w)
    /\ UNCHANGED inbox

\* The desk's own handlers.
Desk ==
    /\ \/ \E r \in RMAs, sub \in Submissions : CreateRma(r, sub)
       \/ \E w \in Workers : ~Handles(w) /\ (Continue(w) \/ \E r \in RMAs : Begin(w, r))
    /\ UNCHANGED inboxVars

WebInit ==
    /\ Init
    /\ inbox = [e \in Events |-> NoRow]
    /\ hand = [w \in Workers |-> Empty]

Webhook(w) ==
    \/ \E e \in Events, ask \in Asks : Post(w, e, ask)
    \/ Apply(w) \/ Commit(w) \/ Catch(w) \/ StoreOutcome(w) \/ Die(w)

WebNext == Desk \/ \E w \in Workers : Webhook(w)

WebSpec == WebInit /\ [][WebNext]_webVars

-----------------------------------------------------------------------------
(* Properties *)

RowStatuses == {"none", "pending", "processed", "error"}

\* Every row of the inbox and every worker's event has its type.
WebTypeOK ==
    /\ inbox \in [Events -> [ask: Asks \cup {NoAsk}, status: RowStatuses]]
    /\ hand \in [Workers -> [event: Events \cup {NoEvent}, status: RowStatuses]]

\* An event stored as processed did move its return, or found it moved: the trail
\* has the status it asked for, whatever the desk has made of the return since and
\* whichever session of the webhook failed (process_webhook).
ProcessedIsApplied ==
    \A e \in Events : inbox[e].status = "processed" /\ inbox[e].ask.target # Absent =>
        inbox[e].ask.target \in Visited(inbox[e].ask.rma)

\* However often and at however many workers a carrier delivers an event, one worker
\* runs it, and only while its row is pending: no retry, redelivery or restart takes
\* up an event whose outcome is stored, or one that another worker lost.
RunOnce ==
    \A w \in Workers : Handles(w) =>
        /\ inbox[hand[w].event].status = "pending"
        /\ \A v \in Workers \ {w} : hand[v].event # hand[w].event
=============================================================================
