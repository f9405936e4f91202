---------------------------- MODULE RmaLifecycle ----------------------------
(***************************************************************************)
(* What the returns desk promises about one return: it opens in an intake  *)
(* status, then moves only along the audited table, is paid at most once,  *)
(* only out of "approved_refund", and never leaves "completed".            *)
(* app/returns/service.py is shown to implement it in ReturnsWorkflow.     *)
(***************************************************************************)
EXTENDS RmaStatus, Naturals

CONSTANT RMAs

VARIABLES
    status,   \* [RMAs -> Statuses \cup {Absent}]
    paid      \* [RMAs -> Nat], refunds issued

lifecycleVars == <<status, paid>>

Init == /\ status = [r \in RMAs |-> Absent]
        /\ paid = [r \in RMAs |-> 0]

Open(r) == /\ status[r] = Absent
           /\ \E s \in InitialStatuses : status' = [status EXCEPT ![r] = s]
           /\ UNCHANGED paid

Move(r) == /\ \E s \in Statuses : /\ LegalMove(status[r], s)
                                  /\ status' = [status EXCEPT ![r] = s]
           /\ UNCHANGED paid

PayOut(r) == /\ status[r] = "approved_refund"
             /\ paid[r] = 0
             /\ status' = [status EXCEPT ![r] = "completed"]
             /\ paid' = [paid EXCEPT ![r] = 1]

Next == \E r \in RMAs : Open(r) \/ Move(r) \/ PayOut(r)

Spec == Init /\ [][Next]_lifecycleVars
=============================================================================
