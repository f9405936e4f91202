------------------------------ MODULE AuditTrail ------------------------------
(***************************************************************************)
(* What the event tables beside a governed record promise, whichever       *)
(* requests race: the record's status is the one its newest event says,    *)
(* and every event is a move the lifecycle has, from a status the record   *)
(* has had before.  That it still had it when it was moved, no read and    *)
(* later write can promise.                                                *)
(***************************************************************************)
EXTENDS Naturals, Sequences

CONSTANTS Records, Starts, Moves

VARIABLES status, trail

Had(r) == {trail[r][n][2] : n \in DOMAIN trail[r]}

Init == /\ status = [r \in Records |-> "none"]
        /\ trail = [r \in Records |-> <<>>]

Logged(r, from, to) ==
    /\ status' = [status EXCEPT ![r] = to]
    /\ trail' = [trail EXCEPT ![r] = Append(@, <<from, to>>)]

Create(r) == status[r] = "none" /\ \E to \in Starts : Logged(r, "none", to)

Move(r) == \E m \in Moves : m[1] \in Had(r) /\ Logged(r, m[1], m[2])

Next == \E r \in Records : Create(r) \/ Move(r)

Spec == Init /\ [][Next]_<<status, trail>>
=============================================================================
