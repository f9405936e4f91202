------------------------------ MODULE RmaStatus ------------------------------
(***************************************************************************)
(* The statuses of a return (RMA) and the moves app/returns/service.py     *)
(* allows between them.  Constant-level: every returns module shares it.   *)
(***************************************************************************)

\* A row that create_rma has not inserted yet.
Absent == "absent"

Statuses ==
    { "requested", "awaiting_evidence", "auto_approved", "needs_review",
      "awaiting_return", "in_transit", "received", "inspected",
      "approved_refund", "denied", "completed", "pending", "wh_approved",
      "approved", "rejected", "awaiting_ops", "pickup_scheduled",
      "picked_up", "awaiting_finance" }

\* TRANSITIONS: the statuses a status may be left for.
Transitions ==
    [ requested         |-> {"awaiting_evidence", "auto_approved", "needs_review"},
      awaiting_evidence |-> {"auto_approved", "needs_review"},
      auto_approved     |-> {"awaiting_return", "denied"},
      needs_review      |-> {"awaiting_return", "denied", "auto_approved"},
      awaiting_return   |-> {"in_transit", "received", "denied"},
      in_transit        |-> {"received"},
      received          |-> {"inspected"},
      inspected         |-> {"approved_refund", "denied", "completed"},
      approved_refund   |-> {"completed"},
      denied            |-> {"completed"},
      completed         |-> {},
      pending           |-> {"wh_approved", "rejected", "awaiting_ops"},
      awaiting_ops      |-> {"pickup_scheduled", "rejected", "wh_approved", "received"},
      pickup_scheduled  |-> {"picked_up", "rejected", "received"},
      picked_up         |-> {"received", "rejected", "wh_approved"},
      wh_approved       |-> {"approved", "rejected", "awaiting_finance"},
      approved          |-> {"awaiting_return", "in_transit", "received",
                             "completed", "awaiting_finance"},
      awaiting_finance  |-> {"completed", "rejected"},
      rejected          |-> {"completed"} ]

CanTransition(from, to) == from \in Statuses /\ to \in Transitions[from]

\* transition_return also lets a reviewer reject out of the policy queue,
\* an edge the table does not list.
LegacyReject(from, to) ==
    /\ to = "rejected"
    /\ from \in {"requested", "needs_review", "auto_approved", "awaiting_evidence"}

LegalMove(from, to) == CanTransition(from, to) \/ LegacyReject(from, to)

\* The status create_rma gives a row outside the hardened and the legacy modes.
PolicyStatus(evidenceMissing, autoApprovable) ==
    IF evidenceMissing THEN "awaiting_evidence"
    ELSE IF autoApprovable THEN "auto_approved" ELSE "needs_review"

\* The status a new row starts in: RETURNS_FINAL_V1 overrides the mode asked for.
InitialStatus(finalV1, mode, evidenceMissing, autoApprovable) ==
    CASE finalV1                      -> "awaiting_ops"
      [] ~finalV1 /\ mode = "legacy"  -> "pending"
      [] OTHER                        -> PolicyStatus(evidenceMissing, autoApprovable)

InitialStatuses == {"awaiting_ops", "pending", "awaiting_evidence",
                    "auto_approved", "needs_review"}
=============================================================================
