--------------------------- MODULE MCReturnsWebhook ---------------------------
(* The returns desk and its webhook together, for TLC. *)
EXTENDS ReturnsWebhook, TLC

\* One line that is ready for every approval of the desk.
Ready == [returning |-> TRUE, pack |-> TRUE, followUp |-> "Credit",
          weight |-> 1, recv |-> NoWeight, credit |-> 1]
DeskSubmissions ==
    {[item |-> Ready, mode |-> "legacy", evidenceMissing |-> FALSE, autoApprovable |-> FALSE]}
NoForms == {}
DeskTargets == {"received", "rejected", "approved"}
CarrierAsks == [rma: RMAs, target: {"received", Absent}]
WorkerSymmetry == Permutations(Workers)
=============================================================================
