-------------------------- MODULE MCReturnsWorkflow --------------------------
(* Small instances of ReturnsWorkflow for TLC. *)
EXTENDS ReturnsWorkflow, TLC

Draft(returning, pack, followUp, weight) ==
    [returning |-> returning, pack |-> pack, followUp |-> followUp,
     weight |-> weight, recv |-> NoWeight, credit |-> weight]
Form(pack, followUp, recv) ==
    [lines |-> TRUE, pack |-> pack, followUp |-> followUp, recv |-> recv]
Submit(it, mode, evidenceMissing, autoApprovable) ==
    [item |-> it, mode |-> mode, evidenceMissing |-> evidenceMissing,
     autoApprovable |-> autoApprovable]

\* Every intake status; a line below and one above the routing threshold of 2.
SerialSubmissions ==
    { Submit(Draft(TRUE, FALSE, "Credit", 1), "policy", TRUE, FALSE),
      Submit(Draft(TRUE, TRUE, "Credit", 3), "policy", FALSE, TRUE),
      Submit(Draft(TRUE, TRUE, "Credit", 3), "policy", FALSE, FALSE),
      Submit(Draft(FALSE, TRUE, "Credit", 1), "legacy", FALSE, FALSE),
      Submit(Draft(TRUE, TRUE, "Credit", 1), "legacy", FALSE, FALSE) }
SerialForms == {NoForm, Form(TRUE, "Credit", NoWeight), Form(TRUE, "Credit", 3)}

\* One line that is ready for every approval of the desk.
Ready == Draft(TRUE, TRUE, "Credit", 1)
DeskSubmissions == {Submit(Ready, "legacy", FALSE, FALSE)}
NoForms == {}
NoTargets == {}
DeskTargets == {"received", "rejected", "approved"}
WorkerSymmetry == Permutations(Workers)
=============================================================================
