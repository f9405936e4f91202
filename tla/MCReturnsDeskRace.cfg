CONSTANTS
    Workers = {w1, w2}
    RMAs = {r1}
    FinalV1 = TRUE
    Submissions <- DeskSubmissions
    ReceivingForms <- NoForms
    MoveTargets <- DeskTargets
    KyleThreshold = 2
    NoWeight = NoWeight
    NoRMA = NoRMA
    MaxRefunds = 2
    Events = {e1}
    Asks <- CarrierAsks
    NoEvent = NoEvent
SPECIFICATION WebSpec
SYMMETRY WorkerSymmetry
INVARIANTS AuditedHistory RefundAfterInspection TwoStepApproval ProcessedIsApplied RunOnce
