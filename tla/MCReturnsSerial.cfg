CONSTANTS
    Workers = {w1}
    RMAs = {r1}
    FinalV1 = FALSE
    Submissions <- SerialSubmissions
    ReceivingForms <- SerialForms
    MoveTargets <- Statuses
    KyleThreshold = 2
    NoWeight = NoWeight
    NoRMA = NoRMA
    MaxRefunds = 2
SPECIFICATION Spec
INVARIANTS StampsMatchStatus TotalsInSync
PROPERTY ImplementsLifecycle
