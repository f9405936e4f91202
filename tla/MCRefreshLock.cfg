SPECIFICATION Spec
CONSTANTS
    e1 = e1  e2 = e2  j1 = j1  j2 = j2  l1 = l1  l2 = l2
    NoProc = NoProc  NoDay = NoDay
    Ids <- TwoLines
    LastDay = 2
    MonthDays = 2
    HotDays = 1
    BackfillDays = 3
    MaxScanPks = 2
    MaxEdits = 2
    MaxCrashes = 1
    EtlProcs <- Nobody
    JobProcs <- TwoJobs
CHECK_DEADLOCK FALSE
INVARIANTS OneRefreshAtATime
