SPECIFICATION BackgroundSpec
CONSTANTS
    e1 = e1  j1 = j1  l1 = l1
    NoProc = NoProc  NoDay = NoDay
    Ids <- OneLine
    LastDay = 2
    MonthDays = 2
    HotDays = 1
    BackfillDays = 3
    MaxScanPks = 2
    MaxEdits = 0
    MaxCrashes = 1
    EtlProcs <- OneLoop
    JobProcs <- OneJob
    u1 = u1  k1 = k1  k2 = k2  w1 = w1  w2 = w2
    NoJob = NoJob  Never = Never
    Users <- OneUser
    RequestKeys <- TwoKeys
    Workers <- TwoWorkers
    MaxPerMinute = 2
    MaxActive = 2
    Minute = 2
    DedupeTTL = 2
    JobTTL = 2
    FileTTL = 2
    JobCap = 2
    FileCap = 2
    MaxJobs = 3
    MaxOthers = 1
    MaxClock = 2
CHECK_DEADLOCK FALSE
INVARIANTS RateIsBounded ActiveIsBounded RetriesShareAJob TwinIsDownloadable
PROPERTIES RefreshComesBack JobsGoForward EveryJobEnds
