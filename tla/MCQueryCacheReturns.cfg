SPECIFICATION FairSpec
CONSTANTS
    t1 = t1  t2 = t2  t3 = t3  q1 = q1
    NoThread = NoThread  NoVersion = NoVersion
    Queries <- OneQuery
    Threads <- TwoThreads
    MaxVersion = 0
CHECK_DEADLOCK FALSE
PROPERTIES EveryQueryReturns
