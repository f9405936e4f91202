SPECIFICATION FairSpec
CONSTANTS
    t1 = t1  t2 = t2  t3 = t3  k1 = k1  k2 = k2
    NoThread = NoThread  NoValue = NoValue
    Threads <- ThreeThreads
    Keys <- TwoKeys
    Ttl <- Lifetimes
    MaxSize = 1
    MaxTime = 2
INVARIANTS OneBuilderPerKey AnswersAreFresh
PROPERTIES EveryRequestReturns
