SPECIFICATION Spec
CONSTANTS
    t1 = t1  t2 = t2  t3 = t3  q1 = q1
    NoThread = NoThread  NoVersion = NoVersion
    Queries <- OneQuery
    Threads <- ThreeThreads
    MaxVersion = 1
CHECK_DEADLOCK FALSE
SYMMETRY Alike
INVARIANT RowsAreCurrent
