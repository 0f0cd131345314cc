SPECIFICATION FairSpec
CONSTANTS
    Cap = 2
    Threads = {t1, t2, t3}
    Values = {v1, v2}
    Throwing = {"LK"}
INVARIANTS
    TypeOK
    Exclusion
    LiveCells
PROPERTIES
    ImplementsFifo
    SomeCallReturns
