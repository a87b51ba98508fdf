SPECIFICATION Spec
CONSTANTS
    Jobs = {j1}
    Delays <- SomeDelays
    Word = 8
    PurgeTimeouts <- SomeTimeouts
    Fallback = 3
    Intervals = {1, 2}
    Fuzzes = {0}
    LookAheads = {6, 13}
    Restart = 1
    MaxLag = 1
    MaxTime = 10
    MaxDrops = 1
    MaxChanges = 2
    None = None
\* The clock stops at MaxTime.
CHECK_DEADLOCK FALSE
INVARIANTS
    TypeOK
    LoopLives
    OneLoop
    OnTime
PROPERTIES
    NeverEarly
