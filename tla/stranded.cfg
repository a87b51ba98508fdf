SPECIFICATION Spec
CONSTANTS
    Jobs = {j1}
    Delays <- SomeDelays
    Word = 8
    PurgeTimeouts <- SomeTimeouts
    Fallback = 3
    Intervals = {1}
    Fuzzes = {0}
    LookAheads = {5}
    Restart = 1
    MaxLag = 1
    MaxTime = 12
    MaxDrops = 1
    MaxChanges = 0
    None = None
\* The clock stops at MaxTime.
CHECK_DEADLOCK FALSE
INVARIANTS
    NothingStranded
