SPECIFICATION FairSpec
CONSTANTS
    j1 = j1
    x = x
    Jobs = {j1}
    Others = {x}
    MaxRuns = 2
    MaxForeign = 2
\* Jobs come to an end, and everybody may be done.
CHECK_DEADLOCK FALSE
INVARIANTS
    TypeOK
    VerdictIsTrue
    HotjobCleansUp
    CreateComesFirst
PROPERTIES
    ReportsAreReliable
    HotjobSettles
