SPECIFICATION FairSpec
CONSTANTS
    Jobs = {j1}
    Workers = {w1, w2}
    Schedulers = {s1, s2}
    JobOptions <- Reruns
    PurgeJobs = TRUE
    Circular = TRUE
    LongOutages = TRUE
    MaxLate = 1
    NoJob = NoJob
    NoItem = NoItem
    NoOptions = NoOptions
\* The supply of jobs is finite: once all are purged nothing is left to do.
CHECK_DEADLOCK FALSE
INVARIANTS
    TypeOK
    RunsBounded
    OutcomeAgrees
PROPERTIES
    EveryJobFinishes
    FinishedJobIsPurged
