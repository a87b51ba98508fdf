SPECIFICATION Spec
CONSTANTS
    Jobs = {j1}
    Workers = {w1}
    Schedulers = {s1}
    JobOptions <- OneRetried
    PurgeJobs = TRUE
    Circular = FALSE
    LongOutages = FALSE
    MaxLate = 0
    NoJob = NoJob
    NoItem = NoItem
    NoOptions = NoOptions
\* The supply of jobs is finite: once all are purged nothing is left to do.
CHECK_DEADLOCK FALSE
INVARIANT
    RetryTimesRespected
