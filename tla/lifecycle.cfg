SPECIFICATION Spec
CONSTANTS
    Jobs = {j1, j2}
    Workers = {w1, w2}
    Schedulers = {s1, s2}
    JobOptions <- PlainAndDelayed
    PurgeJobs = TRUE
    Circular = TRUE
    LongOutages = FALSE
    MaxLate = 0
    NoJob = NoJob
    NoItem = NoItem
    NoOptions = NoOptions
SYMMETRY Symmetric
\* The supply of jobs is finite: once all are purged nothing is left to do.
CHECK_DEADLOCK FALSE
INVARIANTS
    OnePlace
    PlaceMatchesState
    IndexAgrees
    TimeIndexAgrees
    NoStaleState
    NothingLost
PROPERTIES
    ImplementsContract
