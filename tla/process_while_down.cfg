SPECIFICATION Spec
CONSTANTS
    m1 = m1
    m2 = m2
    Managers = {m1, m2}
    Workers = {a}
    ManagerOf <- AllOfFirst
    OddReturns = FALSE
    MaxCount = 3
\* The model follows MaxCount fetches per worker, and a process may end.
CHECK_DEADLOCK FALSE
INVARIANT
    ManagerWakesUp
