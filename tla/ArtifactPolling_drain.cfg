\* A waiter and a task that closes. Deadlock is not checked: all tasks may have
\* ended.
SPECIFICATION FairSpec
CONSTANTS
    Waiters = {w1, w2}
    Keys = {k1}
    MaxPolls = 1
CHECK_DEADLOCK FALSE
PROPERTIES
    DrainAwaitsBookkeeping
