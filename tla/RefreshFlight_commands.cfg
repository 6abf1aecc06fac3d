\* Two event loops in one process, a third in another; two calls.
\* Deadlock is not checked: all calls may have ended.
SPECIFICATION FairSpec
CONSTANTS
    c1 = c1
    c2 = c2
    c3 = c3
    p1 = p1
    p2 = p2
    Callers = {c1, c2, c3}
    Processes = {p1, p2}
    Home <- TwoAndOne
    MaxFollow = 2
    MaxCalls = 2
CHECK_DEADLOCK FALSE
INVARIANTS
    TypeOK
    LiveIsRegistered
    ReloadIsFresh
PROPERTIES
    NoRedundantCommand
    CancelSettles
    CallsEnd
