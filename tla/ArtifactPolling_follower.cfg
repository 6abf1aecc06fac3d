\* A leader and a follower. Deadlock is not checked: all tasks may have ended.
SPECIFICATION Spec
CONSTANTS
    Waiters = {w1, w2}
    Keys = {k1}
    MaxPolls = 2
CHECK_DEADLOCK FALSE
SYMMETRY WaiterSymmetry
INVARIANTS
    FollowersSurvive
