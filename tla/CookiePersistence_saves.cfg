\* Two clients of one profile, the second reminting. Deadlock is not checked:
\* both may have closed for good.
SPECIFICATION Spec
CONSTANTS
    k1 = k1
    k2 = k2
    p1 = p1
    p2 = p2
    Clients = {k1, k2}
    Reminting = {k2}
    Cookies = {a}
    Absent = absent
    Nobody = nobody
    Sites <- PassingSites
    MaxFresh = 2
CHECK_DEADLOCK FALSE
PROPERTIES
    SavesAreAtomic
    NoUnseenOverwrite
    NewestObservationStays
    OwnRotationStored
