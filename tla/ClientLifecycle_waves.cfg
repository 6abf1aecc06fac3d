\* Two tasks open, drain, close and work; two transports; one reopening.
SPECIFICATION FairSpec
CONSTANTS
    Tasks = {t1, t2}
    Tokens = {k1}
    Transports = 2
    MaxEpoch = 2
INVARIANTS
    Agreement
    CloseNeverReopens
    OutcomesTrue
PROPERTIES
    ReleaseIsFenced
    CallsEnd
