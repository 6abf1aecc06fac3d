\* Three asks for up to three questions, one slot, two retained entries.
\* Deadlock is not checked: the server may have closed.
SPECIFICATION FairSpec
CONSTANTS
    MaxKeys = 3
    Capacity = 2
    Slots = 1
    MaxTasks = 3
CHECK_DEADLOCK FALSE
INVARIANTS
    ClaimExact
    NothingOutlivesClose
PROPERTIES
    CancelledIsReported
    AnswersKept
    EveryAskEnds
