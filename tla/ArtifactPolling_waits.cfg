\* Two tasks wait for one artifact through three polls, are cancelled anywhere,
\* and the client closes. Deadlock is not checked: all tasks may have ended.
SPECIFICATION FairSpec
CONSTANTS
    Waiters = {w1, w2}
    Keys = {k1}
    MaxPolls = 3
CHECK_DEADLOCK FALSE
INVARIANTS
    Registered
    AttachedPollSurvives
    NothingPollsAfterClose
PROPERTIES
    Answered
