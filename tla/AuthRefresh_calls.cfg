\* Two tasks make two calls over two generations, one retry of each sort and one rung.
\* The client may stay closed for good: deadlock is not checked.
CONSTANTS
    c1 = c1
    c2 = c2
    Callers <- TwoCallers
    Kinds = {"read", "mutation", "chat", "refresh", "headless"}
    MaxCalls = 2
    MaxEpoch = 2
    MaxRate = 0
    MaxServer = 1
    MaxRungs = 1
CHECK_DEADLOCK FALSE
SPECIFICATION FairSpec
INVARIANTS
    OneSharedRefresh
    AwaitsLiveRefresh
    RetryIsFresh
    LegsShareOneCall
    NotReplayed
PROPERTIES
    RetiredPublishesNothing
    CallsEnd
