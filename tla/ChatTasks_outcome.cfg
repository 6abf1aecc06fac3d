\* Asks are cancelled or overtaken by their deadline. Deadlock is not checked: the server may have closed.
SPECIFICATION Spec
CONSTANTS
    MaxKeys = 2
    Capacity = 2
    Slots = 1
    MaxTasks = 2
CHECK_DEADLOCK FALSE
INVARIANTS
    ResultOrError
