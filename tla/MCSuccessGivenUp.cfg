\* A Redis call that fails after the handler returned.
CONSTANTS
    a = a
    b = b
    Commands = {a, b}
    Stream <- SameCommand
    Workers = {w1}
    Nobody = Nobody
    MaxAttempts = 3
    MaxFaults = 1
    LeaseOutlived = FALSE
SPECIFICATION Safety
INVARIANT GivenUpAfterFailures
\* A finite stream: once it is worked off there is nothing left to do.
CHECK_DEADLOCK FALSE
