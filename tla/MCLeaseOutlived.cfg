\* Two workers at once: one runs on after its lease has expired.
CONSTANTS
    a = a
    b = b
    Commands = {a, b}
    Stream <- SameCommand
    Workers = {w1, w2}
    Nobody = Nobody
    MaxAttempts = 2
    MaxFaults = 2
    LeaseOutlived = TRUE
SPECIFICATION Spec
INVARIANTS
    NothingLost
    GivenUpAfterAttempts
PROPERTY EveryCommandSettles
\* A finite stream: once it is worked off there is nothing left to do.
CHECK_DEADLOCK FALSE
