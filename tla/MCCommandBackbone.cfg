\* Three entries of two commands, two faults, leases that are respected.
CONSTANTS
    a = a
    b = b
    Commands = {a, b}
    Stream <- RepeatedCommand
    Workers = {w1, w2}
    Nobody = Nobody
    MaxAttempts = 3
    MaxFaults = 2
    LeaseOutlived = FALSE
SPECIFICATION Safety
SYMMETRY WorkerSymmetry
INVARIANTS
    OneConsumer
    OneAnswer
\* A finite stream: once it is worked off there is nothing left to do.
CHECK_DEADLOCK FALSE
