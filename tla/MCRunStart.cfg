\* Two connects and two processes, a publication, a cancellation.
CONSTANTS
    Processes = {p1, p2}
    Revisions = {r1, r2}
    Commands = {c1, c2}
    Nobody = Nobody
    Cancellers = {k}
SPECIFICATION Spec
SYMMETRY ProcessSymmetry
INVARIANTS
    AnnouncedOnce
    LeaseHeld
    ConnectedToAttempt
    CancellationReaches
\* A run that has ended needs nothing more.
CHECK_DEADLOCK FALSE
