\* Two replicas, two edits, one request to finish (which may be sent again).
CONSTANTS
    Replicas = {p1, p2}
    Edits = {e1, e2}
    Finishes = {f1}
    MaxBusy = 2
    MaxLate = 1
    None = None
SPECIFICATION Spec
SYMMETRY Interchangeable
INVARIANTS
    SequentialEditsKept
    AnswersAgree
PROPERTIES
    FrozenAtEnd
    CancelledIsRefused
\* A session that is over needs nothing more.
CHECK_DEADLOCK FALSE
