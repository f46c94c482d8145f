\* Two callback workers, three claims, one cancellation, one identity report.
CONSTANTS
    Workers = {w1, w2}
    MaxAttempts = 3
    Submitters = {m1}
    Cancellers = {c1}
SPECIFICATION Spec
INVARIANTS
    OneEnding
    RunTellsAttempt
    DeliveredIsKnown
    AnswersAreTrue
PROPERTIES
    EndStays
    ImplementsRunContract
    CallbackSettles
\* A run that has ended needs nothing more.
CHECK_DEADLOCK FALSE
