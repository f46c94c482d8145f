\* Two sessions, two workers racing; the promise and its liveness as well.
CONSTANTS
    N = 2
    Required = {1}
    Workers = {w1, w2}
SPECIFICATION Spec
INVARIANTS
    TypeOK
    OneActiveSession
    SuiteOrder
    OneStory
    AcceptedPlansAreCurrent
    FirstWinnerAnswers
PROPERTIES
    Settled
    ImplementsContract
    EverySessionCloses
