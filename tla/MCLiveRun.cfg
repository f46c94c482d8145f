CONSTANTS
    Suites <- MCSuites
    MaxPolls = 2
SPECIFICATION Spec
INVARIANTS
    PassIsWhole
    BetterNeverHurts
    FaultsInReach
    StreamIsCurrent
    ShownScoreIsTrue
    ViewerFollows
PROPERTIES
    OnlyOvertakenGoesBack
    ConnectedSeesEnd
CHECK_DEADLOCK FALSE
