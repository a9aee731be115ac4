SPECIFICATION Spec
CONSTANTS
    EcPollInterval = 8
    IntMax = 15
    Steps <- MCSteps
    MaxSettings = 2
INVARIANTS
    InTime
    QuitInTime
PROPERTIES
    RoundsAreSpaced
CHECK_DEADLOCK FALSE
