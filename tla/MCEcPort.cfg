SPECIFICATION Spec
CONSTANTS
    MaxRegister = 2
    MaxRetries = 2
    FailuresBeforeSkip = 1
    Calls <- MCCalls
    Contents <- MCContents
    None = None
INVARIANTS
    ReadsAreRight
PROPERTIES
    CallsReturn
    ImplementsRegisterFile
