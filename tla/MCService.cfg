SPECIFICATION Spec
CONSTANTS
    NumFans = 2
    Config <- MCConfig
    Legacy = FALSE
    NumRwcs = 1
    OnSuspend <- MCOwnRegister
    OnResume <- MCFirstEntry
    ResetRequired = {1}
    Options = {FALSE}
    Temperatures <- MCTemperatures
    Requests <- MCRequests
    FirmwareSpeeds <- MCOneFirmwareSpeed
    MaxFailures = 2
    MaxTries = 2
    Deviation = 15
INVARIANTS
    LevelMatchesTemperature
    FansAreReset
    KeepsOrders
PROPERTIES
    RoundActuatesEveryFan
    CriticalHolds
    SuspendIsQuiet
