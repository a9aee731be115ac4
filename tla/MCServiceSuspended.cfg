SPECIFICATION Spec
CONSTANTS
    NumFans = 1
    Config <- MCConfig
    Legacy = FALSE
    NumRwcs = 1
    OnSuspend <- MCNoEntry
    OnResume <- MCNoEntry
    ResetRequired = {1}
    Options = {FALSE}
    Temperatures <- MCTwoTemperatures
    Requests <- MCOneRequest
    FirmwareSpeeds <- MCOneFirmwareSpeed
    MaxFailures = 2
    MaxTries = 1
    Deviation = 15
INVARIANTS
    SuspendedAsPromised
