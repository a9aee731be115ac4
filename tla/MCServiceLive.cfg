SPECIFICATION Spec
CONSTANTS
    NumFans = 2
    Config <- MCConfig
    Legacy = FALSE
    NumRwcs = 1
    OnSuspend <- MCFirstEntry
    OnResume <- MCFirstEntry
    ResetRequired = {1}
    Options = {FALSE, TRUE}
    Temperatures <- MCTwoTemperatures
    Requests <- MCOneRequest
    FirmwareSpeeds <- MCFirmwareSpeeds
    MaxFailures = 2
    MaxTries = 1
    Deviation = 15
PROPERTIES
    RegulatesOrLeaves
    QuitLeaves
    TakesControlBack
    ReadOnlyIsQuiet
