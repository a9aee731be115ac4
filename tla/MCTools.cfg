SPECIFICATION ToolsSpec
CONSTANTS
    MaxU64 = 20
    MaxRegister = 3
    Bits = 2
    LogSize = 3
    Users <- MCUsers
    Aliases <- MCAliases
    Sessions <- MCSessions
    Programs <- MCPrograms
    MaxRegisters = 4
    MaxMethods = 2
    Part = 3
    Marks = 10
    Steady = 2
    Threshold = 2
    Answers <- MCAnswers
    Contents <- MCContents
    FirmwareWrites <- MCFirmwareWrites
    Base <- MCBase
INVARIANTS
    RestoresOrReports
    ProbesTheRanges
    EvaluatesTheReadings
    SamplesAreOfOneMoment
    ReportsAreEvaluable
    AcceptedConfigsWork
    ConversionsAgree
    RatingsAreSound
    SettingsAreKept
PROPERTIES
    ProgramsEnd
CHECK_DEADLOCK FALSE
