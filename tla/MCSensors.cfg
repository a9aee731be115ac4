CONSTANTS
    NumFans = 2
    PollInterval = 2
    Timespan = 3
    SleepTime = 3
    MaxSources = 2
    Temperatures = {0, 60}
    CPUNames = {"coretemp", "k10temp", "zenpower"}
    GPUNames = {"amdgpu", "nvidia", "nvidia-ml", "nouveau", "radeon"}
    UserFiles = {"/file", "$cmd"}
    Commands <- MCCommands
    Chips <- MCChips
    Devices <- MCDevices
    Configs <- MCConfigs
SPECIFICATION Spec
CHECK_DEADLOCK FALSE
INVARIANTS
    SourcesFollowTheConfig NvidiaIsOpenWhenAsked
    TemperaturesAreSound
PROPERTY StartIsDecided
