SPECIFICATION Spec
CONSTANTS
    Configs <- MCConfigs
    Temperatures <- MCTemperatures
PROPERTIES
    NeverHunts
    LoopsComputeSelects
