CONSTANTS
    a1 = a1
    a2 = a2
    x = x
    y = y
    NoConfig = NoConfig
    None = None
    Appliers <- MCAppliers
    Configs <- MCConfigs
    MaxFaults = 1
SPECIFICATION FairSpec
INVARIANTS
    TypeOK
    NoWriteWhileRunning
PROPERTIES
    RestartRunsApplied
    PauseEnds
    CommandEnds
