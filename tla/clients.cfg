CONSTANTS
    id1 = id1
    id2 = id2
    caller1 = caller1
    caller2 = caller2
    Ids <- MCIds
    Callers <- MCCallers
    Names <- MCNames
    Configs <- MCConfigs
    Initial <- Wide
    Asked <- MCAsked
    MaxIssues = 2
    MaxNetworks <- MCMaxNetworks
    MaxOps <- MCMaxOps
    MaxFaults = 1
    MaxEdits = 1
SPECIFICATION Spec
INVARIANTS
    TypeOK
    ClientsLoadable
    AddressesDisjoint
    PlanIsAccepted
    FilesMatchDatabase
    RevokedStayOut
    OneApplyPerRevision
PROPERTIES
    
    RemapPreserves
    PutsReplaceWhatTheySaw
SYMMETRY Symmetry
CHECK_DEADLOCK FALSE
