SPECIFICATION Spec
CONSTANTS
    MaxCrashes = 2
    MaxDamage = 2
    Owners = {"a", "r"}
    Revoked = {"r"}
    Static = {"a"}
    Legacies <- MCLegacies
INVARIANTS
    TypeOK
    InitializedWhole
    RefusalsExplained
    MigratedWhole
    FinishedWorkKept
    
    ImportedFaithfully
    RepairConverges
    RepairErrorsExplained
    RepairResumable
    VouchedGenuine
PROPERTIES
    ServesComplete
CHECK_DEADLOCK FALSE
