SPECIFICATION Spec
CONSTANTS
    MaxCrashes = 2
    MaxDamage = 2
    Owners = {"a", "r"}
    Revoked = {"r"}
    Static = {"a"}
    Legacies <- MCLegacies
INVARIANT
    AppliesAtomically
CHECK_DEADLOCK FALSE
