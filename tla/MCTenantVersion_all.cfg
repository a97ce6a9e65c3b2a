SPECIFICATION Spec
CONSTANTS
    Requests = {r1, r2, r3}
    Ops = {"v1role", "v1customize", "v2write", "v2customize", "optin", "setin", "setout", "deletegroup", "lazy"}
    Seeded = TRUE
    MaxRetries = 1
    NoGroup = NoGroup
    OldGroup = OldGroup
SYMMETRY MCSymmetry
INVARIANTS OptedInHasBindings PlatformAccessOrCustomGroup LockedWritersExclude
PROPERTIES NoV1WriteAfterActivation
CHECK_DEADLOCK FALSE
