SPECIFICATION Spec
CONSTANTS
    Parts = {"custom"}
    Mixes <- CalmMixes
    NewScopes = {3}
    LateReferences = TRUE
CHECK_DEADLOCK FALSE
INVARIANT BoundWorkspacesStand
