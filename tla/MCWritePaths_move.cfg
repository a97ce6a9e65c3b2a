SPECIFICATION Spec
CONSTANTS
    Parts = {"system"}
    Mixes <- RaceMixes
    NewScopes = {1, 3}
    LateReferences = FALSE
CHECK_DEADLOCK FALSE
INVARIANT HoldersArePlaced
