SPECIFICATION Spec
CONSTANTS
    Parts = {"bindings", "listing", "guests", "system", "custom", "members", "tree", "scopes"}
    Mixes <- CalmMixes
    NewScopes = {3}
    LateReferences = FALSE
CHECK_DEADLOCK FALSE
INVARIANTS
  RelationsMatchRows ListingsAgree
  TuplesFollowMappings HoldersArePlaced
  TuplesGrantV1Access RowsAndTuplesAgree BoundWorkspacesStand
  
   MirrorsFollowTree
  
