SPECIFICATION Spec
CONSTANTS
    Parts = {"bootstrap", "seeding", "caches", "wait", "recovery", "repair", "mcp", "access", "parity"}
CHECK_DEADLOCK FALSE
INVARIANTS
  TenantsStand
  SeededRolesAgree SeedingConverges
  BoundedStaleness 
  CreatedIsListed
  
  NothingNeededRemoved 
  
   
  ParityReported
