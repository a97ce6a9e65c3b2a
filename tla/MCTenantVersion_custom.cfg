SPECIFICATION Spec
CONSTANTS
    Requests = {r1, r2}
    Ops = {"optin", "v1customize"}
    Seeded = TRUE
    MaxRetries = 1
    NoGroup = NoGroup
    OldGroup = OldGroup
INVARIANT CustomGroupReplacesUserBindings
CHECK_DEADLOCK FALSE
