SPECIFICATION FairSpec
CONSTANTS
    Requests = {r1, r2, r3}
    Ops = {"v1customize", "v2write", "optin", "deletegroup"}
    Seeded = FALSE
    MaxRetries = 1
    NoGroup = NoGroup
    OldGroup = OldGroup
PROPERTIES EveryRequestEnds
CHECK_DEADLOCK FALSE
