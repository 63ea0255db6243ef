SPECIFICATION FairSpec
CONSTANTS
    Slots = {s1, s2}
    MaxVisits = 2
    Faults = TRUE
    OtherTabs = TRUE
    None = None
INVARIANTS TypeOK PageMatchesCookie
PROPERTIES WaitsEnd
CHECK_DEADLOCK FALSE
