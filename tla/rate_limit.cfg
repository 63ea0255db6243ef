SPECIFICATION FairSpec
CONSTANTS
    IPs = {i1}
    Handlers = {h1, h2, h3}
    MaxReqs = 2
    MaxWindows = 2
    None = None
INVARIANTS TypeOK WindowLimit
PROPERTY WindowEnds
CHECK_DEADLOCK FALSE
