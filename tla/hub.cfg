SPECIFICATION FairSpec
CONSTANTS
    Clients = {c1}
    Publishers = {p1, p2}
    BroadcastCap = 1
    SendCap = 1
    MaxChanges = 3
    BuildFaults = TRUE
    SocketFaults = TRUE
    None = None
INVARIANTS TypeOK MapMeansOpen NewestGiven
PROPERTIES ImplementsFeed PublishersGoOn DeadLeave
CHECK_DEADLOCK FALSE
