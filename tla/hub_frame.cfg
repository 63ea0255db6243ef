SPECIFICATION Spec
CONSTANTS
    Clients = {c1}
    Publishers = {p1}
    BroadcastCap = 1
    SendCap = 2
    MaxChanges = 2
    BuildFaults = FALSE
    SocketFaults = FALSE
    None = None
INVARIANT ShowsLast
CHECK_DEADLOCK FALSE
