CONSTANTS
    f1 = f1
    f2 = f2
    c1 = c1
    c2 = c2
    None = None
    NoIP = NoIP
    ToLower <- Lowered
    Addresses <- OneAddress
    Fingerprints = {f1}
    Candidates = {c1}
    IPs = {NoIP}
    Codes = {k1}
    Handlers = {h1}
    Asked <- OneBallot
    MaxOTPAttempts = 2
    MaxVotesPerIP = 1
    AttemptsCap = 3
    Faults = FALSE
SPECIFICATION Spec
PROPERTY NoVoteLost
