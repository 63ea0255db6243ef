CONSTANTS
    f1 = f1
    f2 = f2
    c1 = c1
    c2 = c2
    None = None
    NoIP = NoIP
    ToLower <- Lowered
    Addresses <- OneAddress
    Fingerprints = {f1}
    Candidates = {c1}
    IPs = {i1}
    Codes = {k1, k2}
    Handlers = {h1, h2}
    Asked <- OneBallot
    MaxOTPAttempts = 2
    MaxVotesPerIP = 1
    AttemptsCap = 4
    Faults = FALSE
SPECIFICATION FairSpec
PROPERTY AcceptedCodeCounts
INVARIANTS CounterBounded CounterHasTTL
