SPECIFICATION Spec
CONSTANTS
    f1 = f1
    f2 = f2
    c1 = c1
    c2 = c2
    None = None
    NoIP = NoIP
    ToLower <- Lowered
    Addresses <- AllAddresses
    Fingerprints = {f1, f2}
    Candidates = {c1, c2}
    IPs = {NoIP}
    Codes = {k1}
    Handlers = {h1, h2}
    Asked <- CrossBallots
    MaxOTPAttempts = 2
    MaxVotesPerIP = 1
    AttemptsCap = 3
    Faults = TRUE
SYMMETRY HandlerSymmetry
INVARIANTS TypeOK OneVotePerVoter OneVotePerMailbox VotesBacked AckedOrWithdrawn
PROPERTY ImplementsElection
