SPECIFICATION Spec
CONSTANTS
    Tasks = {1, 2}
    MaxRetry = 1
    MailFaults = FALSE
    MaxRestarts = 0
    Tabs = {t1}
    Candidates = {a, b}
    Slots = {s1, s2}
    CallFaults = TRUE
    None = None
SYMMETRY Symmetry
INVARIANTS TypeOK CaptchaUsedOnce ToldTruth
PROPERTIES VoteAsMailed
CHECK_DEADLOCK FALSE
