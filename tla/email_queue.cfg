SPECIFICATION QueueSpec
CONSTANTS
    Tasks = {1, 2}
    MaxRetry = 3
    MailFaults = TRUE
    MaxRestarts = 1
INVARIANTS QueueTypeOK MailsBounded EndsAccounted
PROPERTIES TasksEnd
CHECK_DEADLOCK FALSE
