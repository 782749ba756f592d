CONSTANTS
    Requests = {r1}
    MaxSessions = 1
    MaxPasswords = 1
    MaxVersion = 1
SPECIFICATION Spec
INVARIANTS
    TwoFactorChangeClosesSessions
CHECK_DEADLOCK FALSE
