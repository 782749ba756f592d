CONSTANTS
    Requests = {r1}
    MaxFailed = 2
    LockTime = 1
    MaxTime = 3
    MaxPasswords = 2
SPECIFICATION Spec
PROPERTIES
    ResetEndsLock
CHECK_DEADLOCK FALSE
