CONSTANTS
    Requests = {r1, r2}
    MaxSessions = 1
    MaxPasswords = 2
    MaxVersion = 1
SPECIFICATION Spec
PROPERTIES
    PasswordStaysChanged
CHECK_DEADLOCK FALSE
