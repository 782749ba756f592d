CONSTANTS
    Requests = {r1, r2}
    Emails = {}
    FirstEmail = first
    NoEmail = none
    MaxAttempts = 1
    MaxSends = 2
    MaxChallenges = 1
SPECIFICATION Spec
SYMMETRY Symmetry
INVARIANTS
    OldCodeIsDead
CHECK_DEADLOCK FALSE
