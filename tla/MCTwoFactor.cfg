CONSTANTS
    Requests = {r1, r2, r3}
    Emails = {e1, e2}
    FirstEmail = first
    NoEmail = none
    MaxAttempts = 2
    MaxSends = 2
    MaxChallenges = 2
SPECIFICATION ScopedSpec
SYMMETRY Symmetry
INVARIANTS
    EmailIsConfirmed
    DisableClosesChallenges
    ComparisonsBounded
    SendsBounded
    ConsumedOnce
PROPERTIES
    ImplementsCode
CHECK_DEADLOCK FALSE
