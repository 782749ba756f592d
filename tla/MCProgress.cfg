CONSTANTS
    Debts = {d1}
    NoDebt = NoDebt
    Requests = {r1, r2}
    NoRequest = NoRequest
    MaxTotal = 2
    MaxPayments = 2
    Jobs = {j1, j2}
SPECIFICATION ProgressSpec
INVARIANTS
    BalanceMatchesPayments
    StatusMatchesBalance
    LockedRowIsCurrent
    OnlyStopsLeaveJobs
PROPERTIES
    ImplementsLedger
    RequestsEnd
    JobsEnd
CHECK_DEADLOCK FALSE
