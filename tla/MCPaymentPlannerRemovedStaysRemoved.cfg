CONSTANTS
    Debts = {d1}
    NoDebt = NoDebt
    Requests = {r1, r2}
    NoRequest = NoRequest
    MaxTotal = 2
    MaxPayments = 2
SPECIFICATION Spec
INVARIANTS
    RemovedStaysRemoved
CHECK_DEADLOCK FALSE
