CONSTANTS
    Debts = {}
    NoDebt = NoDebt
    Requests = {}
    NoRequest = NoRequest
    MaxTotal = 1
    MaxPayments = 0
    Jobs = {j1}
SPECIFICATION ProgressSpec
INVARIANT
    AmountIsRegistered
CHECK_DEADLOCK FALSE
