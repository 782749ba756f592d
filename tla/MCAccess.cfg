CONSTANTS
    Requests = {r1, r2}
    MaxAttempts = 2
    MaxResets = 2
    Logins = {l1, l2, l3}
    MaxFailed = 3
    LockTime = 2
    MaxTime = 4
    MaxPasswords = 2
    Ids = {b1, b2}
    OtherIds = {f1}
    Own = {k1, k2}
    Other = {o1, o2}
    Months = {m1}
    DetailIds = {d1, d2}
    MaxAmount = 1
    MaxFields = 1
    None = None
SPECIFICATION AccessSpec
SYMMETRY Symmetry
INVARIANTS
    ComparisonsBounded
    ChangesPasswordOnce
    ChangeClosesEarlierResets
    LoginInv
    BudgetsAddUp
PROPERTIES
    ImplementsCode
    LocksLast
    BudgetsStayWithTheirUser
CHECK_DEADLOCK FALSE
