CONSTANTS
    Templates = {t1}
    Requests = {r1}
    Job = job
    Interval = 1
    LastDay = 2
    MaxReminders = 2
    FirstYear = 2027
    Years = 2
    t1 = p1
    t2 = p2
    a1 = a1
    a2 = a2
    a3 = a3
    c1 = c1
    c2 = c2
    c3 = c3
    Ids = {p1, p2}
    Amount <- MCAmount
    Dates <- MCDates
    Samples <- MCSamples
    Instants <- MCInstants
    Debit = {a1, a2}
    Credit = {a3}
    Balance <- MCBalance
    Categories = {c1, c2, c3}
    Parent <- MCParent
    None = None
    Unread = Unread
    Old = Old
    SeriesLength = 2
    TopLimit = 1
    DaysOfMonth = {1, 15, 31}
    Intervals = {0, 3}
    MaxUses = 5
    Askers = {r1, r2}
    Times = {8750, 8763, 8764, 8765, 9508}
    Costs = {1, 2}
    DailyUsd = 2
    MonthlyUsd = 5
    PerMinute = 1
SPECIFICATION DatesSpec
INVARIANTS
    OneScheduledReminder
    JobPaysOnce
    JobDealsWithAll
    PartsAgree
    DatesAreColombias
    QuotaHolds
PROPERTY
    SeriesCountsEachOnce
CHECK_DEADLOCK FALSE
