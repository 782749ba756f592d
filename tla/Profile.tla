------------------------------- MODULE Profile -------------------------------
(***************************************************************************)
(* The summary of the profile: ProfileService.getSummary sends its queries *)
(* at once (Promise.all), each on a connection of its own, so that each of *)
(* them sees the tables, and the clock, at another moment, while           *)
(* transactions come and go.  Each query is an action that stores its      *)
(* part; a part is old as soon as what it read has changed.  The counts of *)
(* single tables are left out.                                             *)
(***************************************************************************)
EXTENDS Calendar, FiniteSets, Functions

CONSTANTS
    Ids,           \* ids of transactions
    Amount,        \* the amount of each
    Dates,         \* days they may have
    Samples,       \* bound: the rows that are registered
    Instants,      \* when the clock is looked at
    Debit, Credit, \* accounts that count for the balance, and the others
    Balance,       \* the initial balance of each account
    Categories,    \* categories of expenses
    Parent,        \* the group of each, or None
    None,
    Unread, Old,   \* a part that is not read yet, and history: one read before a change
    SeriesLength,  \* MONTHLY_SERIES_LENGTH
    TopLimit,      \* TOP_CATEGORIES_LIMIT
    DaysOfMonth,   \* days on which recurring payments fall
    Intervals      \* days between recurring payments, 0 for none given

Accounts == Debit \union Credit

\* A row from before accounts were linked has no account (account_id is NULL).
Row == [date : Dates, type : {"ingreso", "egreso", "transferencia"}, account : Accounts \union {None},
        toAccount : Accounts \union {None}, category : Categories \union {None}]
NoRow == [date |-> None, type |-> None, account |-> None, toAccount |-> None, category |-> None]

VARIABLES
    now,           \* the instant
    transactions,  \* transactions[t]: the row of t
    parts          \* parts[q]: what the query q answered, for the request in flight

vars == <<now, transactions, parts>>

Queries == {"totals", "currentMonth", "monthly", "top", "balance"}

Init ==
    /\ now \in Instants /\ \A i \in Instants : now <= i
    /\ transactions = [t \in Ids |-> NoRow]
    /\ parts = [q \in Queries |-> Unread]

-----------------------------------------------------------------------------
(* Operators *)

Rows == {t \in Ids : transactions[t] # NoRow}
Sum(S) == SumFunctionOnSet(Amount, S)
OfType(S, type) == {t \in S : transactions[t].type = type}

\* Mutant: expenses with a minus, as the rows of an account's movements have them.
FiguresMutant(S) == [count |-> Cardinality(S), income |-> Sum(OfType(S, "ingreso")),
                     expense |-> 0 - Sum(OfType(S, "egreso"))]

\* Count, income and expense of some rows.
Figures(S) == [count |-> Cardinality(S), income |-> Sum(OfType(S, "ingreso")),
               expense |-> Sum(OfType(S, "egreso"))]

Since(S, start) == {t \in S : transactions[t].date >= start}
Before(S, end) == {t \in S : transactions[t].date < end}

\* The rows of a month, as the GROUP BY of the series makes them.
InMonth(S, m) ==
    {t \in S : LET i == Month[transactions[t].date] IN
               m = [year |-> YearOf(i), month |-> NumberOf(i)]}

Shifted(m, delta) == shiftMonth(m.year, m.month, delta)

transactionStats ==
    [figures |-> Figures(Rows),
     transfer |-> Sum(OfType(Rows, "transferencia")),
     activeMonths |-> Cardinality({Month[transactions[t].date] : t \in Rows})]

\* Mutant: the query has no end.
currentMonthStatsMutant ==
    LET m == currentMonthInBogota(now) IN
    [month |-> m, figures |-> Figures(Since(Rows, monthStartISO(m)))]

currentMonthStats ==
    LET m == currentMonthInBogota(now) IN
    [month |-> m,
     figures |-> Figures(Before(Since(Rows, monthStartISO(m)), monthStartISO(Shifted(m, 1))))]

\* Mutant: the month before the current one closes the series.
monthlySeriesMutant ==
    LET m == currentMonthInBogota(now)
        rows == Since(Rows, monthStartISO(m)) IN
    [k \in 1 .. SeriesLength |->
        LET month == Shifted(m, k - SeriesLength) IN
        [month |-> month, figures |-> Figures(InMonth(rows, month))]]

\* The query has no end: months after the current one are read and not shown.
monthlySeries ==
    LET m == currentMonthInBogota(now)
        rows == Since(Rows, monthStartISO(Shifted(m, 1 - SeriesLength))) IN
    [k \in 1 .. SeriesLength |->
        LET month == Shifted(m, k - SeriesLength) IN
        [month |-> month, figures |-> Figures(InMonth(rows, month))]]

\* Mutant: a subcategory counts for itself.
GroupMutant(t) == transactions[t].category

\* A subcategory adds to its group, also when that is a subcategory itself.
Group(t) ==
    LET c == transactions[t].category IN IF Parent[c] = None THEN c ELSE Parent[c]
Expenses == OfType(Rows, "egreso")
Groups == {Group(t) : t \in Expenses}
Spent(g) == Sum({t \in Expenses : Group(t) = g})

\* The groups an answer may hold: the largest, in no order between equals.
Tops ==
    {top \in SUBSET Groups :
        /\ Cardinality(top) = Min({TopLimit, Cardinality(Groups)})
        /\ \A g \in top, h \in Groups \ top : Spent(g) >= Spent(h)}

\* Mutant: what a transfer brings to its destination is left out.
MovementsMutant(a) ==
    LET own == {t \in Rows : transactions[t].account = a} IN
    Sum(OfType(own, "ingreso")) - Sum(own \ OfType(own, "ingreso"))

\* MOVEMENTS_SQL: what enters and leaves an account.  A row whose account_id is NULL
\* leaves none; as a transfer it may have a destination all the same.
Movements(a) ==
    LET own == {t \in Rows : transactions[t].account = a} IN
    Sum(OfType(own, "ingreso")) - Sum(own \ OfType(own, "ingreso"))
        + Sum(OfType({t \in Rows : transactions[t].toAccount = a}, "transferencia"))

currentBalanceOf(a) == Balance[a] + Movements(a)
BalanceOf(accounts) == SumFunction([a \in accounts |-> currentBalanceOf(a)])
TotalBalance == BalanceOf(Debit)

-----------------------------------------------------------------------------
(* Actions *)

Read(q, answer) ==
    /\ parts[q] = Unread
    /\ parts' = [parts EXCEPT ![q] = answer]
    /\ UNCHANGED <<now, transactions>>

ReadTotals == Read("totals", transactionStats)
ReadCurrentMonth == Read("currentMonth", currentMonthStats)
ReadMonthly == Read("monthly", monthlySeries)
ReadTop == \E top \in Tops : Read("top", [g \in top |-> Spent(g)])
ReadBalance == Read("balance", TotalBalance)

\* The answer leaves, with all its parts; the next request may begin.
Answer ==
    /\ \A q \in Queries : parts[q] # Unread
    /\ parts' = [q \in Queries |-> Unread]
    /\ UNCHANGED <<now, transactions>>

Ages == parts' = [q \in Queries |-> IF parts[q] = Unread THEN Unread ELSE Old]

Register(t) ==
    /\ transactions[t] = NoRow
    /\ \E row \in Samples : transactions' = [transactions EXCEPT ![t] = row]
    /\ Ages
    /\ UNCHANGED now

Remove(t) ==
    /\ t \in Rows
    /\ transactions' = [transactions EXCEPT ![t] = NoRow]
    /\ Ages
    /\ UNCHANGED now

Wait ==
    /\ \E i \in Instants : i > now /\ now' = i /\ \A j \in Instants : j > now => i <= j
    /\ IF currentMonthInBogota(now') = currentMonthInBogota(now) THEN UNCHANGED parts ELSE Ages
    /\ UNCHANGED transactions

Next ==
    \/ ReadTotals
    \/ ReadCurrentMonth
    \/ ReadMonthly
    \/ ReadTop
    \/ ReadBalance
    \/ Answer
    \/ \E t \in Ids : Register(t) \/ Remove(t)
    \/ Wait

Spec == Init /\ [][Next]_vars

-----------------------------------------------------------------------------
(* Properties *)

\* The part was read, and nothing it depends on has changed.
Fresh(q) == parts[q] \notin {Unread, Old}

Figure == [count : Nat, income : Nat, expense : Nat]

\* Every variable has its type.
TypeOK ==
    /\ now \in Instants
    /\ transactions \in [Ids -> Row \union {NoRow}]
    /\ DOMAIN parts = Queries
    /\ Fresh("totals") => parts["totals"].figures \in Figure

\* "Ingresos/egresos de los últimos 12 meses (incluye el actual), con meses vacíos
\* en 0": the months of the series follow one another up to Colombia's month, over
\* the turn of a year too, and each transaction dated in them counts exactly once,
\* and no other one.
SeriesCounts ==
    parts'["monthly"] # parts["monthly"] /\ Fresh("monthly")' =>
        LET series == parts'["monthly"]
            last == Month[todayInBogota(now)]
            window == {t \in Rows : Month[transactions[t].date] \in last - SeriesLength + 1 .. last} IN
        /\ \A k \in 1 .. SeriesLength :
              LET i == last - SeriesLength + k IN
              series[k].month = [year |-> YearOf(i), month |-> NumberOf(i)]
        /\ Cardinality(window)
              = SumFunction([k \in 1 .. SeriesLength |-> series[k].figures.count])
        /\ Sum(OfType(window, "egreso"))
              = SumFunction([k \in 1 .. SeriesLength |-> series[k].figures.expense])

SeriesCountsEachOnce == [][SeriesCounts]_vars

\* The current month is the last one of the series, though another query computes
\* it in another way, unless something changed between the two.
CurrentMonthEndsTheSeries ==
    Fresh("currentMonth") /\ Fresh("monthly") =>
        parts["currentMonth"] = parts["monthly"][SeriesLength]

\* The groups add up to the expense of the totals, or to less when there are more
\* of them than the answer shows, and then none shown is smaller than one left out,
\* however many levels there are.  What is shown is a main category or the group of
\* some category, and never a subcategory that has none.
GroupsAddUp ==
    Fresh("totals") /\ Fresh("top") =>
        LET top == parts["top"]
            expense == parts["totals"].figures.expense
            left == expense - SumFunction(top) IN
        /\ \A g \in DOMAIN top : Parent[g] = None \/ \E c \in Categories : Parent[c] = g
        /\ IF Cardinality(DOMAIN top) < TopLimit THEN left = 0
           ELSE /\ left >= 0
                /\ \A g \in DOMAIN top : Cardinality(Groups \ DOMAIN top) * top[g] >= left

\* All accounts together have their initial balances, the income and less the expense
\* and what went to somebody else: a transfer between own accounts is neither won nor
\* lost, also when one of them is a credit account, which the total does not show.
\* Compared with the totals, which are another query: they count the rows without an
\* account too, which are in no balance, and that is all the difference there is.
BalanceFollowsTheTotals ==
    Fresh("totals") /\ Fresh("balance") =>
        LET totals == parts["totals"]
            within == Sum({t \in OfType(Rows, "transferencia") : transactions[t].toAccount # None})
            unlinked == {t \in Rows : transactions[t].account = None}
            income == totals.figures.income - Sum(OfType(unlinked, "ingreso"))
            spent == totals.figures.expense + totals.transfer
                        - Sum(unlinked \ OfType(unlinked, "ingreso")) IN
        parts["balance"] + BalanceOf(Credit)
            = SumFunctionOnSet(Balance, Accounts) + income - spent + within

\* "no adelantarse 5 horas": the day and the month of now began before now, in that
\* day and month of Colombia, and the hour before is of the day and the month before.
StartsAreColombias ==
    /\ startOfBogotaDay(now) <= now
    /\ todayInBogota(startOfBogotaDay(now)) = todayInBogota(now)
    /\ todayInBogota(startOfBogotaDay(now) - 1) = todayInBogota(now) - 1
    /\ startOfBogotaMonth(now) <= startOfBogotaDay(now)
    /\ currentMonthInBogota(startOfBogotaMonth(now)) = currentMonthInBogota(now)
    /\ currentMonthInBogota(startOfBogotaMonth(now) - 1) = Shifted(currentMonthInBogota(now), -1)

\* A recurring payment falls due after today; a monthly one on its day of the next
\* month, or on the last day of a shorter one; only when that month has no such day
\* as today's, setMonth goes over it and the payment falls due one month later.
DueDates ==
    LET today == now \div Hours IN
    \A dayOfMonth \in DaysOfMonth, interval \in Intervals, frequency \in Frequencies :
        LET next == calcNextDueDate(today, frequency, dayOfMonth, interval)
            k == IF frequency = "bimonthly" THEN 2 ELSE 1
            month == Month[today] + k
            skips == DayOfMonth(today) > MonthDays[month] IN
        /\ next > today
        /\ frequency \in {"monthly", "bimonthly"} =>
              /\ Month[next] = IF skips THEN month + 1 ELSE month
              /\ DayOfMonth(next) = Min({dayOfMonth, MonthDays[Month[next]]})

-----------------------------------------------------------------------------
(* The inductive invariant *)

\* What is fresh is what the query would answer now.
PartsAreAnswers ==
    /\ Fresh("totals") => parts["totals"] = transactionStats
    /\ Fresh("currentMonth") => parts["currentMonth"] = currentMonthStats
    /\ Fresh("monthly") => parts["monthly"] = monthlySeries
    /\ Fresh("top") => \E top \in Tops : parts["top"] = [g \in top |-> Spent(g)]
    /\ Fresh("balance") => parts["balance"] = TotalBalance

IInv ==
    /\ now \in Instants
    /\ transactions \in [Ids -> Samples \union {NoRow}]
    /\ DOMAIN parts = Queries
    /\ PartsAreAnswers

=============================================================================
