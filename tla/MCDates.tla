------------------------------- MODULE MCDates -------------------------------
(* Instances for TLC of what depends on the calendar: TransferTemplates,     *)
(* Profile and AiUsage.  They share no variable: a behaviour is one of one   *)
(* of them.                                                                  *)
EXTENDS TransferTemplates, Calendar, TLC

CONSTANTS
    Ids, Amount, Dates, Samples, Instants, Debit, Credit, Balance, Categories, Parent, None,
    Unread, Old, SeriesLength, TopLimit, DaysOfMonth, Intervals,  \* of Profile
    t1, t2, a1, a2, a3, c1, c2, c3,                               \* of Profile, for what follows
    MaxUses, Askers, Times, Costs, DailyUsd, MonthlyUsd, PerMinute  \* of AiUsage

VARIABLES
    part,
    now, transactions, parts,  \* of Profile
    time, usage, asking        \* of AiUsage

summed == <<now, transactions, parts>>
asked == <<time, usage, asking>>

Summary == INSTANCE Profile
Quota == INSTANCE AiUsage

MCAmount == t1 :> 1 @@ t2 :> 2
MCBalance == a1 :> 5 @@ a2 :> 0 @@ a3 :> 0
\* Three levels, which a race can leave (Categories).
MCParent == c1 :> None @@ c2 :> c1 @@ c3 :> c2

\* 31 December 2027 in Colombia, when it is 1 January in UTC; the same morning; 31
\* January; and 1 February in UTC, still January in Colombia.
MCInstants == {8763, 8772, 9500, 9508}

\* 30 November, 31 December, 1 January and 1 February.
MCDates == {333, 364, 365, 396}

\* Only expenses are grouped: None stands for the category of any other row.  The last
\* rows are from before accounts were linked.
MCSamples ==
    [date : {333, 364, 365}, type : {"egreso"}, account : {a1}, toAccount : {None},
     category : {c1, c2, c3}]
    \union [date : {365, 396}, type : {"ingreso"}, account : {a2}, toAccount : {None},
            category : {None}]
    \union [date : {364}, type : {"transferencia"}, account : {a1}, toAccount : {None, a2, a3},
            category : {None}]
    \union [date : {364}, type : {"egreso"}, account : {None}, toAccount : {None}, category : {c2}]
    \union [date : {365}, type : {"ingreso"}, account : {None}, toAccount : {None}, category : {None}]
    \union [date : {364}, type : {"transferencia"}, account : {None}, toAccount : {None, a2},
            category : {None}]

\* The limits are positive (ai-usage.limits.ts:7), and instants are within the calendar.
ASSUME QuotaConstants ==
    /\ IsFiniteSet(Askers)
    /\ Costs \in SUBSET Nat /\ IsFiniteSet(Costs) /\ Costs # {}
    /\ MaxUses \in Nat
    /\ DailyUsd \in Nat \ {0} /\ MonthlyUsd \in Nat \ {0} /\ PerMinute \in Nat \ {0}
    /\ \A t \in Times : t \in Nat /\ todayInBogota(t) \in 0 .. MonthStart[12 * Years - 1] - 1

\* An expense has a category (category_id is NOT NULL), and the clock of Summary is within
\* the calendar: the months of the series before it, and those of a next payment after it.
ASSUME SummaryConstants ==
    /\ IsFiniteSet(Ids) /\ Amount \in [Ids -> Nat]
    /\ Dates \subseteq Days
    /\ IsFiniteSet(Debit) /\ IsFiniteSet(Credit)
    /\ Debit \intersect Credit = {} /\ None \notin Debit \union Credit
    /\ Balance \in [Debit \union Credit -> Int]
    /\ None \notin Categories /\ Parent \in [Categories -> Categories \union {None}]
    /\ Samples \subseteq Summary!Row
    /\ \A row \in Samples : row.type = "egreso" => row.category \in Categories
    /\ SeriesLength \in Months \ {0} /\ TopLimit \in Nat \ {0}
    /\ DaysOfMonth \subseteq 1 .. 31 /\ Intervals \subseteq Nat
    /\ \A t \in Instants :
          /\ t \in Nat
          /\ todayInBogota(t) \in MonthStart[SeriesLength] .. MonthStart[12 * Years - 4] - 1

DatesInit ==
    /\ part \in {"templates", "summary", "quota"}
    /\ Init
    /\ Summary!Init
    /\ Quota!Init

DatesNext ==
    \/ part = "templates" /\ Next /\ UNCHANGED <<part, summed, asked>>
    \/ part = "summary" /\ Summary!Next /\ UNCHANGED <<part, vars, asked>>
    \/ part = "quota" /\ Quota!Next /\ UNCHANGED <<part, vars, summed>>

DatesSpec == DatesInit /\ [][DatesNext]_<<part, vars, summed, asked>>

\* Profile: the months follow one another, and each transaction counts once (profile.service.ts:288).
SeriesCountsEachOnce == Summary!SeriesCountsEachOnce

\* Profile: every variable has its type; the current month is the last one of the series
\* (l.255); the largest groups are shown, with their subcategories (l.342); and a transfer
\* between own accounts is neither won nor lost (account-balances.ts:9).
PartsAgree ==
    part = "summary" =>
        /\ Summary!TypeOK
        /\ Summary!CurrentMonthEndsTheSeries
        /\ Summary!GroupsAddUp
        /\ Summary!BalanceFollowsTheTotals

\* The next one speaks of the clock only: it is looked at while there is nothing else.
OnlyTheClock == part = "summary" /\ Summary!Rows = {} /\ \A q \in Summary!Queries : parts[q] = Unread

\* Profile: a day and a month begin when they begin in Colombia (bogota-time.ts:32), and
\* so do the dates of recurring payments follow one another (transfer-schedule.util.ts:5).
DatesAreColombias ==
    OnlyTheClock =>
        /\ Summary!StartsAreColombias
        /\ Summary!DueDates

\* AiUsage: every variable has its type; a day and a month cost less than the limit and
\* what was in flight (ai-usage.service.ts:68); a minute has fewer calls than the limit
\* and those in flight; and a limit ends with the day or the month of Colombia.
QuotaHolds ==
    part = "quota" =>
        /\ Quota!TypeOK
        /\ Quota!SpendingIsBounded
        /\ Quota!RateIsBounded
        /\ Quota!LimitsEnd
=============================================================================
