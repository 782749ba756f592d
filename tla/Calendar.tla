------------------------------- MODULE Calendar -------------------------------
(***************************************************************************)
(* Dates as the application computes them.  The server and the database    *)
(* run in UTC; "today" and "this month" are Colombia's, five hours behind  *)
(* (bogota-time.ts), but the due dates of recurring payments are computed  *)
(* with the server's own date (transfer-schedule.util.ts).                 *)
(*                                                                         *)
(* An instant is a number of hours, and a day a number of days, since the  *)
(* first of January of FirstYear at 00:00 UTC.                             *)
(***************************************************************************)
EXTENDS Integers, FiniteSets, FiniteSetsExt

CONSTANTS
    FirstYear,  \* the first year of the calendar
    Years       \* bound: its number of years

ASSUME CalendarConstants == FirstYear \in Nat /\ Years \in Nat \ {0}

Hours == 24
Offset == 5  \* BOGOTA_OFFSET_MS

Frequencies == {"weekly", "biweekly", "monthly", "bimonthly", "custom"}

\* A month, counted from the first one, and its year and number.
Months == 0 .. 12 * Years - 1
YearOf(i) == FirstYear + i \div 12
NumberOf(i) == (i % 12) + 1

LeapYear(y) == y % 4 = 0 /\ (y % 100 # 0 \/ y % 400 = 0)

MonthDays ==
    [i \in Months |-> IF NumberOf(i) = 2 THEN IF LeapYear(YearOf(i)) THEN 29 ELSE 28
                      ELSE IF NumberOf(i) \in {4, 6, 9, 11} THEN 30 ELSE 31]

\* The day on which a month begins: the days of the years before, and of the months
\* before in its year.
DaysBefore == <<0, 31, 59, 90, 120, 151, 181, 212, 243, 273, 304, 334>>
LeapDays(i) ==
    Cardinality({y \in FirstYear .. YearOf(i) : LeapYear(y) /\ (y < YearOf(i) \/ NumberOf(i) > 2)})
MonthStart == [i \in Months |-> 365 * (i \div 12) + DaysBefore[NumberOf(i)] + LeapDays(i)]

\* The month of a day, among those that may hold it.
Days == 0 .. MonthStart[12 * Years - 1] + 30
Month == [day \in Days |->
            CHOOSE i \in day \div 31 .. day \div 28 :
                i \in Months /\ day \in MonthStart[i] .. MonthStart[i] + MonthDays[i] - 1]
DayOfMonth(day) == day - MonthStart[Month[day]] + 1

-----------------------------------------------------------------------------
(* bogota-time.ts *)

todayInBogota(now) == (now - Offset) \div Hours
currentMonthInBogota(now) ==
    LET i == Month[todayInBogota(now)] IN [year |-> YearOf(i), month |-> NumberOf(i)]

startOfBogotaDayMutant(now) == Hours * todayInBogota(now)
startOfBogotaDay(now) == Hours * todayInBogota(now) + Offset
startOfBogotaMonth(now) == Hours * MonthStart[Month[todayInBogota(now)]] + Offset

shiftMonth(year, month, delta) ==
    LET index == year * 12 + (month - 1) + delta IN
    [year |-> index \div 12, month |-> (index % 12) + 1]

\* The day of monthStartISO, which is compared with dates.
monthStartISO(m) == MonthStart[(m.year - FirstYear) * 12 + m.month - 1]

-----------------------------------------------------------------------------
(* transfer-schedule.util.ts *)

\* setMonth keeps the day of the month: what does not fit goes on in the month after.
SetMonth(day, i) == MonthStart[i] + DayOfMonth(day) - 1
SetDate(day, date) == MonthStart[Month[day]] + date - 1

CustomDays(interval) == IF interval > 0 THEN interval ELSE 30

\* Mutant: setDate with a day that the month may not have.
OnItsDayMutant(day, dayOfMonth) == SetDate(day, dayOfMonth)

\* dayOfMonth, or the last day of the month the date fell in.
OnItsDay(day, dayOfMonth) ==
    LET maxDay == MonthDays[Month[day]] IN
    SetDate(day, IF dayOfMonth < maxDay THEN dayOfMonth ELSE maxDay)

calcNextDueDate(today, frequency, dayOfMonth, interval) ==
    CASE frequency = "custom" -> SetDate(today, DayOfMonth(today) + CustomDays(interval))
      [] frequency = "weekly" -> SetDate(today, DayOfMonth(today) + 7)
      [] frequency = "biweekly" -> SetDate(today, DayOfMonth(today) + 14)
      [] frequency = "monthly" -> OnItsDay(SetMonth(today, Month[today] + 1), dayOfMonth)
      [] frequency = "bimonthly" -> OnItsDay(SetMonth(today, Month[today] + 2), dayOfMonth)

=============================================================================
