------------------------------- MODULE AiUsage -------------------------------
(***************************************************************************)
(* What Savvi IA has cost one user, and the quota (AiUsageService).  The   *)
(* server of the front asks for the quota before it calls the model, and   *)
(* records the cost when the model has answered: requests that were        *)
(* allowed may still be in flight when a limit is reached.                 *)
(***************************************************************************)
EXTENDS Calendar, FiniteSets, Functions, Sequences

CONSTANTS
    MaxUses,    \* bound: the rows
    Askers,     \* requests in flight at the same time
    Times,      \* instants, hours apart, when things happen
    Costs,      \* what a call may cost
    DailyUsd, MonthlyUsd, PerMinute  \* getAiLimits

VARIABLES
    time,   \* the instant
    usage,  \* the rows in order: when each was inserted, and its cost
    asking  \* requests that were allowed and have not recorded their cost

vars == <<time, usage, asking>>

Init ==
    /\ time \in Times /\ \A t \in Times : time <= t
    /\ usage = <<>>
    /\ asking = {}

Recorded == DOMAIN usage
Spent(S) == SumFunction([u \in S |-> usage[u].cost])
Since(t) == {u \in Recorded : usage[u].at >= t}

\* Mutants: the day begins at midnight UTC, or 24 hours ago.
spentTodayMutant(now) == Spent(Since(Hours * (now \div Hours)))
spentTodayLateMutant(now) == Spent(Since(now - Hours))
spentToday(now) == Spent(Since(startOfBogotaDay(now)))
spentMonth(now) == Spent(Since(startOfBogotaMonth(now)))

\* Mutant: nothing limits the rate.
requestsLastMinuteMutant(now) == 0

\* The instants are hours apart: the rows of the last minute are those of this instant.
requestsLastMinute(now) == Cardinality(Since(now))

getQuota(now) ==
    IF spentMonth(now) >= MonthlyUsd THEN "monthly"
    ELSE IF spentToday(now) >= DailyUsd THEN "daily"
    ELSE IF requestsLastMinute(now) >= PerMinute THEN "rate"
    ELSE "none"

Ask(r) ==
    /\ r \notin asking
    /\ getQuota(time) = "none"
    /\ asking' = asking \union {r}
    /\ UNCHANGED <<time, usage>>

\* Mutant: the instant is not recorded with the cost.
recordMutant(r, cost) ==
    /\ r \in asking
    /\ Len(usage) < MaxUses
    /\ usage' = Append(usage, [at |-> 0, cost |-> cost])
    /\ asking' = asking \ {r}
    /\ UNCHANGED time

record(r, cost) ==
    /\ r \in asking
    /\ Len(usage) < MaxUses
    /\ usage' = Append(usage, [at |-> time, cost |-> cost])
    /\ asking' = asking \ {r}
    /\ UNCHANGED time

\* The model did not answer: there is nothing to record.
GiveUp(r) ==
    /\ r \in asking
    /\ asking' = asking \ {r}
    /\ UNCHANGED <<time, usage>>

Wait(t) ==
    /\ t > time
    /\ time' = t
    /\ UNCHANGED <<usage, asking>>

Next ==
    \/ \E r \in Askers : Ask(r) \/ GiveUp(r) \/ \E cost \in Costs : record(r, cost)
    \/ \E t \in Times : Wait(t)

Spec == Init /\ [][Next]_vars

(***************************************************************************)
(* Properties.                                                             *)
(***************************************************************************)
\* Rows with the cost and the instant of a call.
TypeOK ==
    /\ time \in Times
    /\ usage \in Seq([at : Times, cost : Costs]) /\ Len(usage) <= MaxUses
    /\ asking \subseteq Askers

\* What requests in flight may add once a limit is reached.
InFlight == Cardinality(Askers) * Max(Costs)

\* On every day, and in every month, of Colombia, the calls cost less than the limit plus
\* what was in flight when it was reached, also for calls that end after midnight.
SpendingIsBounded ==
    \A u \in Recorded :
        LET day == todayInBogota(usage[u].at) IN
        /\ Spent({v \in Recorded : todayInBogota(usage[v].at) = day}) < DailyUsd + InFlight
        /\ Spent({v \in Recorded : Month[todayInBogota(usage[v].at)] = Month[day]})
              < MonthlyUsd + InFlight

\* In one minute there are fewer calls than the limit and those in flight.
RateIsBounded ==
    \A u \in Recorded :
        Cardinality({v \in Recorded : usage[v].at = usage[u].at}) < PerMinute + Cardinality(Askers)

\* ai-usage.service.ts:35-41: the monthly limit ends on the first day of the next month, and
\* the daily one tomorrow, in Colombia.
LimitsEnd ==
    LET tomorrow == Hours * (todayInBogota(time) + 1) + Offset
        nextMonth == Hours * MonthStart[Month[todayInBogota(time)] + 1] + Offset
    IN  getQuota(tomorrow) # "daily" /\ getQuota(nextMonth) = "none"

(***************************************************************************)
(* The inductive invariant.                                                *)
(***************************************************************************)
\* Nothing was recorded in the future.
RowsArePast == \A u \in Recorded : usage[u].at <= time

\* Today, this month and this minute, what is recorded and what the requests in flight may
\* still cost is less than the limit and what all of them may.
RoomIsLeft ==
    LET today == todayInBogota(time)
        held == Cardinality(asking) * Max(Costs)
    IN  /\ Spent({v \in Recorded : todayInBogota(usage[v].at) = today}) + held < DailyUsd + InFlight
        /\ Spent({v \in Recorded : Month[todayInBogota(usage[v].at)] = Month[today]}) + held
              < MonthlyUsd + InFlight
        /\ Cardinality({v \in Recorded : usage[v].at = time}) + Cardinality(asking)
              < PerMinute + Cardinality(Askers)

IInv ==
    /\ TypeOK
    /\ RowsArePast
    /\ SpendingIsBounded
    /\ RateIsBounded
    /\ RoomIsLeft

=============================================================================
