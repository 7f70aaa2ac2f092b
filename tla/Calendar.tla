------------------------------ MODULE Calendar ------------------------------
(***************************************************************************)
(* Days, weeks and months of local time: when a report is to run           *)
(* (previous_occurrence, scheduled.py) and which period it is about        *)
(* (resolve_range, reporting.py).  Times are hours since the first day of  *)
(* a calendar whose days, weeks and months may be short; local time has no *)
(* changes of clock.                                                       *)
(***************************************************************************)
EXTENDS Integers, Sequences

CONSTANTS HoursPerDay, DaysPerWeek,
          MonthLengths,  \* days of each month
          LastMonthDay   \* the 28 of previous_occurrence: a day every month has

ASSUME CalendarAssumption ==
    /\ HoursPerDay \in Nat \ {0} /\ DaysPerWeek \in Nat \ {0} /\ LastMonthDay \in Nat \ {0}
    /\ MonthLengths \in Seq(Nat) /\ Len(MonthLengths) >= 3
    /\ \A i \in DOMAIN MonthLengths : LastMonthDay <= MonthLengths[i]

Bodies == [enabled: BOOLEAN, frequency: {"daily", "weekly", "monthly"},
           hour: 0..HoursPerDay - 1, weekday: 0..DaysPerWeek - 1, monthday: 0..LastMonthDay + 1]

-----------------------------------------------------------------------------
(* The calendar.                                                           *)

Day(t) == t \div HoursPerDay

\* The first day of month m; after the last month, the end of the calendar.
MonthStart[m \in 1..Len(MonthLengths) + 1] ==
    IF m = 1 THEN 0 ELSE MonthStart[m - 1] + MonthLengths[m - 1]
MonthOf(day) ==
    CHOOSE m \in DOMAIN MonthLengths : MonthStart[m] <= day /\ day < MonthStart[m] + MonthLengths[m]

Weekday(day) == day % DaysPerWeek

-----------------------------------------------------------------------------
(* previous_occurrence.                                                    *)

MonthDay(body) ==
    LET day == IF body.monthday = 0 THEN 1 ELSE body.monthday
    IN  IF day > LastMonthDay THEN LastMonthDay ELSE day

At(day, body) == day * HoursPerDay + body.hour

\* Mutant of Latest: the hour of the schedule itself is not an occurrence yet.
LatestBefore(day, earlier, body, now) == IF At(day, body) >= now THEN At(earlier, body) ELSE At(day, body)

Latest(day, earlier, body, now) == IF At(day, body) > now THEN At(earlier, body) ELSE At(day, body)

SameWeek(day, body) == day - ((Weekday(day) - body.weekday) % DaysPerWeek)

PreviousOccurrence(body, now) ==
    LET today == Day(now)
        month == MonthOf(today)
        inMonth(m) == MonthStart[m] + MonthDay(body) - 1
    IN  CASE body.frequency = "daily"  -> Latest(today, today - 1, body, now)
          [] body.frequency = "weekly" ->
               Latest(SameWeek(today, body), SameWeek(today, body) - DaysPerWeek, body, now)
          [] OTHER -> Latest(inMonth(month), inMonth(month - 1), body, now)

-----------------------------------------------------------------------------
(* resolve_range: <<start, end>>, for a keyword or a number of hours.      *)

Keywords == {"today", "yesterday", "this_week", "last_week", "this_month", "last_month"}

DayStart(day) == day * HoursPerDay

LastWeek(today) ==
    LET monday == today - Weekday(today) IN <<DayStart(monday - DaysPerWeek), DayStart(monday)>>

ResolveRange(range, now) ==
    LET today == Day(now)
        first == MonthStart[MonthOf(today)]
    IN  CASE range = "today"      -> <<DayStart(today), now>>
          [] range = "yesterday"  -> <<DayStart(today - 1), DayStart(today)>>
          [] range = "this_week"  -> <<DayStart(today - Weekday(today)), now>>
          [] range = "last_week"  -> LastWeek(today)
          [] range = "this_month" -> <<DayStart(first), now>>
          [] range = "last_month" -> <<DayStart(MonthStart[MonthOf(first - 1)]), DayStart(first)>>
          [] OTHER                -> <<now - range, now>>

-----------------------------------------------------------------------------
(* What previous_occurrence promises.                                      *)

\* The hours at which a schedule is to run.
Matches(body, t) ==
    /\ t % HoursPerDay = body.hour
    /\ body.frequency = "weekly" => Weekday(Day(t)) = body.weekday
    /\ body.frequency = "monthly" =>
         Day(t) - MonthStart[MonthOf(Day(t))] + 1 = MonthDay(body)
=============================================================================
