------------------------------ MODULE Calendar ------------------------------
(***************************************************************************)
(* The calendar of sys/syscall/time.c and lib/dbtime.c: seconds since the  *)
(* start of 2000 (utime_t, a 32-bit int), broken-down time (sysclock_t)    *)
(* and the data base's time (dbtime_t, quarters of an hour).  The four     *)
(* conversions each have a rule of their own for the length of a month.    *)
(***************************************************************************)
EXTENDS Integers

Day == 86400

\* sysclock_t, without the spare byte; week counts from Sunday.
SysClock(y, mo, d, h, mi, s, w) ==
    [year |-> y, month |-> mo, day |-> d, hour |-> h, minute |-> mi, second |-> s, week |-> w]

DaysBeforeMonth == <<0, 31, 59, 90, 120, 151, 181, 212, 243, 273, 304, 334>>

Leap(year) == year % 4 = 0

\* SysClockToUTime: month 0 and months above 12 add nothing, day 0 counts as 1.
SysClockToUTime(c) ==
    LET days == c.year * 365 + (IF c.year = 0 THEN 0 ELSE ((c.year - 1) \div 4) + 1)
                + (IF c.month > 2 /\ Leap(c.year) THEN 1 ELSE 0)
                + (IF c.month \in 1 .. 12 THEN DaysBeforeMonth[c.month] ELSE 0)
                + (IF c.day = 0 THEN 0 ELSE c.day - 1)
    IN  ((days * 24 + c.hour) * 60 + c.minute) * 60 + c.second

\* The month lengths of UTimeToSysClock and UTimeAdd.
MonthDays(year, month) ==
    IF month = 2 THEN IF Leap(year) THEN 29 ELSE 28
    ELSE IF month < 8 THEN 30 + (month % 2) ELSE 31 - (month % 2)

\* What the months before month m have taken off the day of the year.
DaysTaken(year) ==
    LET taken[m \in 1 .. 13] == IF m = 1 THEN 0 ELSE taken[m - 1] + MonthDays(year, m - 1)
    IN  taken

\* Month after month is taken off as long as it is not longer than what is left.
MonthOf(year, dayOfYear) ==
    LET taken == DaysTaken(year)
        month == CHOOSE m \in 1 .. 12 : taken[m] <= dayOfYear /\ dayOfYear < taken[m + 1]
    IN  [month |-> month, day |-> dayOfYear - taken[month] + 1]

\* Mutant: the second year of a period of four begins a day early.
UTimeToSysClockEarly(u) ==
    LET days == u \div Day
        rest == days % 1461
        cycle == IF rest < 365 THEN 0 ELSE ((rest - 365) \div 365) + 1
        year == (days \div 1461) * 4 + cycle
        md == MonthOf(year, IF cycle = 0 THEN rest ELSE (rest - 365) % 365)
    IN  SysClock(year, md.month, md.day, (u \div 3600) % 24, (u \div 60) % 60, u % 60,
                 (days + 6) % 7)

\* UTimeToSysClock: periods of four years, the first of them a leap year.
UTimeToSysClock(u) ==
    LET days == u \div Day
        rest == days % 1461
        cycle == IF rest < 366 THEN 0 ELSE ((rest - 366) \div 365) + 1
        year == (days \div 1461) * 4 + cycle
        md == MonthOf(year, IF cycle = 0 THEN rest ELSE (rest - 366) % 365)
    IN  SysClock(year, md.month, md.day, (u \div 3600) % 24, (u \div 60) % 60, u % 60,
                 (days + 6) % 7)

SysClockDifference(c1, c2) == SysClockToUTime(c1) - SysClockToUTime(c2)

NextMonth(m) == IF m.month = 12 THEN [year |-> m.year + 1, month |-> 1]
                ELSE [m EXCEPT !.month = @ + 1]

\* The seconds of the n months that begin with m.
MonthSeconds(m, n) ==
    LET from[i \in 0 .. n] == IF i = 0 THEN m ELSE NextMonth(from[i - 1])
        sum[i \in 0 .. n] ==
            IF i = 0 THEN 0
            ELSE sum[i - 1] + MonthDays(from[i - 1].year, from[i - 1].month) * Day
    IN  sum[n]

\* UTimeAdd: n units of the kind "minute", "hour", "day" or "month".
UTimeAdd(u, unit, n) ==
    LET c == UTimeToSysClock(u)
    IN  u + CASE unit = "minute" -> 60 * n
              [] unit = "hour" -> 3600 * n
              [] unit = "day" -> Day * n
              [] unit = "month" -> MonthSeconds([year |-> c.year, month |-> c.month], n)

(***************************************************************************)
(* dbtime_t.                                                               *)
(***************************************************************************)
DbTime(y, mo, d, t) == [year |-> y, month |-> mo, day |-> d, tick |-> t]

MonthMaxDays == <<31, 28, 31, 30, 31, 30, 31, 31, 30, 31, 30, 31>>
MaxDays(t) == MonthMaxDays[t.month] + (IF t.month = 2 /\ Leap(t.year) THEN 1 ELSE 0)

DbTimeAddOneMonth(t) ==
    IF t.month = 12 THEN [t EXCEPT !.month = 1, !.year = (@ + 1) % 256]
    ELSE [t EXCEPT !.month = @ + 1]

DbTimeSubOneMonth(t) ==
    IF t.month = 1 THEN [t EXCEPT !.month = 12, !.year = (@ - 1) % 256]
    ELSE [t EXCEPT !.month = @ - 1]

DbTimeAddOneDay(t) ==
    IF t.day < MaxDays(t) THEN [t EXCEPT !.day = @ + 1]
    ELSE DbTimeAddOneMonth([t EXCEPT !.day = 1])

DbTimeSubOneDay(t) ==
    IF t.day > 1 THEN [t EXCEPT !.day = @ - 1]
    ELSE LET p == DbTimeSubOneMonth(t) IN [p EXCEPT !.day = MaxDays(p)]

DbTimeAddOneTick(t) ==
    IF t.tick < 95 THEN [t EXCEPT !.tick = @ + 1]
    ELSE DbTimeAddOneDay([t EXCEPT !.tick = 0])

\* DBTIME_SYSCLOCK, SYSCLOCK_DBTIME; the day of the week is not set.
DbTimeToSysClock(t) ==
    SysClock(t.year, t.month, t.day, t.tick \div 4, (t.tick % 4) * 15, 0, 0)
SysClockToDbTime(c) == DbTime(c.year, c.month, c.day, c.hour * 4 + (c.minute \div 15))

\* ClockToReadTime and ReadTimeToClock of downlink/plmdb.c: minutes of the day, or
\* of the month; a day out of range counts as the first.
ClockToReadTime(c, month) ==
    c.hour * 60 + c.minute + (IF month /\ c.day \in 1 .. 31 THEN (c.day - 1) * 1440 ELSE 0)
ReadTimeToClock(file, readtime, month, w) ==
    LET hours == readtime \div 60
    IN  SysClock(file.year, file.month, IF month THEN (hours \div 24) + 1 ELSE file.day,
                 IF month THEN hours % 24 ELSE hours, readtime % 60, 0, w)

DbTimeToUTime(t) == SysClockToUTime(DbTimeToSysClock(t))
UTimeToDbTime(u) == SysClockToDbTime(UTimeToSysClock(u))
=============================================================================
