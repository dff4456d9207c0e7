----------------------------- MODULE DayWalk -------------------------------
(***************************************************************************)
(* A walk through the days that a utime_t can hold by time.c, with the     *)
(* data base's calendar of dbtime.c going on beside it.                    *)
(***************************************************************************)
EXTENDS Calendar

CONSTANT MaxDay     \* the last day; at most 24854, or 32 bits overflow

ASSUME MaxDayAssumption == MaxDay \in 0 .. 24854

VARIABLES n,        \* the day, counted from 2000-1-1
          date      \* the same day, by dbtime.c

dayVars == <<n, date>>

\* Every 16 years, 5844 days, a walk begins.
DaysInit == \E k \in 0 .. MaxDay \div 5844 : n = 5844 * k /\ date = DbTime(16 * k, 1, 1, 0)

DaysNext ==
    /\ n < MaxDay
    /\ n' = n + 1
    /\ date' = DbTimeAddOneDay(date)

DaysSpec == DaysInit /\ [][DaysNext]_dayVars

(***************************************************************************)
(* The calendar.                                                           *)
(***************************************************************************)
SameDay(c, t) == c.year = t.year /\ c.month = t.month /\ c.day = t.day

\* The smallest steps of dbtime.c carry: a day on and a day back is the same day,
\* a month on and a month back the same month, and the quarter after 23:45 is
\* midnight of the next day.
DbTimeSteps ==
    /\ DbTimeSubOneDay(DbTimeAddOneDay(date)) = date
    /\ DbTimeSubOneMonth(DbTimeAddOneMonth(date)) = date
    /\ DbTimeAddOneTick([date EXCEPT !.tick = 95]) = DbTimeAddOneDay(date)

\* UTimeAdd over months keeps the day of the month and the time, across ends of
\* years and Februaries, for the days that every month has.  Clock timers with a
\* period in months rely on it.
MonthsKeepTheDay ==
    n + 400 <= MaxDay /\ date.day <= 28 =>
        \A k \in {1, 2, 12, 13} :
            LET step[i \in 0 .. k] == IF i = 0 THEN date ELSE DbTimeAddOneMonth(step[i - 1])
            IN  UTimeAdd(n * Day + 3661, "month", k) = DbTimeToUTime(step[k]) + 3661

\* time.c and dbtime.c, which have a leap year rule each, name the same date on
\* every day a utime_t reaches, from its first to its last second, the day of the
\* week goes on from Saturday 2000-1-1, the conversions are inverses (up to their
\* quarter of an hour, or minute), the steps of dbtime.c carry, and UTimeAdd keeps
\* the day of the month.
CalendarAgrees ==
    /\ DbTimeSteps /\ MonthsKeepTheDay
    /\ \A s \in {0, 15 * 60, Day - 1} :
           LET u == n * Day + s
               c == UTimeToSysClock(u)
           IN  /\ SameDay(c, date)
               /\ c.week = (6 + n) % 7
               /\ SysClockToUTime(c) = u
               /\ DbTimeToUTime(UTimeToDbTime(u)) = u - (u % 900)
               /\ \A month \in BOOLEAN :
                      ReadTimeToClock(c, ClockToReadTime(c, month), month, c.week) = [c EXCEPT !.second = 0]
=============================================================================
