--------------------------- MODULE MCClockTimers ---------------------------
(* The last second of 2016, the first of 2017, five minutes later and, in   *)
(* the same minute of its hour as the first but in an earlier second, three *)
(* hours later; a timer every five minutes, one more whose base time is     *)
(* longer than its period, and one on the first of each month.              *)
EXTENDS ClockTimers

NewYear == SysClockToUTime(SysClock(17, 1, 1, 0, 0, 0, 0))
MCInstants == {NewYear - 1, NewYear, NewYear + 300, NewYear + 10740}
MCConfs ==
    { [bonce |-> FALSE, tdev |-> 5, tmod |-> "minute", basetime |-> SysClock(0, 0, 0, 0, 0, 0, 0)],
      [bonce |-> FALSE, tdev |-> 5, tmod |-> "minute", basetime |-> SysClock(0, 0, 0, 0, 59, 0, 0)],
      [bonce |-> FALSE, tdev |-> 1, tmod |-> "month", basetime |-> SysClock(16, 12, 1, 1, 30, 0, 0)],
      [bonce |-> TRUE, tdev |-> 1, tmod |-> "day", basetime |-> SysClock(0, 0, 0, 0, 0, 0, 0)] }
=============================================================================
