---------------------------- MODULE ClockTimers ----------------------------
(***************************************************************************)
(* The cached system time of time.c and the clock timers of timer.c.       *)
(*                                                                         *)
(* ClockCurrent is two words and UTimeCurrent a third.  Whoever calls      *)
(* SysClockRead writes the three one after the other and without a lock:   *)
(* the timer thread before every pass over the clock timers, and any other *)
(* thread that wants the time.  SysClockReadCurrent reads the two words    *)
(* twice and takes them when they agree.  The words are those of a machine *)
(* with 32 bits.                                                           *)
(***************************************************************************)
EXTENDS Calendar, FiniteSets

CONSTANTS Instants,     \* the times the operating system's clock shows
          Confs,        \* what timers may be asked for: [bonce, tdev, tmod, basetime]
          MAX_RTIMER,
          MaxSets       \* bound: how often the clock is set

ASSUME ClockAssumption == /\ IsFiniteSet(Instants) /\ Instants # {} /\ Instants \subseteq Nat
                          /\ MAX_RTIMER \in Nat \ {0} /\ MaxSets \in Nat

\* SysAddRTimer refuses other units; the parts of sysclock_t are unsigned.
ASSUME ConfsAssumption ==
    \A c \in Confs :
        /\ c.bonce \in BOOLEAN /\ c.tdev \in Nat /\ c.tmod \in {"minute", "hour", "day", "month"}
        /\ c.basetime.minute \in Nat /\ c.basetime.hour \in Nat /\ c.basetime.day \in Nat

VARIABLES os,           \* the operating system's clock
          u0, u1,       \* ClockCurrent.u[0], u[1]
          uc,           \* UTimeCurrent
          th,           \* each thread inside SysClockRead or SysClockSet
          rd,           \* the thread inside SysClockReadCurrent
          rtimer,       \* RTimerBuffer; Empty is TMAN_EMPTY
          sets, overlap, had    \* history: clock set, calls overlapped, times shown

clockVars == <<os, u0, u1, uc, th, rd, rtimer, sets, overlap, had>>

Timer == "timer"        \* the thread of SysTimerTask
Client == "client"      \* any other thread
Slots == 0 .. MAX_RTIMER - 1
Empty == [flag |-> "TMAN_EMPTY"]

Fields == {"year", "month", "day", "hour", "minute", "second", "week"}

\* sysclock_t: which of its bytes are in the first word.
Word0Fields == {"year", "month", "day", "hour"}
Word0(u) == LET c == UTimeToSysClock(u) IN [f \in Word0Fields |-> c[f]]
Word1(u) == LET c == UTimeToSysClock(u) IN [f \in Fields \ Word0Fields |-> c[f]]
UTimeOf(w0, w1) == SysClockToUTime([f \in Fields |-> IF f \in Word0Fields THEN w0[f] ELSE w1[f]])

(***************************************************************************)
(* When a timer starts.                                                    *)
(***************************************************************************)
\* RTimerGetBase: the parts of the base clock below the unit; for months, the
\* days before it.
RTimerGetBase(mod, c) ==
    60 * c.minute + (IF mod \in {"day", "month"} THEN 3600 * c.hour ELSE 0)
    + (IF mod = "month" /\ c.day > 0 THEN Day * (c.day - 1) ELSE 0)

\* The start of the hour, day, month or year in which periods are counted.
PeriodsFrom(mod, u) ==
    LET c == UTimeToSysClock(u)
    IN  SysClockToUTime([c EXCEPT !.month = IF mod = "month" THEN 1 ELSE @,
                                  !.day = IF mod \in {"month", "day"} THEN 1 ELSE @,
                                  !.hour = IF mod = "minute" THEN @ ELSE 0,
                                  !.minute = 0, !.second = 0])

\* Periods go by until the start is after now.
StartAfter(t, base, now) ==
    LET go[b \in Nat] == IF now < b + t.basetime THEN b ELSE go[UTimeAdd(b, t.mod, t.dev)]
    IN  [t EXCEPT !.tbase = go[base], !.tstart = go[base] + t.basetime]

\* RecalRTimerP.
RecalRTimerP(t, now) == IF t.bonce THEN t ELSE StartAfter(t, PeriodsFrom(t.mod, now), now)

\* RTimerProc for one timer: one that is more than an hour late begins anew, a
\* timer that runs once is stopped.
RTimerStep(t, now) ==
    CASE t = Empty \/ now < t.tstart -> t
      [] t # Empty /\ now >= t.tstart /\ t.bonce -> Empty
      [] t # Empty /\ now - t.tstart > 3600 /\ ~t.bonce -> RecalRTimerP(t, now)
      [] OTHER -> StartAfter(t, t.tbase, now)

(***************************************************************************)
(* The threads.                                                            *)
(***************************************************************************)
Idle == [pc |-> "idle", val |-> 0, new |-> 0, before |-> 0, call |-> "none"]

\* The reader changes nothing: it is followed as long as ReadInOrder speaks of it,
\* until calls overlap or the clock is set.
NoRead == [pc |-> 0]
Followed == ~overlap /\ sets = 0

ClockInit ==
    /\ os \in Instants /\ \A i \in Instants : os <= i
    /\ u0 = Word0(os) /\ u1 = Word1(os) /\ uc = os
    /\ th = [t \in {Timer, Client} |-> Idle]
    /\ rd = NoRead
    /\ rtimer = [s \in Slots |-> Empty]
    /\ sets = 0 /\ overlap = FALSE /\ had = {os}

Step(t, at, r) == th' = [th EXCEPT ![t] = [r EXCEPT !.pc = at]]

\* The clock goes on.
Advance ==
    \E i \in Instants :
        /\ i > os /\ \A j \in Instants : j <= os \/ i <= j
        /\ os' = i /\ had' = had \cup {i}
        /\ UNCHANGED <<u0, u1, uc, th, rd, rtimer, sets, overlap>>

\* A call begins: SysClockRead by the timer thread or for its own sake, or the
\* three writers of the clock: paraterm_time, paraterm_realtime, shell_settime.
Begin(t) ==
    /\ th[t].pc = "idle"
    /\ \E call \in (IF t = Timer THEN {"pass"} ELSE {"read", "set"}) :
        \E new \in (IF call = "set" THEN Instants ELSE {0}) :
            /\ call = "set" => sets < MaxSets
            /\ Step(t, "time", [Idle EXCEPT !.call = call, !.new = new])
    /\ overlap' = (overlap \/ \E o \in DOMAIN th : th[o].pc # "idle")
    /\ rd' = IF overlap' THEN NoRead ELSE rd
    /\ UNCHANGED <<os, u0, u1, uc, rtimer, sets, had>>

\* SysClockRead: time() and localtime().
ReadTime(t) ==
    /\ th[t].pc = "time"
    /\ Step(t, "word0", [th[t] EXCEPT !.val = os])
    /\ UNCHANGED <<os, u0, u1, uc, rd, rtimer, sets, overlap, had>>

\* SysClockRead and SysClockSet: the two words.
WriteWord0(t) ==
    /\ th[t].pc = "word0"
    /\ u0' = Word0(th[t].val)
    /\ Step(t, "word1", th[t])
    /\ UNCHANGED <<os, u1, uc, rd, rtimer, sets, overlap, had>>

WriteWord1(t) ==
    /\ th[t].pc = "word1"
    /\ u1' = Word1(th[t].val)
    /\ IF th[t].call = "setting" THEN Step(t, "time", [th[t] EXCEPT !.call = "check"])
       ELSE Step(t, "utime", th[t])
    /\ UNCHANGED <<os, u0, uc, rd, rtimer, sets, overlap, had>>

\* Mutant: the hour is left out.
NewUTimeNoHour == UTimeOf([u0 EXCEPT !.hour = 0], u1)

\* SysClockRead: UTimeCurrent is made of the words as they are now.
NewUTime == UTimeOf(u0, u1)

WriteUTime(t) ==
    /\ th[t].pc = "utime"
    /\ uc' = NewUTime
    /\ IF th[t].call = "read" THEN Step(t, "idle", Idle) ELSE Step(t, "done", th[t])
    /\ UNCHANGED <<os, u0, u1, rd, rtimer, sets, overlap, had>>

\* RTimerProc(UTimeReadCurrent()), under the mutex.
RTimerProc ==
    /\ th[Timer].pc = "done"
    /\ rtimer' = [s \in Slots |-> RTimerStep(rtimer[s], uc)]
    /\ Step(Timer, "idle", Idle)
    /\ UNCHANGED <<os, u0, u1, uc, rd, sets, overlap, had>>

\* The time before is kept and SysClockSet begins: settimeofday.
SetTimeOfDay ==
    /\ th[Client].pc = "done" /\ th[Client].call = "set"
    /\ os' = th[Client].new /\ had' = had \cup {th[Client].new}
    /\ sets' = sets + 1
    /\ Step(Client, "setutime", [th[Client] EXCEPT !.before = uc, !.val = th[Client].new, !.call = "setting"])
    /\ rd' = NoRead
    /\ UNCHANGED <<u0, u1, uc, rtimer, overlap>>

SetUTime ==
    /\ th[Client].pc = "setutime"
    /\ uc' = th[Client].val
    /\ Step(Client, "word0", th[Client])
    /\ UNCHANGED <<os, u0, u1, rd, rtimer, sets, overlap, had>>

Apart(i, j) == IF i < j THEN j - i ELSE i - j

\* Mutant: the timers are calculated anew only when the clock went forward.
FinishSetForward ==
    /\ th[Client].pc = "done" /\ th[Client].call = "check"
    /\ rtimer' = IF th[Client].new - th[Client].before <= 300 THEN rtimer
                 ELSE [s \in Slots |-> IF rtimer[s] = Empty THEN Empty ELSE RecalRTimerP(rtimer[s], uc)]
    /\ Step(Client, "idle", Idle)
    /\ UNCHANGED <<os, u0, u1, uc, rd, sets, overlap, had>>

\* SysRecalAllRTimer, when the clock was off by more than five minutes.
FinishSet ==
    /\ th[Client].pc = "done" /\ th[Client].call = "check"
    /\ rtimer' = IF Apart(th[Client].new, th[Client].before) <= 300 THEN rtimer
                 ELSE [s \in Slots |-> IF rtimer[s] = Empty THEN Empty ELSE RecalRTimerP(rtimer[s], uc)]
    /\ Step(Client, "idle", Idle)
    /\ UNCHANGED <<os, u0, u1, uc, rd, sets, overlap, had>>

(***************************************************************************)
(* Timers come and go.                                                     *)
(***************************************************************************)
\* SysAddRTimer with curtime UTimeReadCurrent(): the first free slot, or none.
SysAddRTimer(conf) ==
    /\ conf.tdev # 0
    /\ \E s \in Slots :
        /\ rtimer[s] = Empty /\ \A r \in 0 .. s - 1 : rtimer[r] # Empty
        /\ rtimer' = [rtimer EXCEPT ![s] =
              IF conf.bonce
              THEN [bonce |-> TRUE, dev |-> 1, mod |-> "hour", basetime |-> 0, tbase |-> uc, tstart |-> uc]
              ELSE RecalRTimerP([bonce |-> FALSE, dev |-> conf.tdev, mod |-> conf.tmod,
                                 basetime |-> RTimerGetBase(conf.tmod, conf.basetime),
                                 tbase |-> 0, tstart |-> 0], uc)]
    /\ UNCHANGED <<os, u0, u1, uc, th, rd, sets, overlap, had>>

\* SysStopRTimer with the id of a timer that is in use.
SysStopRTimer(s) ==
    /\ rtimer[s] # Empty
    /\ rtimer' = [rtimer EXCEPT ![s] = Empty]
    /\ UNCHANGED <<os, u0, u1, uc, th, rd, sets, overlap, had>>

(***************************************************************************)
(* SysClockReadCurrent.                                                    *)
(***************************************************************************)
\* Mutant: the second reading is taken whatever the first was.
AgreeAlways(r, w) == TRUE

\* The do loop ends: both readings have the same first word and minute.
Agree(r, w) == r.a0 = r.b0 /\ r.a1.minute = w.minute

BeginRead ==
    /\ rd.pc = 0 /\ Followed
    /\ rd' = [pc |-> 1, from |-> uc, a0 |-> u0]
    /\ UNCHANGED <<os, u0, u1, uc, th, rtimer, sets, overlap, had>>

\* The second and third of the four words; the fourth ends the round.
ReadWord ==
    /\ \/ rd.pc = 1 /\ rd' = [pc |-> 2, from |-> rd.from, a0 |-> rd.a0, a1 |-> u1]
       \/ rd.pc = 2 /\ rd' = [pc |-> 3, from |-> rd.from, a0 |-> rd.a0, a1 |-> rd.a1, b0 |-> u0]
       \/ rd.pc = 3 /\ Agree(rd, u1) /\ rd' = [pc |-> 4, from |-> rd.from, got |-> UTimeOf(rd.b0, u1)]
       \/ rd.pc = 3 /\ ~Agree(rd, u1) /\ rd' = [pc |-> 5, from |-> rd.from]
       \/ rd.pc = 5 /\ rd' = [pc |-> 1, from |-> rd.from, a0 |-> u0]
       \/ rd.pc = 4 /\ rd' = NoRead
    /\ UNCHANGED <<os, u0, u1, uc, th, rtimer, sets, overlap, had>>

ClockNext ==
    \/ Advance
    \/ \E t \in {Timer, Client} :
            Begin(t) \/ ReadTime(t) \/ WriteWord0(t) \/ WriteWord1(t) \/ WriteUTime(t)
    \/ RTimerProc \/ SetTimeOfDay \/ SetUTime \/ FinishSet
    \/ \E c \in Confs : SysAddRTimer(c)
    \/ \E s \in Slots : SysStopRTimer(s)
    \/ BeginRead \/ ReadWord

ClockSpec == ClockInit /\ [][ClockNext]_clockVars

(***************************************************************************)
(* Properties.                                                             *)
(***************************************************************************)
\* While the clock is only read and no two calls of SysClockRead overlap, the time
\* SysClockReadCurrent returns is less than an hour after the clock (the loop keeps
\* a new minute from being joined to an old hour, not an old minute to a new hour),
\* and not before what UTimeReadCurrent would have returned when it began; unless
\* the loop takes an hour: then the minute may be the same again, and the second
\* is not compared.
ReadInOrder ==
    rd.pc = 4 =>
        /\ rd.from <= rd.got \/ (rd.from < rd.got + 60 /\ os > rd.from + 3540)
        /\ rd.got < os + 3600

\* However calls overlap, the cached time is within an hour of one the clock has
\* shown: the hour is in the first word, so two writers can mix up no more.
WithinAnHour == \E i \in had : Apart(uc, i) < 3600

Longest(t) == CASE t.mod = "minute" -> 60 * t.dev
                [] t.mod = "hour" -> 3600 * t.dev
                [] t.mod = "day" -> Day * t.dev
                [] t.mod = "month" -> 31 * Day * t.dev

\* The first start may be a base time away that is longer than the period: SysAddRTimer
\* does not compare them.
Furthest(t) == IF t.basetime > Longest(t) THEN t.basetime ELSE Longest(t)

AtPeriodStart(t) ==
    CASE t.mod = "minute" -> t.tbase % 60 = 0
      [] t.mod = "hour" -> t.tbase % 3600 = 0
      [] t.mod = "day" -> t.tbase % Day = 0
      [] t.mod = "month" -> t.tbase % Day = 0 /\ UTimeToSysClock(t.tbase).day = 1

\* As long as no two calls overlapped, a timer that repeats is at most one period
\* away (or its base time, if that is longer), and five minutes for each time the
\* clock was set: a clock that is set back does not silence it.  It starts at its
\* base time after the beginning of a minute, an hour, a day or a month.
TimersDue ==
    ~overlap /\ (\A o \in DOMAIN th : th[o].pc = "idle") =>
        \A s \in Slots : rtimer[s] # Empty /\ ~rtimer[s].bonce =>
            LET t == rtimer[s]
            IN  /\ t.tstart <= uc + Furthest(t) + 300 * sets
                /\ t.tstart = t.tbase + t.basetime /\ AtPeriodStart(t)
=============================================================================
