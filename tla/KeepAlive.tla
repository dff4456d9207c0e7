----------------------------- MODULE KeepAlive ------------------------------
(***************************************************************************)
(* When the server link is tested or dialled again (uplink/keepalive.c).   *)
(*                                                                         *)
(* EtherTask calls KeepAliveProc every 100 ms.  It counts the calls and    *)
(* returns 0 when EtherKeepAlive is due: in long periods (cnt_max > Long)  *)
(* after the dialling time while the line is off, otherwise after cnt_max  *)
(* calls, and when no sensible period is set (cnt_max < Short) after a     *)
(* fixed time.  The period is read anew from the parameters at each        *)
(* restart of the count.                                                   *)
(***************************************************************************)
EXTENDS Integers

CONSTANTS
    Cycles,             \* values of GetCycKeepAlive, 600 * keepalive_cyc
    DialTimes,          \* values of cnt_timedail, after its default is put in
    MaxRetry,           \* cnt_maxretry
    Short, Long,        \* 100 and 1800
    TIMEOUT_KEEPALIVE, TIMEOUT_GNOWAIT  \* 600 and 600

ASSUME KeepAliveAssumption ==
    /\ Cycles \subseteq Nat /\ Cycles # {}
    /\ DialTimes \subseteq Nat /\ DialTimes # {}
    /\ MaxRetry \in Nat \ {0}
    /\ Short \in Nat /\ Long \in Nat /\ Short <= Long
    /\ TIMEOUT_KEEPALIVE \in Nat /\ TIMEOUT_GNOWAIT \in Nat

VARIABLES
    cyc, timedail,                             \* the parameters
    cnt, cnt_max, cnt_getcyc, cnt_retry,       \* keepalive_stat
    SvrCommLineState,                          \* 0 off, 1 on
    pc,                                        \* "poll", or "due": EtherKeepAlive
    \* Observation:
    gap                                        \* calls since the count was restarted

paraVars == <<cyc, timedail>>
statVars == <<cnt, cnt_max, cnt_getcyc, cnt_retry>>
vars == <<paraVars, statVars, SvrCommLineState, pc, gap>>

\* The counters and the line stay in range.
TypeOK ==
    /\ cyc \in Cycles /\ timedail \in DialTimes
    /\ cnt \in Nat /\ cnt_getcyc \in Nat /\ cnt_retry \in Nat
    /\ cnt_max \in Cycles
    /\ SvrCommLineState \in {0, 1}
    /\ pc \in {"poll", "due"}
    /\ gap \in Nat

RestartCount ==
    /\ cnt' = 0 /\ cnt_getcyc' = 0
    /\ cnt_max' = cyc

\* SvrCommTask clears the state, EtherTask calls EtherKeepAlive at once.
Init ==
    /\ cyc \in Cycles /\ timedail \in DialTimes
    /\ cnt = 0 /\ cnt_getcyc = 0 /\ cnt_retry = 0 /\ cnt_max = cyc
    /\ SvrCommLineState = 0
    /\ pc = "due"
    /\ gap = 0

\* ClearKeepAlive, after a link test that the server answered.
ClearKeepAlive ==
    /\ pc = "due" /\ SvrCommLineState = 1
    /\ RestartCount /\ cnt_retry' = 0
    /\ pc' = "poll" /\ gap' = 0
    /\ UNCHANGED <<paraVars, SvrCommLineState>>

\* The other ends of EtherKeepAlive: a log-on that worked clears cnt_retry
\* (SetKeepAlive), a failure leaves the line off, a command from the server
\* leaves it on.  Counting failures is commented out, so cnt_retry stays 0.
KeepAliveEnd(on) ==
    /\ pc = "due"
    /\ SvrCommLineState' = on
    /\ cnt_retry' = IF on = 1 THEN 0 ELSE cnt_retry
    /\ pc' = "poll" /\ gap' = 0
    /\ UNCHANGED <<paraVars, cnt, cnt_max, cnt_getcyc>>

Dialling == SvrCommLineState = 0 /\ cnt_max > Long /\ cnt_retry < MaxRetry

\* KeepAliveProc returns 0.
Due ==
    \/ Dialling /\ cnt + 1 > timedail
    \/ ~Dialling /\ cnt_max >= Short /\ cnt + 1 > cnt_max
    \/ ~Dialling /\ cnt_max < Short /\ cnt_getcyc + 1 > TIMEOUT_KEEPALIVE

KeepAliveProcDue ==
    /\ pc = "poll" /\ Due
    /\ IF ~Dialling /\ cnt_max < Short
       THEN cnt_getcyc' = 0 /\ cnt_max' = cyc /\ UNCHANGED cnt
       ELSE RestartCount
    /\ pc' = "due" /\ gap' = 0
    /\ UNCHANGED <<paraVars, cnt_retry, SvrCommLineState>>

\* Mutant: the count is lost while the line is off.
CountPollOnlyOn ==
    /\ cnt' = IF SvrCommLineState = 0 THEN 0 ELSE cnt + 1
    /\ UNCHANGED cnt_getcyc

CountPoll ==
    IF ~Dialling /\ cnt_max < Short
    THEN cnt_getcyc' = cnt_getcyc + 1 /\ UNCHANGED cnt
    ELSE cnt' = cnt + 1 /\ UNCHANGED cnt_getcyc

KeepAliveProcNot ==
    /\ pc = "poll" /\ ~Due
    /\ CountPoll
    /\ gap' = gap + 1
    /\ UNCHANGED <<paraVars, cnt_max, cnt_retry, SvrCommLineState, pc>>

\* RefreshKeepAlive, when a note waits to be sent on a line that has been idle.
RefreshKeepAlive ==
    /\ pc = "poll" /\ SvrCommLineState = 1 /\ cnt >= TIMEOUT_GNOWAIT
    /\ RestartCount
    /\ pc' = "due" /\ gap' = 0
    /\ UNCHANGED <<paraVars, cnt_retry, SvrCommLineState>>

\* EtherGetChar or EtherRawSend finds the connection broken.
LineBreaks ==
    /\ SvrCommLineState = 1
    /\ SvrCommLineState' = 0
    /\ UNCHANGED <<paraVars, statVars, pc, gap>>

\* The parameters are changed.
SetParam ==
    /\ cyc' \in Cycles /\ timedail' \in DialTimes
    /\ UNCHANGED <<statVars, SvrCommLineState, pc, gap>>

\* The controller is switched off and on: SvrCommTask starts from the beginning.
PowerCycle ==
    /\ cnt' = 0 /\ cnt_getcyc' = 0 /\ cnt_retry' = 0 /\ cnt_max' = cyc
    /\ SvrCommLineState' = 0
    /\ pc' = "due" /\ gap' = 0
    /\ UNCHANGED paraVars

Next ==
    \/ ClearKeepAlive \/ (\E on \in {0, 1} : KeepAliveEnd(on))
    \/ KeepAliveProcDue \/ KeepAliveProcNot \/ RefreshKeepAlive
    \/ LineBreaks \/ SetParam \/ PowerCycle

Spec == Init /\ [][Next]_vars

(***************************************************************************)
(* Properties.                                                             *)
(***************************************************************************)
\* EtherKeepAlive is never put off: whatever happens to the line and to the
\* parameters in between, the number of calls since the last restart of the
\* count stays within the period in force or a dialling time, and within the
\* fixed time when no sensible period is set.
NeverPutOff ==
    /\ cnt_max >= Short => gap <= cnt_max \/ \E d \in DialTimes : gap <= d
    /\ cnt_max < Short => gap <= TIMEOUT_KEEPALIVE

\* What makes NeverPutOff inductive: the counter of the branch in force counts
\* the calls, the other one is 0, and both are 0 while EtherKeepAlive runs.
CountsTheGap ==
    /\ cnt_max >= Short => gap = cnt /\ cnt_getcyc = 0
    /\ cnt_max < Short => gap = cnt_getcyc /\ cnt = 0
    /\ pc = "due" => cnt = 0 /\ cnt_getcyc = 0
=============================================================================
