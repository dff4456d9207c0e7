---------------------------- MODULE ShellSession ----------------------------
(***************************************************************************)
(* The log-on session of the Ethernet debug shell (debug/ethshell.c),      *)
(* composed with the relative timers it uses for its idle time-out         *)
(* (CTimer) and with the thread that drives them (SysTimerTask, TickBegin).*)
(*                                                                         *)
(* Two threads share LogonOk, TimerIdEthShell and LogInterface without any *)
(* lock: the shell thread (EthShellTask) and the timer thread, which runs  *)
(* the callback CTimerEthShell while it holds CTimerMutex.  Every access   *)
(* to one of these variables is a step of its own.                         *)
(***************************************************************************)
EXTENDS CTimer

CONSTANTS
    LogonDev,   \* 60*30, the interval SysAddCTimer gets at log-on
    CmdDev,     \* 60, the interval it gets at a later command
    OtherDev    \* the interval of a timer of another component

ASSUME ShellAssumption == LogonDev \in Devs /\ CmdDev \in Devs /\ OtherDev \in Devs

VARIABLES
    LogonOk,          \* 1 while a user is logged on
    TimerIdEthShell,  \* handle of the idle timer, or -1
    LogInterface,     \* 0 stdio, 1 Ethernet shell
    spc,              \* where the shell thread is
    cmd,              \* the line being processed: "logon", "exit" or "other"
    ret,              \* the value SysAddCTimer returned
    cbpc,             \* where the timer thread is in CTimerEthShell
    mine              \* stamps of the timers whose proc is CTimerEthShell

sessVars == <<LogonOk, TimerIdEthShell, LogInterface>>
shellVars == <<spc, cmd, ret>>
svars == <<vars, sessVars, shellVars, cbpc, mine>>

SInit ==
    /\ Init
    /\ LogonOk = 0 /\ TimerIdEthShell = -1 /\ LogInterface = 0
    /\ spc = "read" /\ cmd = "other" /\ ret = -1
    /\ cbpc = "off"
    /\ mine = {}

(***************************************************************************)
(* EthShellTask.                                                           *)
(***************************************************************************)
\* A line arrives: the log-on string while nobody is logged on, or a known
\* command while somebody is.  Every other line is ignored.
ReadLine(c) ==
    /\ spc = "read"
    /\ c = "logon" <=> LogonOk = 0
    /\ LogonOk' = 1
    /\ spc' = "itf" /\ cmd' = c
    /\ UNCHANGED <<vars, TimerIdEthShell, LogInterface, ret, cbpc, mine>>

SetLogInterface ==
    /\ spc = "itf"
    /\ LogInterface' = 1
    /\ spc' = "test"
    /\ UNCHANGED <<vars, LogonOk, TimerIdEthShell, cmd, ret, cbpc, mine>>

TestTimerId ==
    /\ spc = "test"
    /\ spc' = IF TimerIdEthShell < 0 THEN "add" ELSE "clear"
    /\ UNCHANGED <<vars, sessVars, cmd, ret, cbpc, mine>>

AfterTimer == IF cmd = "logon" THEN "read" ELSE "run"

Full == \A i \in Slot : flag[i] # EMPTY

AddIdleTimer ==
    /\ spc = "add" /\ pc = "idle"
    /\ IF Full
       THEN ret' = -1 /\ UNCHANGED <<vars, mine>>
       ELSE /\ SysAddCTimer(IF cmd = "logon" THEN LogonDev ELSE CmdDev)
            /\ \E i \in Slot : IsFirstEmpty(i) /\ ret' = TimerId(i)
            /\ mine' = mine \cup {CTimerIdAddup}
    /\ spc' = "set"
    /\ UNCHANGED <<sessVars, cmd, cbpc>>

\* Mutant: the handle is dropped.
StoreTimerIdDropped ==
    /\ spc = "set"
    /\ spc' = AfterTimer
    /\ UNCHANGED <<vars, sessVars, cmd, ret, cbpc, mine>>

StoreTimerId ==
    /\ spc = "set"
    /\ TimerIdEthShell' = ret
    /\ spc' = AfterTimer
    /\ UNCHANGED <<vars, LogonOk, LogInterface, cmd, ret, cbpc, mine>>

\* SysStopCTimer and SysClearCTimer return without effect for an id that is
\* out of range or designates no timer.
NoSuchTimer(h) == \A i \in Slot : ~Designates(h, i)

ClearIdleTimer ==
    /\ spc = "clear" /\ pc = "idle"
    /\ IF NoSuchTimer(TimerIdEthShell) THEN UNCHANGED vars ELSE SysClearCTimer(TimerIdEthShell)
    /\ spc' = AfterTimer
    /\ UNCHANGED <<sessVars, cmd, ret, cbpc, mine>>

\* Only shell_exit touches the session; other commands are stuttering here.
RunCommand ==
    /\ spc = "run"
    /\ spc' = CASE cmd # "exit" -> "read"
                [] cmd = "exit" /\ LogInterface = 1 -> "quit"
                [] cmd = "exit" /\ LogInterface # 1 -> "exit"
    /\ UNCHANGED <<vars, sessVars, cmd, ret, cbpc, mine>>

EthShellQuit ==
    /\ spc = "quit"
    /\ spc' = IF TimerIdEthShell >= 0 THEN "stop" ELSE "logoff"
    /\ UNCHANGED <<vars, sessVars, cmd, ret, cbpc, mine>>

\* Mutant: the timer is forgotten without being stopped.
QuitStopTimerNot ==
    /\ spc = "stop" /\ pc = "idle"
    /\ spc' = "forget"
    /\ UNCHANGED <<vars, sessVars, cmd, ret, cbpc, mine>>

QuitStopTimer ==
    /\ spc = "stop" /\ pc = "idle"
    /\ IF NoSuchTimer(TimerIdEthShell) THEN UNCHANGED vars ELSE SysStopCTimer(TimerIdEthShell)
    /\ spc' = "forget"
    /\ UNCHANGED <<sessVars, cmd, ret, cbpc, mine>>

QuitForgetTimer ==
    /\ spc = "forget"
    /\ TimerIdEthShell' = -1
    /\ spc' = "logoff"
    /\ UNCHANGED <<vars, LogonOk, LogInterface, cmd, ret, cbpc, mine>>

QuitLogoff ==
    /\ spc = "logoff"
    /\ LogonOk' = 0
    /\ spc' = "exit"
    /\ UNCHANGED <<vars, TimerIdEthShell, LogInterface, cmd, ret, cbpc, mine>>

ShellExitEnd ==
    /\ spc = "exit"
    /\ LogInterface' = 0
    /\ spc' = "read"
    /\ UNCHANGED <<vars, LogonOk, TimerIdEthShell, cmd, ret, cbpc, mine>>

Shell ==
    \/ \E c \in {"logon", "exit", "other"} : ReadLine(c)
    \/ SetLogInterface \/ TestTimerId \/ AddIdleTimer \/ StoreTimerId
    \/ ClearIdleTimer \/ RunCommand
    \/ EthShellQuit \/ QuitStopTimer \/ QuitForgetTimer \/ QuitLogoff \/ ShellExitEnd

(***************************************************************************)
(* The timer thread.                                                       *)
(***************************************************************************)
\* Another component's timer: it competes for the blocks and is never the
\* session's.
OtherAdd ==
    /\ SysAddCTimer(OtherDev)
    /\ UNCHANGED <<sessVars, shellVars, cbpc, mine>>

\* The store of SysAddCTimer's result takes microseconds, the intervals are
\* 60 s and more: the new timer does not run out before the store.
StoreIsPrompt ==
    spc = "set" => \A i \in Slot : Designates(ret, i) => cnt[i] + 1 < dev[i]

TickBegin ==
    /\ StoreIsPrompt
    /\ CTimerProcBegin
    /\ UNCHANGED <<sessVars, shellVars, cbpc, mine>>

TickStep ==
    /\ cbpc = "off"
    /\ CTimerProcStep
    /\ cbpc' = IF pc' = "call" /\ stamp[p] \in mine THEN "forget" ELSE "off"
    /\ UNCHANGED <<sessVars, shellVars, mine>>

\* Mutant: the callback leaves the handle in place.
CTimerEthShellForgetNot ==
    /\ cbpc = "forget"
    /\ cbpc' = "itf"
    /\ UNCHANGED <<vars, sessVars, shellVars, mine>>

\* CTimerEthShell, one assignment at a time.
CTimerEthShellForget ==
    /\ cbpc = "forget"
    /\ TimerIdEthShell' = -1
    /\ cbpc' = "itf"
    /\ UNCHANGED <<vars, LogonOk, LogInterface, shellVars, mine>>

CTimerEthShellItf ==
    /\ cbpc = "itf"
    /\ LogInterface' = 0
    /\ cbpc' = "logoff"
    /\ UNCHANGED <<vars, LogonOk, TimerIdEthShell, shellVars, mine>>

CTimerEthShellLogoff ==
    /\ cbpc = "logoff"
    /\ LogonOk' = 0
    /\ cbpc' = "return"
    /\ UNCHANGED <<vars, TimerIdEthShell, LogInterface, shellVars, mine>>

\* CTimerEthShell returns 1; another timer's callback returns what it likes.
TickReturn(rc) ==
    /\ cbpc = "return" => rc = 1
    /\ cbpc \in {"off", "return"}
    /\ CTimerProcReturn(rc)
    /\ cbpc' = "off"
    /\ UNCHANGED <<sessVars, shellVars, mine>>

TickEnd ==
    /\ CTimerProcEnd
    /\ UNCHANGED <<sessVars, shellVars, cbpc, mine>>

InTick ==
    \/ TickStep \/ CTimerEthShellForget \/ CTimerEthShellItf \/ CTimerEthShellLogoff
    \/ (\E rc \in {0, 1} : TickReturn(rc))
    \/ TickEnd

SNext == Shell \/ OtherAdd \/ TickBegin \/ InTick

\* SysTimerTask may call CTimerProc at any time or never; a call that has begun
\* runs on.
SSpec == SInit /\ [][SNext]_svars /\ WF_svars(InTick)

(***************************************************************************)
(* Properties.                                                             *)
(***************************************************************************)
Rest == spc = "read" /\ pc # "call"

\* Whenever the shell waits for a line and no callback runs, a stored handle
\* designates a running idle timer: the unlocked races between CTimerEthShell,
\* EthShellTask and EthShellQuit never leave a dead handle behind, which would
\* turn every later SysClearCTimer into a no-op and the time-out off for good.
NoDeadHandle ==
    Rest /\ TimerIdEthShell >= 0 =>
        \E i \in Slot : Designates(TimerIdEthShell, i) /\ stamp[i] \in mine

\* At most one idle timer runs: neither a command racing the time-out nor
\* "exit" leaves a second timer behind that would log the next user off early.
OneIdleTimer ==
    \A i, j \in Valid : stamp[i] \in mine /\ stamp[j] \in mine => i = j

\* While the shell waits, a session without idle timer is one whose
\* SysAddCTimer failed (the pool was full); it is armed at the next command.
SessionIsGuarded ==
    Rest /\ LogonOk = 1 /\ TimerIdEthShell = -1 => ret = -1

\* If SysTimerTask keeps calling CTimerProc, a session with an idle timer does not
\* stay idle and logged on for ever.  (The premise is the code's own: as it is
\* written, SysTimerTask never reads SysJiffies anew and calls at most once.)
IdleSessionTimesOut ==
    []<><<TickBegin>>_svars => []<>~(spc = "read" /\ LogonOk = 1 /\ TimerIdEthShell >= 0)
=============================================================================
