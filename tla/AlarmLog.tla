------------------------------ MODULE AlarmLog ------------------------------
(***************************************************************************)
(* The play records themselves (monitor/alarm.c), their files, and the     *)
(* threads that touch them: the boot sequence (MonitorTaskInit), the       *)
(* thread that opens the record of this run (Jilushijian), the thread that *)
(* keeps it up to date while music plays (GengxinBofang) and the thread    *)
(* that restarts the box (SysRestart).                                     *)
(*                                                                         *)
(* A record is abstracted to the boot in which its start time was taken; 0 *)
(* is a record of zeros.  The end time is refreshed with every update and  *)
(* no property here depends on it.  AlarmRing has the cursors as a ring    *)
(* with every operation on them; here only cur and playstate matter.       *)
(***************************************************************************)
EXTENDS Integers

CONSTANTS
    MaxAlarm,  \* MAX_ALARM
    PerFile,   \* ALMNUM_PERFILE
    CharVals,  \* number of values of unsigned char
    MaxBoots   \* bound: how often the box starts

ASSUME AlarmLogAssumption ==
    /\ PerFile \in Nat \ {0} /\ CharVals \in Nat \ {0} /\ MaxBoots \in Nat
    /\ MaxAlarm \in Nat \ {0} /\ MaxAlarm % PerFile = 0

VARIABLES
    cache,      \* AlarmCache
    cur, playstate,   \* RunStateG.alarm
    file,       \* contents of i<n>.alm, as a function of n
    rsdb,       \* contents of runstate.db
    rsWriter,   \* the thread whose fopen created the present runstate.db
    LockIdAlarm,  \* -1 until AlarmInit has registered the lock
    lock,       \* holder of the alarm lock
    year17,     \* the clock shows 2017
    mpc,        \* main thread: "clear", "load", "register", "up"
    lpc, lptr,  \* Jilushijian, and the pointer it passes to MakeAlarmG
    upc,        \* GengxinBofang
    rpc,        \* SysRestart
    sum,        \* CRC a thread has taken of runstate.db's new contents
    \* Observation:
    boots,      \* number of the present boot
    durable     \* for each slot the record last written to its file

memVars == <<cache, cur, playstate>>
diskVars == <<file, rsdb, rsWriter>>
lockVars == <<LockIdAlarm, lock>>
pcVars == <<mpc, lpc, lptr, upc, rpc, sum>>
vars == <<memVars, diskVars, lockVars, year17, pcVars, boots, durable>>

Slot == 0 .. MaxAlarm - 1
Files == 0 .. (MaxAlarm \div PerFile) - 1
InFile == 0 .. PerFile - 1
NoFile == [j \in InFile |-> -1]
NoDb == [cur |-> 0, playstate |-> -1]
RunState == [cur |-> cur, playstate |-> playstate]

(***************************************************************************)
(* Files.  SaveBinFile takes the CRC of the buffer, removes the old file   *)
(* and creates an empty one (SaveBegin), then copies the buffer out and    *)
(* closes (SaveEnd).  ReadBinFile rejects a file that is not complete or   *)
(* whose CRC does not match.                                               *)
(***************************************************************************)
RunStateSaveBegin(t) ==
    /\ sum' = [sum EXCEPT ![t] = RunState]
    /\ rsdb' = NoDb
    /\ rsWriter' = t

\* A thread whose file another thread has removed since writes to nowhere.
RunStateSaveEnd(t) ==
    /\ rsdb' = IF rsWriter # t THEN rsdb
               ELSE IF sum[t] = RunState THEN RunState ELSE NoDb
    /\ UNCHANGED <<sum, rsWriter>>

(***************************************************************************)
(* A start of the program: RunStateInit, then Jilushijian is created and   *)
(* runs beside the rest of MonitorTaskInit.                                *)
(***************************************************************************)
StartWith(rs, y) ==
    /\ cur' = IF rs = NoDb THEN 0 ELSE rs.cur
    /\ playstate' = IF rs = NoDb THEN 0 ELSE rs.playstate
    /\ cache' = [i \in Slot |-> 0]
    /\ LockIdAlarm' = -1 /\ lock' = "free"
    /\ rsWriter' = "none" /\ sum' = [t \in {"log", "restart"} |-> NoDb]
    /\ mpc' = "clear" /\ lpc' = "make" /\ lptr' = 0 /\ upc' = "idle" /\ rpc' = "off"
    /\ year17' = y

Init ==
    /\ cache = [i \in Slot |-> 0] /\ cur = 0 /\ playstate = 0
    /\ file = [f \in Files |-> NoFile] /\ rsdb = NoDb /\ rsWriter = "none"
    /\ LockIdAlarm = -1 /\ lock = "free"
    /\ year17 \in BOOLEAN
    /\ mpc = "clear" /\ lpc = "make" /\ lptr = 0 /\ upc = "idle" /\ rpc = "off"
    /\ sum = [t \in {"log", "restart"} |-> NoDb]
    /\ boots = 1 /\ durable = [i \in Slot |-> 0]

\* AlarmInit: memset, then each file over its part of the cache.
AlarmInitClear ==
    /\ mpc = "clear"
    /\ cache' = [i \in Slot |-> 0]
    /\ mpc' = "load"
    /\ UNCHANGED <<cur, playstate, diskVars, lockVars, year17, lpc, lptr, upc, rpc, sum, boots, durable>>

FromFile(i) == file[i \div PerFile][i % PerFile]

AlarmInitLoad ==
    /\ mpc = "load"
    /\ cache' = [i \in Slot |-> IF file[i \div PerFile] = NoFile THEN cache[i] ELSE FromFile(i)]
    /\ mpc' = "register"
    /\ UNCHANGED <<cur, playstate, diskVars, lockVars, year17, lpc, lptr, upc, rpc, sum, boots, durable>>

\* RegisterSysLock; MonitorTaskInit then creates GengxinBofang.
AlarmInitRegister ==
    /\ mpc = "register"
    /\ LockIdAlarm' = 0
    /\ mpc' = "up"
    /\ UNCHANGED <<memVars, diskVars, lock, year17, lpc, lptr, upc, rpc, sum, boots, durable>>

(***************************************************************************)
(* Jilushijian: MakeAlarmG(GetCurrentAlarm()), without the alarm lock.     *)
(***************************************************************************)
\* RunStateG.alarm.cur & ALARM_BASEMASK, where the mask is ~(PerFile - 1) cut
\* down to unsigned char.
IdxBase(c) == PerFile * ((c % CharVals) \div PerFile)

MakeAlarmGOpen ==
    /\ lpc = "make" /\ year17
    /\ lptr' = IdxBase(cur)
    /\ cur' = IF playstate = 1 THEN (cur + 1) % MaxAlarm ELSE cur
    /\ playstate' = 1
    /\ lpc' = "stamp"
    /\ UNCHANGED <<cache, diskVars, lockVars, year17, mpc, upc, rpc, sum, boots, durable>>

MakeAlarmGNoYear ==
    /\ lpc = "make" /\ ~year17
    /\ lpc' = "none"
    /\ UNCHANGED <<memVars, diskVars, lockVars, year17, mpc, lptr, upc, rpc, sum, boots, durable>>

MakeAlarmGStamp ==
    /\ lpc = "stamp"
    /\ cache' = [cache EXCEPT ![lptr] = boots]
    /\ lpc' = "save"
    /\ UNCHANGED <<cur, playstate, diskVars, lockVars, year17, mpc, lptr, upc, rpc, sum, boots, durable>>

MakeAlarmGSaveBegin ==
    /\ lpc = "save"
    /\ RunStateSaveBegin("log")
    /\ lpc' = "write"
    /\ UNCHANGED <<memVars, file, lockVars, year17, mpc, lptr, upc, rpc, boots, durable>>

MakeAlarmGSaveEnd ==
    /\ lpc = "write"
    /\ RunStateSaveEnd("log")
    /\ lpc' = "done"
    /\ UNCHANGED <<memVars, file, lockVars, year17, mpc, lptr, upc, rpc, boots, durable>>

(***************************************************************************)
(* GengxinBofang: UpdateAlarm(GetCurrentAlarm()) while music plays.        *)
(***************************************************************************)
\* The first update comes six sleeps after the start, when Jilushijian, which
\* never sleeps, is over.
LogIsOver == lpc \in {"done", "none"}

UpdateAlarmLock ==
    /\ mpc = "up" /\ upc = "idle" /\ LogIsOver
    /\ lock = "free" /\ lock' = "update"
    /\ upc' = "test"
    /\ UNCHANGED <<memVars, diskVars, LockIdAlarm, year17, mpc, lpc, lptr, rpc, sum, boots, durable>>

\* The early return for a wrong year does not release the lock.
UpdateAlarmTest ==
    /\ upc = "test"
    /\ upc' = IF year17 THEN "copy" ELSE "idle"
    /\ UNCHANGED <<memVars, diskVars, lockVars, year17, mpc, lpc, lptr, rpc, sum, boots, durable>>

\* Mutant: the record goes into the slot after cur.
UpdatedSlotNext == (cur + 1) % MaxAlarm

UpdatedSlot == cur

UpdateAlarmCopy ==
    /\ upc = "copy"
    /\ cache' = [cache EXCEPT ![UpdatedSlot] = cache[IdxBase(cur)]]
    /\ upc' = "save"
    /\ UNCHANGED <<cur, playstate, diskVars, lockVars, year17, mpc, lpc, lptr, rpc, sum, boots, durable>>

UpdateAlarmSaveBegin ==
    /\ upc = "save"
    /\ file' = [file EXCEPT ![cur \div PerFile] = NoFile]
    /\ durable' = [i \in Slot |-> IF i \div PerFile = cur \div PerFile THEN 0 ELSE durable[i]]
    /\ upc' = "write"
    /\ UNCHANGED <<memVars, rsdb, rsWriter, lockVars, year17, mpc, lpc, lptr, rpc, sum, boots>>

\* The part of the cache that is saved starts at IdxBase(cur).
UpdateAlarmSaveEnd ==
    /\ upc = "write"
    /\ file' = [file EXCEPT ![cur \div PerFile] = [j \in InFile |-> cache[IdxBase(cur) + j]]]
    /\ durable' = [i \in Slot |-> IF i \div PerFile = cur \div PerFile THEN cache[i] ELSE durable[i]]
    /\ upc' = "unlock"
    /\ UNCHANGED <<memVars, rsdb, rsWriter, lockVars, year17, mpc, lpc, lptr, rpc, sum, boots>>

\* Mutant: the lock is kept.
UpdateAlarmUnlockNot ==
    /\ upc = "unlock"
    /\ upc' = "idle"
    /\ UNCHANGED <<memVars, diskVars, lockVars, year17, mpc, lpc, lptr, rpc, sum, boots, durable>>

UpdateAlarmUnlock ==
    /\ upc = "unlock"
    /\ lock' = "free"
    /\ upc' = "idle"
    /\ UNCHANGED <<memVars, diskVars, LockIdAlarm, year17, mpc, lpc, lptr, rpc, sum, boots, durable>>

(***************************************************************************)
(* SysRestart: SysCycleSave (which calls SaveRunState), SysLockHalt,       *)
(* reboot.  Nothing waits between the last lock and reboot.                *)
(***************************************************************************)
SysRestartCall ==
    /\ rpc = "off" /\ boots < MaxBoots
    /\ rpc' = "save"
    /\ UNCHANGED <<memVars, diskVars, lockVars, year17, mpc, lpc, lptr, upc, sum, boots, durable>>

SysCycleSaveBegin ==
    /\ rpc = "save"
    /\ RunStateSaveBegin("restart")
    /\ rpc' = "write"
    /\ UNCHANGED <<memVars, file, lockVars, year17, mpc, lpc, lptr, upc, boots, durable>>

SysCycleSaveEnd ==
    /\ rpc = "write"
    /\ RunStateSaveEnd("restart")
    /\ rpc' = "halt"
    /\ UNCHANGED <<memVars, file, lockVars, year17, mpc, lpc, lptr, upc, boots, durable>>

\* Before AlarmInit has registered the lock SysLockHalt takes none.
SysLockHalt == LockIdAlarm = -1 \/ lock = "free"

\* The clock of the next start is in the year 2017 or not.
SysReboot(y) ==
    /\ rpc = "halt" /\ SysLockHalt
    /\ StartWith(rsdb, y)
    /\ boots' = boots + 1
    /\ UNCHANGED <<file, rsdb, durable>>

(***************************************************************************)
(* The environment.                                                        *)
(***************************************************************************)
PowerCut(y) ==
    /\ boots < MaxBoots
    /\ StartWith(rsdb, y)
    /\ boots' = boots + 1
    /\ UNCHANGED <<file, rsdb, durable>>

\* Somebody sets the clock (SysClockSet, or the operating system).
SetYear ==
    /\ year17' = ~year17
    /\ UNCHANGED <<memVars, diskVars, lockVars, pcVars, boots, durable>>

MainStep == AlarmInitClear \/ AlarmInitLoad \/ AlarmInitRegister
LogStep ==
    \/ MakeAlarmGOpen \/ MakeAlarmGNoYear \/ MakeAlarmGStamp
    \/ MakeAlarmGSaveBegin \/ MakeAlarmGSaveEnd
UpdateStep ==
    \/ UpdateAlarmTest \/ UpdateAlarmCopy
    \/ UpdateAlarmSaveBegin \/ UpdateAlarmSaveEnd \/ UpdateAlarmUnlock
RestartStep == SysCycleSaveBegin \/ SysCycleSaveEnd
Reboot == \E y \in BOOLEAN : SysReboot(y)

Next ==
    \/ MainStep \/ LogStep
    \/ UpdateAlarmLock \/ UpdateStep
    \/ SysRestartCall \/ RestartStep \/ Reboot
    \/ SetYear
    \/ \E y \in BOOLEAN : PowerCut(y)

\* Threads run on once started.  GengxinBofang sleeps six seconds between two
\* updates, so a thread that waits for the lock gets it in between (SF).
Fairness ==
    /\ WF_vars(MainStep) /\ WF_vars(LogStep) /\ WF_vars(UpdateStep)
    /\ WF_vars(RestartStep) /\ SF_vars(Reboot)

Spec == Init /\ [][Next]_vars /\ Fairness

(***************************************************************************)
(* Properties.                                                             *)
(***************************************************************************)
\* The reboot of SysRestart never cuts an alarm file that is being written:
\* SysLockHalt waits for UpdateAlarm.  (Only a power cut can.)
RebootSparesAlarmFiles == [][Reboot => upc # "write"]_vars

\* What is in the cache when the start is over is, for the closed records of
\* the first file, what was last written to that file, over any number of
\* restarts and power cuts: neither Jilushijian, which runs beside AlarmInit,
\* nor the updates of later records disturb it.
ClosedRecordsKept ==
    \A i \in 1 .. PerFile - 1 :
        mpc = "up" /\ i # cur /\ upc # "write" => cache[i] = durable[i]

\* While the clock stays in 2017, SysRestart reboots the box.
RestartCompletesIn2017 == []year17 => (rpc = "save" ~> rpc = "off")

\* SysRestart reboots the box while the clock stays in 2017, and never cuts an alarm
\* file: SysLockHalt waits for UpdateAlarm, and UpdateAlarm gives the lock back.
RestartIsSafe == RebootSparesAlarmFiles /\ RestartCompletesIn2017
=============================================================================
