--------------------------- MODULE AlarmLogProofs ---------------------------
(***************************************************************************)
(* Proofs about AlarmLog, for every size of the record table and its files *)
(* and any number of starts.                                               *)
(***************************************************************************)
EXTENDS AlarmLog, TLAPS

(***************************************************************************)
(* Slots and files.                                                        *)
(***************************************************************************)
LEMMA DivMod ==
    ASSUME NEW n \in Int, NEW d \in Nat \ {0}
    PROVE  /\ n \div d \in Int /\ (n % d) \in 0 .. d - 1
           /\ n = d * (n \div d) + (n % d)
OBVIOUS

LEMMA DivSmall ==
    ASSUME NEW n \in Nat, NEW d \in Nat \ {0}
    PROVE  /\ n \div d \in Nat
           /\ n \div d = 0 <=> n < d
           /\ d * (n \div d) <= n
           /\ (n % d) <= n
<1>1. PICK q \in Int : q = n \div d
  BY DivMod
<1>2. PICK r \in 0 .. d - 1 : r = (n % d)
  BY DivMod
<1>3. n = d * q + r
  BY <1>1, <1>2, DivMod
<1>4. q >= 0
  <2>1. q <= -1 => d * q <= -d
    OBVIOUS
  <2> QED
    BY <1>3, <2>1
<1>5. q >= 1 => d * q >= d
  OBVIOUS
<1>6. q = 0 => d * q = 0
  OBVIOUS
<1>7. d * q >= 0
  BY <1>4
<1> QED
  BY <1>1, <1>2, <1>3, <1>4, <1>5, <1>6, <1>7

\* The first record of a file is no closed record of the first file.
First == 1 .. PerFile - 1

LEMMA IdxBaseFacts ==
    ASSUME NEW c \in Nat
    PROVE  /\ IdxBase(c) \in Nat /\ IdxBase(c) <= c
           /\ IdxBase(c) \notin First
           /\ c < PerFile => IdxBase(c) = 0
<1>1. PICK m \in Nat : m = (c % CharVals) /\ m <= c
  <2>1. CharVals \in Nat \ {0}
    BY AlarmLogAssumption
  <2>2. (c % CharVals) <= c
    BY <2>1, DivSmall
  <2>3. (c % CharVals) \in 0 .. CharVals - 1
    BY ONLY <2>1, c \in Nat, DivMod
  <2> QED
    BY <2>1, <2>2, <2>3
<1>2. PICK q \in Nat : q = m \div PerFile /\ PerFile * q <= m /\ (q = 0 <=> m < PerFile)
  BY DivSmall, AlarmLogAssumption
<1>3. IdxBase(c) = PerFile * q
  BY <1>1, <1>2 DEF IdxBase
<1>4. q >= 1 => PerFile * q >= PerFile
  BY AlarmLogAssumption
<1>5. q = 0 => PerFile * q = 0
  BY AlarmLogAssumption
<1>6. PerFile * q \in Nat
  BY AlarmLogAssumption
<1> QED
  BY <1>1, <1>2, <1>3, <1>4, <1>5, <1>6, AlarmLogAssumption DEF First

LEMMA FirstFile ==
    /\ 0 \in Files /\ InFile \subseteq Slot /\ First \subseteq InFile /\ 0 \in InFile
    /\ \A i \in InFile : i \div PerFile = 0 /\ (i % PerFile) = i
<1>1. /\ MaxAlarm \in Nat \ {0} /\ PerFile \in Nat \ {0} /\ (MaxAlarm % PerFile) = 0
  BY AlarmLogAssumption
<1>2. MaxAlarm >= PerFile /\ MaxAlarm \div PerFile >= 1 /\ MaxAlarm \div PerFile \in Nat
  <2>1. MaxAlarm \div PerFile = 0 => FALSE
    <3>1. MaxAlarm \div PerFile = 0 => PerFile * (MaxAlarm \div PerFile) = 0
      BY <1>1
    <3> QED
      BY <1>1, <3>1, DivMod
  <2> QED
    BY <1>1, <2>1, DivSmall
<1>3. ASSUME NEW i \in InFile PROVE i \div PerFile = 0 /\ (i % PerFile) = i
  <2>1. i \in Nat /\ i < PerFile
    BY <1>1 DEF InFile
  <2>2. i \div PerFile = 0
    BY <1>1, <2>1, DivSmall
  <2>3. PerFile * (i \div PerFile) = 0
    BY <1>1, <2>2
  <2> QED
    BY <1>1, <2>1, <2>2, <2>3, DivMod
<1> QED
  BY <1>1, <1>2, <1>3 DEF Files, InFile, Slot, First

(***************************************************************************)
(* The invariant behind ClosedRecordsKept.                                 *)
(***************************************************************************)
LogType ==
    /\ DOMAIN cache = Slot /\ DOMAIN durable = Slot /\ DOMAIN file = Files
    /\ \A i \in InFile : cache[i] \in Nat
    /\ file[0] # NoFile => \A i \in InFile : file[0][i] \in Nat
    /\ boots \in Nat /\ cur \in Slot /\ rsdb.cur \in Slot
    /\ lptr \in Nat /\ lptr \notin First

\* What counts as durable is what the next start reads from the first file.
FileOK == \A i \in First : durable[i] = IF file[0] = NoFile THEN 0 ELSE file[0][i]

\* GengxinBofang works on a record only when the start and Jilushijian are over.
UpdatesLate == upc # "idle" => mpc = "up" /\ LogIsOver

\* The cache before and after the files are loaded; the current record may be
\* ahead of its file once Jilushijian, which may move cur, is over.
CacheOK ==
    /\ mpc = "load" => \A i \in First : cache[i] = 0
    /\ mpc \in {"register", "up"} =>
        \A i \in First : \/ cache[i] = durable[i]
                         \/ i = cur /\ LogIsOver
                         \/ upc = "write" /\ cur < PerFile

CInv == LogType /\ FileOK /\ UpdatesLate /\ CacheOK

LEMMA SlotFacts == Slot \subseteq Nat /\ 0 \in Slot /\ NoDb.cur \in Slot
BY AlarmLogAssumption DEF Slot, NoDb

\* The boot sequence.
LEMMA MainKeeps == ASSUME CInv, MainStep PROVE CInv'
<1>1. CASE AlarmInitClear
  <2>1. /\ mpc = "clear" /\ mpc' = "load" /\ cache' = [i \in Slot |-> 0]
        /\ UNCHANGED <<durable, boots, cur, rsdb, file, lptr, upc, lpc>>
    BY <1>1 DEF AlarmInitClear, diskVars
  <2>2. \A i \in InFile : cache'[i] = 0
    BY <2>1, FirstFile
  <2>3. LogType'
    BY <2>1, <2>2 DEF CInv, LogType
  <2> QED
    BY <2>1, <2>2, <2>3, FirstFile DEF CInv, FileOK, UpdatesLate, CacheOK, LogIsOver
<1>2. CASE AlarmInitLoad
  <2>1. /\ mpc = "load" /\ mpc' = "register"
        /\ cache' = [i \in Slot |-> IF file[i \div PerFile] = NoFile THEN cache[i] ELSE FromFile(i)]
        /\ UNCHANGED <<durable, boots, cur, rsdb, file, lptr, upc, lpc>>
    BY <1>2 DEF AlarmInitLoad, diskVars
  <2>2. \A i \in InFile : cache'[i] = IF file[0] = NoFile THEN cache[i] ELSE file[0][i]
    BY <2>1, FirstFile DEF FromFile
  <2>3. \A i \in First : cache'[i] = durable'[i]
    BY <2>1, <2>2, FirstFile DEF CInv, CacheOK, FileOK
  <2>4. LogType'
    BY <2>1, <2>2 DEF CInv, LogType
  <2> QED
    BY <2>1, <2>3, <2>4 DEF CInv, FileOK, UpdatesLate, CacheOK, LogIsOver
<1>3. CASE AlarmInitRegister
  BY <1>3 DEF AlarmInitRegister, memVars, diskVars, CInv, LogType, FileOK, UpdatesLate, CacheOK,
    LogIsOver
<1> QED
  BY <1>1, <1>2, <1>3 DEF MainStep

\* The thread that opens the record of this run.
LEMMA LogKeeps == ASSUME CInv, LogStep PROVE CInv'
<1> USE DEF LogIsOver
<1>1. upc = "idle" /\ ~LogIsOver
  BY DEF LogStep, MakeAlarmGOpen, MakeAlarmGNoYear, MakeAlarmGStamp, MakeAlarmGSaveBegin,
    MakeAlarmGSaveEnd, CInv, UpdatesLate
<1>2. CASE MakeAlarmGOpen
  <2>1. /\ lptr' = IdxBase(cur) /\ lpc' = "stamp"
        /\ cur' = IF playstate = 1 THEN (cur + 1) % MaxAlarm ELSE cur
        /\ UNCHANGED <<cache, durable, boots, rsdb, file, mpc, upc>>
    BY <1>2 DEF MakeAlarmGOpen, diskVars
  <2>2. cur \in Nat
    BY SlotFacts DEF CInv, LogType
  <2>3. cur' \in Slot
    <3>1. MaxAlarm \in Nat \ {0} /\ cur + 1 \in Int
      BY <2>2, AlarmLogAssumption
    <3>2. ((cur + 1) % MaxAlarm) \in 0 .. MaxAlarm - 1
      BY ONLY <3>1, DivMod
    <3> QED
      BY <2>1, <3>2 DEF Slot, CInv, LogType
  <2>4. lptr' \in Nat /\ lptr' \notin First
    BY <2>1, <2>2, IdxBaseFacts
  <2> QED
    BY <1>1, <2>1, <2>3, <2>4 DEF CInv, LogType, FileOK, UpdatesLate, CacheOK
<1>3. CASE MakeAlarmGNoYear
  BY <1>1, <1>3 DEF MakeAlarmGNoYear, memVars, diskVars, CInv, LogType, FileOK, UpdatesLate, CacheOK
<1>4. CASE MakeAlarmGStamp
  <2>1. /\ cache' = [cache EXCEPT ![lptr] = boots] /\ lpc' = "save"
        /\ UNCHANGED <<durable, boots, cur, rsdb, file, lptr, mpc, upc>>
    BY <1>4 DEF MakeAlarmGStamp, diskVars
  <2>2. \A i \in First : cache'[i] = cache[i]
    BY <2>1, FirstFile DEF CInv, LogType
  <2>3. DOMAIN cache' = Slot /\ \A i \in InFile : cache'[i] \in Nat
    BY <2>1, FirstFile DEF CInv, LogType
  <2> QED
    BY <1>1, <2>1, <2>2, <2>3 DEF CInv, LogType, FileOK, UpdatesLate, CacheOK
<1>5. CASE MakeAlarmGSaveBegin \/ MakeAlarmGSaveEnd
  <2>1. /\ UNCHANGED <<cache, durable, boots, cur, file, lptr, mpc, upc>>
        /\ rsdb' \in {rsdb, NoDb, RunState}
    BY <1>5 DEF MakeAlarmGSaveBegin, MakeAlarmGSaveEnd, RunStateSaveBegin, RunStateSaveEnd, memVars
  <2>2. rsdb'.cur \in Slot
    BY <2>1, SlotFacts DEF CInv, LogType, RunState
  <2> QED
    BY <1>1, <2>1, <2>2 DEF CInv, LogType, FileOK, UpdatesLate, CacheOK
<1> QED
  BY <1>2, <1>3, <1>4, <1>5 DEF LogStep

\* The thread that keeps the record up to date.
LEMMA UpdateKeeps == ASSUME CInv, UpdateAlarmLock \/ UpdateStep PROVE CInv'
<1>1. /\ mpc = "up" /\ LogIsOver /\ UNCHANGED <<mpc, lpc, cur, boots, rsdb, lptr>> /\ LogIsOver'
  BY DEF UpdateAlarmLock, UpdateStep, UpdateAlarmTest, UpdateAlarmCopy, UpdateAlarmSaveBegin,
    UpdateAlarmSaveEnd, UpdateAlarmUnlock, CInv, UpdatesLate, LogIsOver, memVars, diskVars
<1>2. cur \in Nat /\ cur \in Slot
  BY SlotFacts DEF CInv, LogType
<1>3. /\ cur \div PerFile = 0 <=> cur < PerFile
      /\ cur < PerFile => IdxBase(cur) = 0
  BY <1>2, DivSmall, IdxBaseFacts, AlarmLogAssumption
<1>4. CASE UpdateAlarmLock \/ UpdateAlarmTest \/ UpdateAlarmUnlock
  <2>1. UNCHANGED <<cache, durable, file>> /\ upc # "write"
    BY <1>4 DEF UpdateAlarmLock, UpdateAlarmTest, UpdateAlarmUnlock, memVars, diskVars
  <2> QED
    BY <1>1, <2>1 DEF CInv, LogType, FileOK, UpdatesLate, CacheOK
<1>5. CASE UpdateAlarmCopy
  <2>1. /\ cache' = [cache EXCEPT ![cur] = cache[IdxBase(cur)]] /\ upc = "copy"
        /\ UNCHANGED <<durable, file>>
    BY <1>5 DEF UpdateAlarmCopy, UpdatedSlot, diskVars
  <2>2. DOMAIN cache' = Slot /\ \A i \in InFile : cache'[i] \in Nat
    <3>1. DOMAIN cache' = Slot
      BY <2>1 DEF CInv, LogType
    <3>2. ASSUME NEW i \in InFile, i = cur PROVE cache[IdxBase(cur)] \in Nat
      <4>1. cur < PerFile
        BY <3>2, AlarmLogAssumption DEF InFile
      <4> QED
        BY <1>3, <4>1, FirstFile DEF CInv, LogType
    <3> QED
      BY <2>1, <3>1, <3>2, FirstFile DEF CInv, LogType
  <2>3. \A i \in First : i # cur => cache'[i] = cache[i]
    BY <2>1, FirstFile DEF CInv, LogType
  <2> QED
    BY <1>1, <2>1, <2>2, <2>3 DEF CInv, LogType, FileOK, UpdatesLate, CacheOK
<1>6. CASE UpdateAlarmSaveBegin
  <2>1. /\ file' = [file EXCEPT ![cur \div PerFile] = NoFile] /\ upc = "save" /\ upc' = "write"
        /\ durable' = [i \in Slot |-> IF i \div PerFile = cur \div PerFile THEN 0 ELSE durable[i]]
        /\ UNCHANGED cache
    BY <1>6 DEF UpdateAlarmSaveBegin, memVars
  <2>2. /\ \A i \in InFile : durable'[i] = IF cur < PerFile THEN 0 ELSE durable[i]
        /\ file'[0] = IF cur < PerFile THEN NoFile ELSE file[0]
        /\ DOMAIN durable' = Slot /\ DOMAIN file' = Files
    BY <1>3, <2>1, FirstFile DEF CInv, LogType
  <2> QED
    BY <1>1, <2>1, <2>2, FirstFile DEF CInv, LogType, FileOK, UpdatesLate, CacheOK
<1>7. CASE UpdateAlarmSaveEnd
  <2>1. /\ file' = [file EXCEPT ![cur \div PerFile] = [j \in InFile |-> cache[IdxBase(cur) + j]]]
        /\ durable' = [i \in Slot |-> IF i \div PerFile = cur \div PerFile THEN cache[i] ELSE durable[i]]
        /\ upc = "write" /\ upc' = "unlock" /\ UNCHANGED cache
    BY <1>7 DEF UpdateAlarmSaveEnd, memVars
  <2>2. /\ \A i \in InFile : durable'[i] = IF cur < PerFile THEN cache[i] ELSE durable[i]
        /\ DOMAIN durable' = Slot /\ DOMAIN file' = Files
        /\ ~(cur < PerFile) => file'[0] = file[0]
    BY <1>3, <2>1, FirstFile DEF CInv, LogType
  <2>3. CASE cur < PerFile
    <3>1. file'[0] = [j \in InFile |-> cache[0 + j]]
      BY <1>3, <2>1, <2>3, FirstFile DEF CInv, LogType
    <3>2. \A j \in InFile : file'[0][j] = cache[j] /\ cache[j] \in Nat
      BY <3>1 DEF CInv, LogType, InFile
    <3>3. file'[0] # NoFile
      BY <3>2, FirstFile DEF NoFile
    <3> QED
      BY <1>1, <2>1, <2>2, <2>3, <3>2, <3>3, FirstFile
        DEF CInv, LogType, FileOK, UpdatesLate, CacheOK
  <2>4. CASE ~(cur < PerFile)
    <3>1. /\ file'[0] = file[0] /\ \A i \in InFile : durable'[i] = durable[i]
      BY <2>2, <2>4
    <3>2. \A i \in First : cache[i] = durable[i] \/ i = cur
      BY <1>1, <2>4 DEF CInv, CacheOK
    <3> QED
      BY <1>1, <2>1, <2>2, <3>1, <3>2, FirstFile DEF CInv, LogType, FileOK, UpdatesLate, CacheOK
  <2> QED
    BY <2>3, <2>4
<1> QED
  BY <1>4, <1>5, <1>6, <1>7 DEF UpdateStep

\* A start of the program, after a reboot or a power cut.
LEMMA StartKeeps ==
    ASSUME CInv, NEW y \in BOOLEAN, SysReboot(y) \/ PowerCut(y) PROVE CInv'
<1>1. /\ cur' = IF rsdb = NoDb THEN 0 ELSE rsdb.cur
      /\ cache' = [i \in Slot |-> 0] /\ boots' = boots + 1
      /\ mpc' = "clear" /\ lptr' = 0 /\ upc' = "idle"
      /\ UNCHANGED <<file, rsdb, durable>>
  BY DEF SysReboot, PowerCut, StartWith
<1>2. cur' \in Slot /\ (\A i \in InFile : cache'[i] = 0) /\ DOMAIN cache' = Slot
  BY <1>1, SlotFacts, FirstFile DEF CInv, LogType
<1>3. 0 \notin First
  BY DEF First
<1> QED
  BY <1>1, <1>2, <1>3 DEF CInv, LogType, FileOK, UpdatesLate, CacheOK

LEMMA CInitInv == Init => CInv
<1> SUFFICES ASSUME Init PROVE CInv
  OBVIOUS
<1>1. /\ cache = [i \in Slot |-> 0] /\ durable = [i \in Slot |-> 0]
      /\ file = [f \in Files |-> NoFile] /\ boots = 1 /\ cur = 0 /\ rsdb = NoDb
      /\ lptr = 0 /\ upc = "idle" /\ mpc = "clear"
  BY DEF Init
<1>2. 0 \notin First
  BY DEF First
<1>3. LogType
  BY <1>1, <1>2, SlotFacts, FirstFile DEF LogType
<1>4. FileOK
  BY <1>1, FirstFile DEF FileOK
<1> QED
  BY <1>1, <1>3, <1>4 DEF CInv, UpdatesLate, CacheOK

LEMMA CInvHolds == Spec => []CInv
<1>1. CInv /\ [Next]_vars => CInv'
  <2> SUFFICES ASSUME CInv, [Next]_vars PROVE CInv'
    OBVIOUS
  <2>1. CASE SysRestartCall \/ RestartStep
    <3>1. /\ UNCHANGED <<cache, durable, boots, cur, file, lptr, mpc, upc, lpc>>
          /\ rsdb' \in {rsdb, NoDb, RunState}
      BY <2>1 DEF SysRestartCall, RestartStep, SysCycleSaveBegin, SysCycleSaveEnd,
        RunStateSaveBegin, RunStateSaveEnd, memVars, diskVars
    <3>2. rsdb'.cur \in Slot
      BY <3>1, SlotFacts DEF CInv, LogType, RunState
    <3> QED
      BY <3>1, <3>2 DEF CInv, LogType, FileOK, UpdatesLate, CacheOK, LogIsOver
  <2>2. CASE SetYear \/ UNCHANGED vars
    BY <2>2 DEF SetYear, vars, memVars, diskVars, pcVars, CInv, LogType, FileOK, UpdatesLate,
      CacheOK, LogIsOver
  <2> QED
    BY <2>1, <2>2, MainKeeps, LogKeeps, UpdateKeeps, StartKeeps DEF Next, Reboot
<1> QED
  BY CInitInv, <1>1, PTL DEF Spec

\* Over any number of restarts and power cuts, the closed records of the first
\* file are in the cache as they were last written to that file.
THEOREM RecordsKept == Spec => []ClosedRecordsKept
<1>1. CInv => ClosedRecordsKept
  BY DEF CInv, CacheOK, ClosedRecordsKept, First
<1> QED
  BY <1>1, CInvHolds, PTL

(***************************************************************************)
(* The reboot and the alarm lock.                                          *)
(***************************************************************************)
\* UpdateAlarm has the lock, and the lock is registered.
UpdateLocked ==
    /\ mpc = "up" => LockIdAlarm = 0
    /\ upc # "idle" => mpc = "up" /\ lock = "update"

LEMMA UpdateLockedHolds == Spec => []UpdateLocked
<1>1. Init => UpdateLocked
  BY DEF Init, UpdateLocked
<1>2. UpdateLocked /\ [Next]_vars => UpdateLocked'
  <2> SUFFICES ASSUME UpdateLocked, [Next]_vars PROVE UpdateLocked'
    OBVIOUS
  <2>1. CASE MainStep
    BY <2>1 DEF MainStep, AlarmInitClear, AlarmInitLoad, AlarmInitRegister, lockVars, UpdateLocked
  <2>2. CASE LogStep \/ SysRestartCall \/ RestartStep \/ SetYear \/ UNCHANGED vars
    BY <2>2 DEF LogStep, MakeAlarmGOpen, MakeAlarmGNoYear, MakeAlarmGStamp, MakeAlarmGSaveBegin,
      MakeAlarmGSaveEnd, SysRestartCall, RestartStep, SysCycleSaveBegin, SysCycleSaveEnd, SetYear,
      vars, lockVars, pcVars, UpdateLocked
  <2>3. CASE UpdateAlarmLock \/ UpdateStep
    BY <2>3 DEF UpdateAlarmLock, UpdateStep, UpdateAlarmTest, UpdateAlarmCopy,
      UpdateAlarmSaveBegin, UpdateAlarmSaveEnd, UpdateAlarmUnlock, lockVars, UpdateLocked
  <2>4. CASE Reboot \/ \E y \in BOOLEAN : PowerCut(y)
    BY <2>4 DEF Reboot, SysReboot, PowerCut, StartWith, UpdateLocked
  <2> QED
    BY <2>1, <2>2, <2>3, <2>4 DEF Next
<1> QED
  BY <1>1, <1>2, PTL DEF Spec

\* The reboot of SysRestart never cuts an alarm file that is being written.
THEOREM RebootWaits == Spec => RebootSparesAlarmFiles
<1>1. UpdateLocked => [Reboot => upc # "write"]_vars
  BY DEF UpdateLocked, Reboot, SysReboot, SysLockHalt
<1> QED
  BY <1>1, UpdateLockedHolds, PTL DEF RebootSparesAlarmFiles
=============================================================================
