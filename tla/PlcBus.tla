------------------------------- MODULE PlcBus -------------------------------
(***************************************************************************)
(* The bus to the cabinet doors and the two sensors (downlink/pltask.c,    *)
(* plcomm.c, module/rfmet.c, downlink645.c and downlink_dl.c).             *)
(*                                                                         *)
(* PlcTask asks the sensors when their timers have set a flag and sends    *)
(* the door commands that OpenDoor (HomeControl) has left in ctrlstate.    *)
(* Before it sends it empties the port's input.  UplinkModBusTask takes    *)
(* the answers off the same port, byte by byte, and keeps off it only at   *)
(* the start of a poll.                                                    *)
(*                                                                         *)
(* Only PlcTask takes PlcMutex and Rs485Mutex[1], and nothing sets         *)
(* plcreading or PlcMetRegisting, so these are left out.                   *)
(***************************************************************************)
EXTENDS Integers, Sequences

CONSTANTS
    Doors,        \* door addresses that occur in codes
    FarDoors,     \* those above MAX_METER (255)
    NCtrl,        \* 4, slots of ctrlstate
    FrameLen,     \* 8, bytes in a frame of the bus
    RecvTimeout,  \* 20, DownlinkInterface[].timeout, in polls
    MaxAir        \* bound: bytes on their way when another device answers

ASSUME PlcBusAssumption ==
    /\ FarDoors \subseteq Doors
    /\ NCtrl \in Nat \ {0}
    /\ FrameLen \in Nat /\ FrameLen >= 2
    /\ RecvTimeout \in Nat \ {0} /\ MaxAir \in Nat

Sensors == {"s1", "s2"}      \* TempHumsensor1 at 0xF0 and TempHumsensor2 at 0xF1
NoCommand == [addr |-> "none", cmd |-> "none"]
Slots == 0 .. NCtrl - 1

VARIABLES
    ctrlnum, ctrlstate,   \* door commands to send: address and first byte
    TempHum,              \* sensors whose flag is set
    PlcMetReading,
    job, stage, i, frame, \* PlcTask: what it is at, and the command it sends
    air, line,            \* bytes of answers on their way, and in the port's input
    upc, rcv, tcnt,       \* UplinkModBusTask, the bytes it has and its timer
    alive,                \* the program has not been killed by a signal
    \* Observation:
    owed,     \* doors of the last code that have not been sent their command
    loops,    \* PlcTask has been in its loop since OpenDoor began
    overlap,  \* ... when OpenDoor had finished
    cut       \* bytes have been taken from an answer since the bus was idle

plcVars == <<ctrlnum, ctrlstate, TempHum, PlcMetReading, job, stage, i, frame, owed, loops, overlap>>
lineVars == <<air, line, cut>>
recvVars == <<upc, rcv, tcnt>>
busVars == <<plcVars, lineVars, recvVars, alive>>

BusInit ==
    /\ ctrlnum = 0 /\ ctrlstate = [s \in Slots |-> NoCommand]
    /\ TempHum = {} /\ PlcMetReading = 0
    /\ job = "s1" /\ stage = "test" /\ i = 0 /\ frame = NoCommand
    /\ air = <<>> /\ line = <<>> /\ cut = FALSE
    /\ upc = "top" /\ rcv = <<>> /\ tcnt = 0
    /\ alive = TRUE
    /\ owed = {} /\ loops = FALSE /\ overlap = FALSE

InLoop == job = "ctrl" /\ stage # "test"

(***************************************************************************)
(* PlcTask.                                                                *)
(***************************************************************************)
\* RTimeUpdateTemperature1 and RTimeUpdateTemperature2.
RTimeUpdateTemperature(s) ==
    /\ alive
    /\ TempHum' = TempHum \cup {s}
    /\ UNCHANGED <<ctrlnum, ctrlstate, PlcMetReading, job, stage, i, frame, owed, loops, overlap>>
    /\ UNCHANGED <<lineVars, recvVars, alive>>

Ready(j) == IF j = "ctrl" THEN ctrlnum > 0 ELSE j \in TempHum
After(j) == CASE j = "s1" -> "s2" [] j = "s2" -> "ctrl" [] j = "ctrl" -> "s1"

\* PlcRead and PlcCtrlMet up to the draining of the input: the one module there is
\* has both functions.
PlcRead == PlcMetReading' = 1 /\ stage' = "drain"
PlcCtrlMet == PlcMetReading' = 1 /\ stage' = "drain" /\ frame' = ctrlstate[i]

\* The loop's three tests, from where PlcTask stands up to the next one that
\* finds something to do.
NextJob ==
    /\ alive /\ stage = "test"
    /\ \E j \in {"s1", "s2", "ctrl"} :
           /\ Ready(j)
           /\ \/ j = job
              \/ ~Ready(job) /\ j = After(job)
              \/ ~Ready(job) /\ ~Ready(After(job))
           /\ job' = j
           /\ IF j = "ctrl"
              THEN stage' = "loop" /\ i' = 0 /\ loops' = TRUE /\ UNCHANGED PlcMetReading
              ELSE PlcRead /\ UNCHANGED <<i, loops>>
    /\ UNCHANGED <<ctrlnum, ctrlstate, TempHum, frame, owed, overlap>>
    /\ UNCHANGED <<lineVars, recvVars, alive>>

\* Mutant: the last command is left out.
MoreCtrlShort == i < ctrlnum - 1

\* ctrlnum is read anew for each command.
MoreCtrl == i < ctrlnum

\* RFMetCtrl gives an address out of range up.
CtrlNext ==
    /\ alive /\ job = "ctrl" /\ stage = "loop" /\ MoreCtrl
    /\ IF ctrlstate[i].addr \in FarDoors
       THEN i' = i + 1 /\ UNCHANGED <<PlcMetReading, frame, stage>>
       ELSE PlcCtrlMet /\ UNCHANGED i
    /\ UNCHANGED <<ctrlnum, ctrlstate, TempHum, job, owed, loops, overlap>>
    /\ UNCHANGED <<lineVars, recvVars, alive>>

CtrlEnd ==
    /\ alive /\ job = "ctrl" /\ stage = "loop" /\ ~MoreCtrl
    /\ ctrlnum' = 0
    /\ job' = "s1" /\ stage' = "test" /\ i' = 0
    /\ UNCHANGED <<ctrlstate, TempHum, PlcMetReading, frame, owed, loops, overlap>>
    /\ UNCHANGED <<lineVars, recvVars, alive>>

\* RFMetRead and RFMetCtrl empty the input into their caller's buffer, which
\* for a control is the state in ctrlstate.
Drain ==
    /\ alive /\ stage = "drain" /\ line # <<>>
    /\ line' = Tail(line) /\ cut' = TRUE
    /\ ctrlstate' = IF job = "ctrl" THEN [ctrlstate EXCEPT ![i].cmd = "junk"] ELSE ctrlstate
    /\ UNCHANGED <<ctrlnum, TempHum, PlcMetReading, job, stage, i, frame, owed, loops, overlap>>
    /\ UNCHANGED <<air, recvVars, alive>>

Reply(d) == [k \in 1 .. FrameLen |-> <<d, k>>]
Target == IF job = "ctrl" THEN frame.addr ELSE job
Settled == air = <<>> /\ line = <<>> /\ rcv = <<>>

\* The frame is sent; the device answers or keeps silent.
Send ==
    /\ alive /\ stage = "drain" /\ line = <<>>
    /\ stage' = "done"
    /\ UNCHANGED air \/ (Len(air) <= MaxAir /\ air' = air \o Reply(Target))
    /\ owed' = IF job = "ctrl" /\ frame.cmd = "open" THEN owed \ {frame.addr} ELSE owed
    /\ cut' = (cut /\ ~Settled)
    /\ UNCHANGED <<ctrlnum, ctrlstate, TempHum, PlcMetReading, job, i, frame, loops, overlap>>
    /\ UNCHANGED <<line, recvVars, alive>>

\* Rs485Send always returns 0: a sensor's flag is cleared, answer or not.
SendDone ==
    /\ alive /\ stage = "done"
    /\ PlcMetReading' = 0 /\ frame' = NoCommand
    /\ IF job = "ctrl"
       THEN i' = i + 1 /\ stage' = "loop" /\ UNCHANGED <<TempHum, job>>
       ELSE TempHum' = TempHum \ {job} /\ job' = After(job) /\ stage' = "test" /\ UNCHANGED i
    /\ UNCHANGED <<ctrlnum, ctrlstate, owed, loops, overlap>>
    /\ UNCHANGED <<lineVars, recvVars, alive>>

PlcTask == NextJob \/ CtrlNext \/ CtrlEnd \/ Drain \/ Send \/ SendDone

(***************************************************************************)
(* The port and UplinkModBusTask.                                          *)
(***************************************************************************)
Arrive ==
    /\ air # <<>>
    /\ line' = Append(line, Head(air)) /\ air' = Tail(air)
    /\ UNCHANGED <<plcVars, cut, recvVars, alive>>

\* The task looks at PlcMetReading, then DownTimerProc counts.  Before the first
\* byte the timer clears what is clear, and is not counted here; a poll that has
\* nothing to do at all is left out.
RecvBegin ==
    LET late == rcv # <<>> /\ tcnt + 1 >= RecvTimeout
    IN  /\ alive /\ upc = "top" /\ PlcMetReading = 0 /\ (line # <<>> \/ rcv # <<>>)
        /\ upc' = "get"
        /\ rcv' = IF late THEN <<>> ELSE rcv
        /\ tcnt' = IF late \/ rcv = <<>> THEN 0 ELSE tcnt + 1
        /\ cut' = (cut \/ late)
        /\ UNCHANGED <<plcVars, air, line, alive>>

\* Mutant: maxlen counts the first byte too.
CompleteLate(bytes) == Len(bytes) >= FrameLen + 1

\* The byte after the first FrameLen - 1 completes a frame.  faal645_checkpkt
\* computes the check sum and returns 0 whatever it finds.
Complete(bytes) == Len(bytes) >= FrameLen

\* SvrMessageProcModBus.  ModBusTempHum copies the data of the second sensor to
\* the address that is the value of a byte of the table, which kills the program;
\* everything else is entered in the table.
ModBusTempHumDies(bytes) == bytes[2][1] \in Sensors /\ bytes[1][1] = "s2"

RecvByte ==
    LET bytes == Append(rcv, Head(line))
    IN  /\ alive /\ upc = "get" /\ line # <<>>
        /\ line' = Tail(line)
        /\ rcv' = IF Complete(bytes) THEN <<>> ELSE bytes
        /\ upc' = IF Complete(bytes) THEN "top" ELSE "get"
        /\ tcnt' = IF rcv = <<>> \/ Complete(bytes) THEN 0 ELSE tcnt
        /\ alive' = ~(Complete(bytes) /\ ModBusTempHumDies(bytes))
        /\ UNCHANGED <<plcVars, air, cut>>

RecvEmpty ==
    /\ alive /\ upc = "get" /\ line = <<>>
    /\ upc' = "top"
    /\ UNCHANGED <<plcVars, lineVars, rcv, tcnt, alive>>

ModBusTask == RecvBegin \/ RecvByte \/ RecvEmpty

(***************************************************************************)
(* Properties.                                                             *)
(***************************************************************************)
\* When PlcTask has no more commands to send, each door of the last code has been
\* sent its command 0x88, although the answers of other devices are emptied into
\* the memory it is built from; unless PlcTask was still sending an earlier code's
\* commands when OpenDoor left the new ones (then ctrlnum = 0 can wipe them out).
DoorsOpened == ~overlap /\ ctrlnum = 0 /\ ~InLoop => owed = {}

\* The frames that UplinkModBusTask takes for messages are the answers of the
\* devices, whole and in step, unless an answer was cut, by PlcTask's draining or
\* by the timer, and the bus has not been idle since.  The check sum, which would
\* find the others out, is not looked at.
FramesWhole ==
    [][RecvByte /\ ~cut /\ Complete(Append(rcv, Head(line))) =>
           \E d \in Sensors \cup Doors : Append(rcv, Head(line)) = Reply(d)]_busVars
=============================================================================
