---------------------------- MODULE HomeControl -----------------------------
(***************************************************************************)
(* The code reader (downlink/qrcode.c) with the tasks it works through:    *)
(* PlcBus for the cabinet doors, SceneMusic for the scenes and the pauses. *)
(* PlcInit starts the five tasks.                                          *)
(*                                                                         *)
(* Three readers share a port: GM at the cabinet doors, JM outside and CM  *)
(* inside the room's door.  A short text of an administrator opens the     *)
(* room's door as well.  What QrCodeTask does with what it has read is a   *)
(* sequence of steps; whether a code is valid is in QrCode.                *)
(***************************************************************************)
EXTENDS PlcBus, SceneMusic

CONSTANTS
    PauseTimeout, PauseOther,   \* 10 and 6, MusicPauseTmeout after a prompt
    MaxEvents                   \* bound: codes, timers and shell commands

ASSUME HomeAssumption ==
    /\ PauseTimeout \in Nat \ {0} /\ PauseOther \in Nat \ {0}
    /\ MaxEvents \in Nat

VARIABLES
    todo,      \* QrCodeTask: the steps that are left of what it has read
    door,      \* the doors of its code, in order
    doorOpen,  \* GPIO_DOOR
    events

scanVars == <<todo, door, doorOpen, events>>
vars == <<busVars, sceneVars, pauseVars, scanVars>>

Verdicts == {0, -1, 1, 2}   \* valid, undecipherable, ERROR_QRCODETIMEOUT, ERROR_QRCODEUNKNOWN

HomeInit ==
    /\ BusInit /\ SceneInit
    /\ todo = <<>> /\ door = <<>> /\ doorOpen = FALSE
    /\ events = 0

(***************************************************************************)
(* QrCodeTask.                                                             *)
(***************************************************************************)
\* OpenDoor for a reader: the steps it takes when the code is valid.
OpenDoor(reader, r) ==
    CASE r # 0 -> <<>>
      [] reader = "GM" -> <<"fill", "count">>
      [] reader = "JM" -> <<"scene", "open", "shut">>
      [] reader = "CM" -> <<"open", "shut">>

\* An undecipherable code has no prompt and sets no time.
PlayVoice(r) == CASE r = 1 -> <<"voiceLate">> [] r \in {0, 2} -> <<"voice">> [] r = -1 -> <<>>

\* The order differs from reader to reader.
Program(reader, r) ==
    CASE reader = "GM" -> <<"pause", "mute">> \o PlayVoice(r) \o OpenDoor(reader, r)
      [] reader = "JM" -> OpenDoor(reader, r) \o PlayVoice(r)
      [] reader = "CM" -> <<"mute", "pause">> \o OpenDoor(reader, r) \o PlayVoice(r)

Event == events < MaxEvents /\ events' = events + 1

\* A code is read.  Up to NCtrl doors, those that are not 0, are looked at if it
\* is valid and was read at the cabinet.
Scan ==
    /\ alive /\ todo = <<>>
    /\ \E reader \in {"GM", "JM", "CM"}, r \in Verdicts :
           /\ todo' = Program(reader, r)
           /\ IF reader = "GM" /\ r = 0
              THEN door' \in UNION {[1 .. n -> Doors] : n \in 0 .. NCtrl}
              ELSE UNCHANGED door
    /\ Event
    /\ UNCHANGED <<busVars, sceneVars, pauseVars, doorOpen>>

\* The administrator's texts.
ScanAdmin ==
    /\ alive /\ todo = <<>> /\ Event
    /\ \E reader \in {"JM", "CM"} : todo' = OpenDoor(reader, 0)
    /\ UNCHANGED <<busVars, sceneVars, pauseVars, door, doorOpen>>

At(step) == alive /\ todo # <<>> /\ Head(todo) = step /\ todo' = Tail(todo)

QrPause ==
    /\ At("pause") /\ MusicPause' = 1
    /\ UNCHANGED <<busVars, sceneVars, MusicPauseTmeout, muted, mpc, left, door, doorOpen, events>>

QrMute ==
    /\ At("mute") /\ muted' = TRUE
    /\ UNCHANGED <<busVars, sceneVars, MusicPause, MusicPauseTmeout, mpc, left, door, doorOpen, events>>

QrVoice ==
    /\ At("voice") \/ At("voiceLate")
    /\ MusicPauseTmeout' = IF Head(todo) = "voice" THEN PauseOther ELSE PauseTimeout
    /\ UNCHANGED <<busVars, sceneVars, MusicPause, muted, mpc, left, door, doorOpen, events>>

Filled(s) == [addr |-> door[s + 1], cmd |-> "open"]

\* The slots are written over, whether or not PlcTask has come to the code before.
OpenDoorFill ==
    /\ At("fill")
    /\ ctrlstate' = [s \in Slots |-> IF s < Len(door) THEN Filled(s) ELSE ctrlstate[s]]
    /\ loops' = InLoop /\ owed' = {}
    /\ UNCHANGED <<ctrlnum, TempHum, PlcMetReading, job, stage, i, frame, overlap>>
    /\ UNCHANGED <<lineVars, recvVars, alive, sceneVars, pauseVars, door, doorOpen, events>>

OpenDoorCount ==
    /\ At("count")
    /\ ctrlnum' = Len(door)
    /\ owed' = {door[k] : k \in DOMAIN door} \ FarDoors
    /\ overlap' = loops /\ loops' = FALSE /\ door' = <<>>
    /\ UNCHANGED <<ctrlstate, TempHum, PlcMetReading, job, stage, i, frame>>
    /\ UNCHANGED <<lineVars, recvVars, alive, sceneVars, pauseVars, doorOpen, events>>

QrScene ==
    /\ At("scene") /\ SceneOnId' = 1
    /\ UNCHANGED <<busVars, TimerTask, spc, musicstart, madplay, pauseVars, door, doorOpen, events>>

QrDoor ==
    /\ At("open") \/ At("shut")
    /\ doorOpen' = (Head(todo) = "open")
    /\ UNCHANGED <<busVars, sceneVars, pauseVars, door, events>>

QrCodeTask ==
    QrPause \/ QrMute \/ QrVoice \/ OpenDoorFill \/ OpenDoorCount \/ QrScene \/ QrDoor

(***************************************************************************)
(* The whole.                                                              *)
(***************************************************************************)
qrVars == <<todo, door, doorOpen>>

SensorTimer ==
    /\ Event /\ \E s \in Sensors : RTimeUpdateTemperature(s)
    /\ UNCHANGED <<sceneVars, pauseVars, qrVars>>
ShellTimer ==
    /\ alive /\ Event /\ \E id \in SceneIds : shell_TimerTask(id)
    /\ UNCHANGED <<busVars, qrVars>>
SceneTimer == alive /\ Event /\ RTimerTimerTask /\ UNCHANGED <<busVars, qrVars>>

Bus == (PlcTask \/ ModBusTask) /\ UNCHANGED <<sceneVars, pauseVars, scanVars>>
Answers == Arrive /\ UNCHANGED <<sceneVars, pauseVars, scanVars>>
Scenes == alive /\ SceneTask /\ UNCHANGED <<busVars, scanVars>>
Music == alive /\ MusicTask /\ UNCHANGED <<busVars, scanVars>>

Next ==
    \/ Scan \/ ScanAdmin \/ QrCodeTask
    \/ SensorTimer \/ ShellTimer \/ SceneTimer
    \/ Bus \/ Answers \/ Scenes \/ Music

\* Each task runs on.  Nobody has to scan a code.
Fairness == WF_vars(QrCodeTask) /\ WF_vars(Scenes) /\ WF_vars(Music)

Spec == HomeInit /\ [][Next]_vars /\ Fairness

(***************************************************************************)
(* Properties.                                                             *)
(***************************************************************************)
\* A pause that has been given its time ends with the volume restored, whatever
\* codes are scanned in between, unless MusicTask is already at the end of an
\* earlier one (it would then clear MusicPause, and the volume stays down); and
\* a scene that SceneTask has begun, killing the players, gets its music.
RequestsServed ==
    /\ MusicPause = 1 /\ MusicPauseTmeout > 0 /\ mpc \notin {"restore", "unpause"}
           ~> ~muted \/ ~alive
    /\ spc = "start" ~> mpc = "play" \/ ~alive
=============================================================================
