----------------------------- MODULE SceneMusic -----------------------------
(***************************************************************************)
(* Scenes and their music (downlink/pltask.c): SceneTask starts a scene,   *)
(* MusicTask plays its music and ends the pauses for a spoken prompt.      *)
(* SceneOnId, musicstart, MusicPause and MusicPauseTmeout are shared       *)
(* without a lock.  Nothing sets SceneOffId.                               *)
(***************************************************************************)
EXTENDS Integers

CONSTANTS
    SceneIds,             \* scene numbers of a timer task; 0 is none
    MaxMadplay            \* bound: madplay processes

ASSUME SceneMusicAssumption == SceneIds \subseteq Nat /\ MaxMadplay \in Nat

VARIABLES
    SceneOnId, TimerTask, \* the scene to start; the argument of the timer, -1 for none
    spc,                  \* SceneTask
    musicstart, madplay,  \* music to start; madplay processes, none of which ends by itself
    MusicPause, MusicPauseTmeout,
    muted,                \* setvolume(0)
    mpc, left             \* MusicTask, and the value it decrements

sceneVars == <<SceneOnId, TimerTask, spc, musicstart, madplay>>
pauseVars == <<MusicPause, MusicPauseTmeout, muted, mpc, left>>

SceneInit ==
    /\ SceneOnId = 0 /\ TimerTask = -1 /\ spc = "idle"
    /\ musicstart = 0 /\ madplay = 0
    /\ MusicPause = 0 /\ MusicPauseTmeout = 0 /\ muted = FALSE
    /\ mpc = "idle" /\ left = 0

\* shell_TimerTask replaces the daily timer; its scene number may be 0.
shell_TimerTask(id) ==
    /\ TimerTask' = id
    /\ UNCHANGED <<SceneOnId, spc, musicstart, madplay, pauseVars>>

RTimerTimerTask ==
    /\ TimerTask >= 0
    /\ SceneOnId' = TimerTask
    /\ UNCHANGED <<TimerTask, spc, musicstart, madplay, pauseVars>>

(***************************************************************************)
(* SceneTask.                                                              *)
(***************************************************************************)
\* SceneOnId is read again to call SceneOnTask, which does nothing for 0.
SceneSee ==
    /\ spc = "idle" /\ SceneOnId # 0
    /\ spc' = "seen"
    /\ UNCHANGED <<SceneOnId, TimerTask, musicstart, madplay, pauseVars>>

SceneOnTaskKill ==
    /\ spc = "seen"
    /\ IF SceneOnId # 0
       THEN madplay' = 0 /\ spc' = "start"
       ELSE spc' = "clear" /\ UNCHANGED madplay
    /\ UNCHANGED <<SceneOnId, TimerTask, musicstart, pauseVars>>

SceneOnTaskStart ==
    /\ spc = "start"
    /\ musicstart' = 1
    /\ spc' = "clear"
    /\ UNCHANGED <<SceneOnId, TimerTask, madplay, pauseVars>>

\* What has been asked for meanwhile is forgotten too.
SceneClear ==
    /\ spc = "clear"
    /\ SceneOnId' = 0
    /\ spc' = "idle"
    /\ UNCHANGED <<TimerTask, musicstart, madplay, pauseVars>>

SceneTask == SceneSee \/ SceneOnTaskKill \/ SceneOnTaskStart \/ SceneClear

(***************************************************************************)
(* MusicTask.                                                              *)
(***************************************************************************)
\* The loop's two tests; a round that finds nothing to do is left out.
MusicLook ==
    /\ mpc = "idle" /\ musicstart = 1
    /\ musicstart' = 0
    /\ mpc' = "play"
    /\ UNCHANGED <<SceneOnId, TimerTask, spc, madplay, MusicPause, MusicPauseTmeout, muted, left>>

MusicPlay ==
    /\ mpc = "play" /\ madplay < MaxMadplay
    /\ madplay' = madplay + 1
    /\ mpc' = "played"
    /\ UNCHANGED <<SceneOnId, TimerTask, spc, musicstart, MusicPause, MusicPauseTmeout, muted, left>>

\* MusicPauseTmeout-- is a read here and a write in MusicCounted.
MusicCount ==
    /\ (mpc = "idle" /\ musicstart = 0) \/ mpc = "played"
    /\ IF MusicPause = 1 /\ MusicPauseTmeout > 0
       THEN mpc' = "counted" /\ left' = MusicPauseTmeout - 1
       ELSE mpc' = "idle" /\ UNCHANGED left
    /\ UNCHANGED <<sceneVars, MusicPause, MusicPauseTmeout, muted>>

MusicCounted ==
    /\ mpc = "counted"
    /\ MusicPauseTmeout' = left
    /\ left' = 0
    /\ mpc' = IF left = 0 THEN "restore" ELSE "idle"
    /\ UNCHANGED <<sceneVars, MusicPause, muted>>

\* Mutant: the pause ends, and the volume stays down.
RestoreVolumeNot == UNCHANGED muted

RestoreVolume == muted' = FALSE

MusicRestore ==
    /\ mpc = "restore"
    /\ RestoreVolume
    /\ mpc' = "unpause"
    /\ UNCHANGED <<sceneVars, MusicPause, MusicPauseTmeout, left>>

MusicUnpause ==
    /\ mpc = "unpause"
    /\ MusicPause' = 0
    /\ mpc' = "idle"
    /\ UNCHANGED <<sceneVars, MusicPauseTmeout, muted, left>>

MusicTask == MusicLook \/ MusicPlay \/ MusicCount \/ MusicCounted \/ MusicRestore \/ MusicUnpause
=============================================================================
