------------------------------- MODULE Player -------------------------------
(***************************************************************************)
(* The music player of monitor/monitor_task.c: the threads that start and  *)
(* stop madplay and share currentButtonState without a lock.               *)
(*                                                                         *)
(* JianceYinpin waits for the music file at start-up and plays it once it  *)
(* is there; Bofangzanting toggles playing at each press of the play key;  *)
(* GengxinBofang polls the state and updates the play record at every      *)
(* sixth poll in the playing state.  Buttons composes the player with the  *)
(* keys: a press here is one that KeyPad's debouncing lets through.        *)
(***************************************************************************)
EXTENDS Integers

CONSTANTS
    UpdatePolls,  \* 6, polls in the playing state per update of the record
    MaxPress      \* bound: presses of the play key

ASSUME PlayerAssumption == UpdatePolls \in Nat \ {0} /\ MaxPress \in Nat

VARIABLES
    currentButtonState,  \* -1 at first, 0 stopped, 1 playing
    file,      \* shock.mp3 is on the card
    madplay,   \* number of madplay processes
    amp,       \* GPIO 39 and 42: both 0 for "music", both 1 for "voice"
    jpc,       \* JianceYinpin
    bpc,       \* Bofangzanting
    times,     \* GengxinBofang's static counter
    alive,     \* the program has not been killed by a signal
    presses,   \* presses so far
    \* Observation:
    streak     \* polls of GengxinBofang in a row that saw the playing state

uVars == <<times, streak>>
vars == <<currentButtonState, file, madplay, amp, jpc, bpc, times, alive, presses, streak>>

\* GpioInit sets line 42 and clears line 39, which is neither setting.
Init ==
    /\ currentButtonState = -1
    /\ file \in BOOLEAN
    /\ madplay = 0 /\ amp = "start"
    /\ jpc = "init" /\ bpc = "init"
    /\ times = 0 /\ streak = 0
    /\ alive = TRUE /\ presses = 0

\* Kaishizhendong in three steps: madplay is started in the background (it
\* ends at once without the file), the amplifier is switched, the state set.
StartMadplay == madplay' = IF file THEN madplay + 1 ELSE madplay
SwitchToMusic == amp' = "music"
SetPlaying == currentButtonState' = 1

(***************************************************************************)
(* JianceYinpin.                                                           *)
(***************************************************************************)
JianceInit ==
    /\ alive /\ jpc = "init"
    /\ currentButtonState' = 0
    /\ jpc' = "look"
    /\ UNCHANGED <<file, madplay, amp, bpc, uVars, alive, presses>>

\* Mutant: the loop is never left.
JianceLookForEver ==
    /\ alive /\ jpc = "look"
    /\ amp' = "voice"
    /\ UNCHANGED <<currentButtonState, file, madplay, jpc, bpc, uVars, alive, presses>>

\* Without the file a prompt is played and the file looked for again.
JianceLook ==
    /\ alive /\ jpc = "look"
    /\ jpc' = IF file THEN "prompt" ELSE "look"
    /\ amp' = IF file THEN amp ELSE "voice"
    /\ UNCHANGED <<currentButtonState, file, madplay, bpc, uVars, alive, presses>>

\* Between the two sleeps of 6 s; Bofangzanting has set its initial state
\* long since.
JiancePrompt ==
    /\ alive /\ jpc = "prompt" /\ bpc # "init"
    /\ amp' = "voice"
    /\ jpc' = "play"
    /\ UNCHANGED <<currentButtonState, file, madplay, bpc, uVars, alive, presses>>

JiancePlay ==
    /\ alive /\ jpc = "play"
    /\ StartMadplay
    /\ jpc' = "switch"
    /\ UNCHANGED <<currentButtonState, file, amp, bpc, uVars, alive, presses>>

\* After a sleep of 500 ms, which is longer than the few instructions between
\* Bofangzanting's killall and its assignment.
JianceSwitch ==
    /\ alive /\ jpc = "switch" /\ bpc # "clear"
    /\ SwitchToMusic
    /\ jpc' = "state"
    /\ UNCHANGED <<currentButtonState, file, madplay, bpc, uVars, alive, presses>>

\* Mutant: JianceYinpin does not tell the others that it has started madplay.
JianceStateNot ==
    /\ alive /\ jpc = "state"
    /\ jpc' = "done"
    /\ UNCHANGED <<currentButtonState, file, madplay, amp, bpc, uVars, alive, presses>>

JianceState ==
    /\ alive /\ jpc = "state"
    /\ SetPlaying
    /\ jpc' = "done"
    /\ UNCHANGED <<file, madplay, amp, bpc, uVars, alive, presses>>

Jiance == JianceInit \/ JianceLook \/ JiancePrompt \/ JiancePlay \/ JianceSwitch \/ JianceState

(***************************************************************************)
(* Bofangzanting.                                                          *)
(***************************************************************************)
BofangInit ==
    /\ alive /\ bpc = "init"
    /\ currentButtonState' = 0
    /\ bpc' = "poll"
    /\ UNCHANGED <<file, madplay, amp, jpc, uVars, alive, presses>>

\* A press takes more than five polls of 10 ms, JianceYinpin's first
\* assignment comes before.
BofangPress ==
    /\ alive /\ bpc = "poll" /\ presses < MaxPress /\ jpc # "init"
    /\ presses' = presses + 1
    /\ bpc' = "act"
    /\ UNCHANGED <<currentButtonState, file, madplay, amp, jpc, uVars, alive>>

KillMadplay == madplay' = 0

BofangAct ==
    /\ alive /\ bpc = "act"
    /\ \/ currentButtonState = 0 /\ StartMadplay /\ bpc' = "switch"
       \/ currentButtonState = 1 /\ KillMadplay /\ bpc' = "clear"
    /\ UNCHANGED <<currentButtonState, file, amp, jpc, uVars, alive, presses>>

BofangSwitch ==
    /\ alive /\ bpc = "switch"
    /\ SwitchToMusic
    /\ bpc' = "state"
    /\ UNCHANGED <<currentButtonState, file, madplay, jpc, uVars, alive, presses>>

\* Kaishizhendong sets the state, and Bofangzanting sets it again.
BofangState ==
    /\ alive /\ bpc \in {"state", "again"}
    /\ SetPlaying
    /\ bpc' = IF bpc = "state" THEN "again" ELSE "poll"
    /\ UNCHANGED <<file, madplay, amp, jpc, uVars, alive, presses>>

BofangClear ==
    /\ alive /\ bpc = "clear"
    /\ currentButtonState' = 0
    /\ bpc' = "poll"
    /\ UNCHANGED <<file, madplay, amp, jpc, uVars, alive, presses>>

(***************************************************************************)
(* GengxinBofang, one poll.  UpdateAlarm itself is in AlarmLog.            *)
(***************************************************************************)
\* Mutant: the counter survives a stop.
StoppedTimesKept == times

StoppedTimes == 0

PlayingTimes == IF times + 1 >= UpdatePolls THEN 0 ELSE times + 1

GengxinPoll ==
    /\ alive
    /\ IF currentButtonState = 1
       THEN /\ times' = PlayingTimes
            /\ streak' = IF streak < UpdatePolls THEN streak + 1 ELSE streak
       ELSE times' = StoppedTimes /\ streak' = 0
    /\ UNCHANGED <<currentButtonState, file, madplay, amp, jpc, bpc, alive, presses>>

\* The poll updates the record.
Updates == times + 1 >= UpdatePolls /\ currentButtonState = 1

\* The trace line of each poll passes currentButtonState as the string of a
\* %s.  For 0 the C library prints "(null)"; -1 and 1 are no addresses.
GengxinTrace ==
    /\ alive /\ currentButtonState # 0
    /\ alive' = FALSE
    /\ UNCHANGED <<currentButtonState, file, madplay, amp, jpc, bpc, uVars, presses>>

\* The download script puts the file on the card, or takes it away.
FileChanges ==
    /\ file' = ~file
    /\ UNCHANGED <<currentButtonState, madplay, amp, jpc, bpc, uVars, alive, presses>>

\* The rest of the world goes on when the program is gone.
Gone == ~alive /\ UNCHANGED vars

(***************************************************************************)
(* Properties.                                                             *)
(***************************************************************************)
Rest == jpc = "done" /\ bpc = "poll"

\* When both threads are at rest, a stopped state means silence: no race of
\* the automatic start with the key leaves a madplay behind that the next
\* press would double instead of stopping.
StoppedMeansSilent == Rest /\ currentButtonState = 0 => madplay = 0

\* A record is updated only after UpdatePolls polls in a row that saw the
\* music playing: a stop in between starts the count anew.
UpdateNeedsStreak == [][GengxinPoll /\ Updates => streak + 1 >= UpdatePolls]_vars

\* If the file stays on the card and the program runs, JianceYinpin gets as
\* far as playing it.
MusicStarts == []file /\ []alive => <>(jpc = "done")
=============================================================================
