------------------------------- MODULE KeyPad -------------------------------
(***************************************************************************)
(* The keys of monitor/monitor_task.c: the play key, polled by             *)
(* Bofangzanting, and the volume keys, polled in turn by Yinliangzengjian. *)
(*                                                                         *)
(* Each poll that finds the key down (the line reads 0) counts; a poll     *)
(* that finds it up acts if more than Debounce polls were counted, and     *)
(* only when the key has acted does the count start anew.  The line may    *)
(* read anything at each poll: fingers move, contacts bounce.              *)
(***************************************************************************)
EXTENDS Integers

CONSTANTS
    Debounce,  \* 5
    MinVolume, MaxVolume,  \* 3 and 9
    MaxDown    \* bound: polls that are counted

ASSUME KeyPadAssumption ==
    /\ Debounce \in Nat /\ MaxDown \in Nat /\ Debounce < MaxDown
    /\ MinVolume \in Nat /\ MaxVolume \in Nat /\ MinVolume <= MaxVolume

Keys == {"play", "add", "sub"}

VARIABLES
    presstimes, \* presstimes, pressaddtimes, presssubtimes
    turn,       \* the key Yinliangzengjian polls next
    currentVolume,
    \* Observation:
    held        \* polls that found the key down since it last began to act

keyVars == <<presstimes, turn, currentVolume, held>>

KeyInit ==
    /\ presstimes = [k \in Keys |-> 0]
    /\ turn = "add"
    /\ currentVolume = MaxVolume
    /\ held = [k \in Keys |-> 0]

\* Yinliangzengjian polls "add" and "sub" alternately, Bofangzanting "play".
Polled(k) == k = "play" \/ k = turn
Advance(k) == turn' = CASE k = "play" -> turn [] k = "add" -> "sub" [] k = "sub" -> "add"

Earned(k) == presstimes[k] > Debounce

PollDown(k) ==
    /\ Polled(k) /\ presstimes[k] < MaxDown
    /\ presstimes' = [presstimes EXCEPT ![k] = @ + 1]
    /\ held' = [held EXCEPT ![k] = IF @ < MaxDown THEN @ + 1 ELSE @]
    /\ Advance(k)
    /\ UNCHANGED currentVolume

\* A count that is too low is kept.
PollUp(k) ==
    /\ Polled(k) /\ ~Earned(k)
    /\ Advance(k)
    /\ UNCHANGED <<presstimes, currentVolume, held>>

\* Mutant: the volume is lowered down to 0, as VolumeBtn_Pressdown does.
VolumeAfterLow(k) ==
    CASE k = "add" /\ currentVolume < MaxVolume -> currentVolume + 1
      [] k = "sub" /\ currentVolume > 0 -> currentVolume - 1
      [] OTHER -> currentVolume

VolumeAfter(k) ==
    CASE k = "add" /\ currentVolume < MaxVolume -> currentVolume + 1
      [] k = "sub" /\ currentVolume > MinVolume -> currentVolume - 1
      [] OTHER -> currentVolume

VolumeActs(k) ==
    /\ k # "play" /\ Polled(k) /\ Earned(k)
    /\ currentVolume' = VolumeAfter(k)
    /\ presstimes' = [presstimes EXCEPT ![k] = 0]
    /\ held' = [held EXCEPT ![k] = 0]
    /\ Advance(k)

\* The play key begins to act (Buttons composes this with Player's BofangPress),
\* and has acted.
PlayActs ==
    /\ Earned("play")
    /\ held' = [held EXCEPT !["play"] = 0]
    /\ UNCHANGED <<presstimes, turn, currentVolume>>

PlayActed ==
    /\ presstimes' = [presstimes EXCEPT !["play"] = 0]
    /\ UNCHANGED <<turn, currentVolume, held>>

(***************************************************************************)
(* Properties.                                                             *)
(***************************************************************************)
\* Every action of a key is paid for with more than Debounce polls that found it
\* down since its last one: a press acts once, however long it is held and
\* whatever the other keys do; and the volume stays where the motor still works.
ActsEarned ==
    [][/\ \A k \in Keys : held'[k] < held[k] => held[k] > Debounce
       /\ currentVolume' >= MinVolume]_keyVars
=============================================================================
