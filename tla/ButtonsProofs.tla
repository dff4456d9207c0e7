--------------------------- MODULE ButtonsProofs ----------------------------
(***************************************************************************)
(* Proofs about Buttons: the music player and the keys, for every number   *)
(* of presses, polls and debouncing counts.                                *)
(***************************************************************************)
EXTENDS Buttons, TLAPS

(***************************************************************************)
(* The player.  A madplay that runs in the stopped state has a thread that *)
(* is about to set the playing state; after a killall only JianceYinpin    *)
(* can have started one, and it waits before it goes on.                   *)
(***************************************************************************)
Starting == jpc \in {"switch", "state"} \/ bpc \in {"switch", "state", "again"}

PInv ==
    /\ madplay \in Nat
    /\ currentButtonState = 0 /\ madplay # 0 => Starting
    /\ bpc = "clear" /\ madplay # 0 => jpc = "switch"
    /\ bpc = "init" => jpc \in {"init", "look", "prompt"} /\ madplay = 0
    /\ jpc = "init" => bpc \in {"init", "poll"} /\ madplay = 0

LEMMA JianceKeeps == ASSUME PInv, Jiance PROVE PInv'
<1>1. CASE JianceInit
  BY <1>1 DEF JianceInit, PInv, Starting
<1>2. CASE JianceLook
  BY <1>2 DEF JianceLook, PInv, Starting
<1>3. CASE JiancePrompt
  BY <1>3 DEF JiancePrompt, PInv, Starting
<1>4. CASE JiancePlay
  BY <1>4 DEF JiancePlay, StartMadplay, PInv, Starting
<1>5. CASE JianceSwitch
  BY <1>5 DEF JianceSwitch, PInv, Starting
<1>6. CASE JianceState
  BY <1>6 DEF JianceState, SetPlaying, PInv, Starting
<1> QED
  BY <1>1, <1>2, <1>3, <1>4, <1>5, <1>6 DEF Jiance

LEMMA BofangKeeps ==
    ASSUME PInv, BofangInit \/ BofangPress \/ BofangAct \/ BofangSwitch \/ BofangState \/ BofangClear
    PROVE  PInv'
<1>1. CASE BofangInit
  BY <1>1 DEF BofangInit, PInv, Starting
<1>2. CASE BofangPress
  BY <1>2 DEF BofangPress, PInv, Starting
<1>3. CASE BofangAct
  BY <1>3 DEF BofangAct, StartMadplay, KillMadplay, PInv, Starting
<1>4. CASE BofangSwitch
  BY <1>4 DEF BofangSwitch, PInv, Starting
<1>5. CASE BofangState
  BY <1>5 DEF BofangState, SetPlaying, PInv, Starting
<1>6. CASE BofangClear
  BY <1>6 DEF BofangClear, PInv, Starting
<1> QED
  BY <1>1, <1>2, <1>3, <1>4, <1>5, <1>6

(***************************************************************************)
(* GengxinBofang: the counter never runs ahead of the polls in a row.      *)
(***************************************************************************)
UInv == times \in Nat /\ streak \in Nat /\ times <= streak /\ times < UpdatePolls

LEMMA GengxinKeeps == ASSUME UInv, GengxinPoll PROVE UInv'
BY PlayerAssumption DEF UInv, GengxinPoll, PlayingTimes, StoppedTimes

(***************************************************************************)
(* The keys: a count is at most the number of polls that found the key     *)
(* down, but for the play key between its press and the end of its action, *)
(* in which Bofangzanting does not poll it.                                *)
(***************************************************************************)
Acting(k) == k = "play" /\ bpc \notin {"init", "poll"}

KInv ==
    /\ presstimes \in [Keys -> 0 .. MaxDown] /\ held \in [Keys -> 0 .. MaxDown]
    /\ \A k \in Keys : presstimes[k] <= held[k] \/ Acting(k)
    /\ currentVolume \in MinVolume .. MaxVolume

LEMMA VolumeStays ==
    ASSUME currentVolume \in MinVolume .. MaxVolume, NEW k
    PROVE  VolumeAfter(k) \in MinVolume .. MaxVolume
<1>1. \/ VolumeAfter(k) = currentVolume
      \/ VolumeAfter(k) = currentVolume + 1 /\ currentVolume < MaxVolume
      \/ VolumeAfter(k) = currentVolume - 1 /\ currentVolume > MinVolume
  BY Zenon DEF VolumeAfter
<1> QED
  BY <1>1, KeyPadAssumption

LEMMA PollKeeps ==
    ASSUME KInv, NEW k \in Keys, UNCHANGED bpc, ~Acting(k),
           PollDown(k) \/ PollUp(k) \/ VolumeActs(k)
    PROVE  KInv'
<1>1. CASE PollDown(k)
  BY <1>1, KeyPadAssumption DEF PollDown, KInv, Acting
<1>2. CASE PollUp(k)
  BY <1>2 DEF PollUp, KInv, Acting
<1>3. CASE VolumeActs(k)
  BY <1>3, VolumeStays, KeyPadAssumption DEF VolumeActs, KInv, Acting
<1> QED
  BY <1>1, <1>2, <1>3

BInv == PInv /\ UInv /\ KInv

LEMMA BInvHolds == ButtonsSpec => []BInv
<1>1. ButtonsInit => BInv
  BY PlayerAssumption, KeyPadAssumption
    DEF ButtonsInit, Init, KeyInit, BInv, PInv, UInv, KInv, Starting
<1>2. BInv /\ [ButtonsNext]_allVars => BInv'
  <2> SUFFICES ASSUME BInv, [ButtonsNext]_allVars PROVE BInv'
    OBVIOUS
  <2>1. CASE VolumePoll
    BY <2>1, PollKeeps DEF VolumePoll, vars, BInv, PInv, UInv, Starting, Acting, Keys
  <2>2. CASE PlayPoll
    BY <2>2, PollKeeps DEF PlayPoll, vars, BInv, PInv, UInv, Starting, Acting, Keys
  <2>3. CASE PlayPress
    BY <2>3, BofangKeeps, KeyPadAssumption
      DEF PlayPress, BofangPress, PlayActs, BInv, UInv, uVars, KInv, Acting, Keys
  <2>4. CASE PlayDone
    BY <2>4, BofangKeeps, KeyPadAssumption
      DEF PlayDone, BofangState, BofangClear, PlayActed, BInv, UInv, uVars, KInv, Acting, Keys
  <2>5. CASE PlayGoesOn
    BY <2>5, BofangKeeps DEF PlayGoesOn, BofangAct, BofangSwitch, BofangState, BInv, UInv, uVars,
      KInv, keyVars, Acting
  <2>6. CASE Others
    <3>1. CASE Jiance
      BY <2>6, <3>1, JianceKeeps DEF Others, Jiance, JianceInit, JianceLook, JiancePrompt,
        JiancePlay, JianceSwitch, JianceState, BInv, UInv, uVars, KInv, keyVars, Acting
    <3>2. CASE BofangInit
      BY <2>6, <3>2, BofangKeeps DEF Others, BofangInit, BInv, UInv, uVars, KInv, keyVars, Acting
    <3>3. CASE GengxinPoll
      BY <2>6, <3>3, GengxinKeeps DEF Others, GengxinPoll, BInv, PInv, Starting, KInv, keyVars, Acting
    <3>4. CASE GengxinTrace \/ FileChanges \/ Gone
      BY <2>6, <3>4 DEF Others, GengxinTrace, FileChanges, Gone, vars, uVars, BInv, PInv, UInv,
        Starting, KInv, keyVars, Acting
    <3> QED
      BY <2>6, <3>1, <3>2, <3>3, <3>4 DEF Others
  <2>7. CASE UNCHANGED allVars
    BY <2>7 DEF allVars, vars, keyVars, BInv, PInv, UInv, Starting, KInv, Acting
  <2> QED
    BY <2>1, <2>2, <2>3, <2>4, <2>5, <2>6, <2>7 DEF ButtonsNext
<1> QED
  BY <1>1, <1>2, PTL DEF ButtonsSpec

\* No race of the automatic start with the play key leaves a madplay behind:
\* when both threads are at rest in the stopped state, none runs.
THEOREM StoppedIsSilent == ButtonsSpec => []StoppedMeansSilent
<1>1. BInv => StoppedMeansSilent
  BY DEF BInv, PInv, Starting, StoppedMeansSilent, Rest
<1> QED
  BY <1>1, BInvHolds, PTL

\* A record is updated only after UpdatePolls polls in a row that saw the music
\* playing.
THEOREM UpdatesAreEarned == ButtonsSpec => UpdateNeedsStreak
<1>1. BInv => [GengxinPoll /\ Updates => streak + 1 >= UpdatePolls]_vars
  BY PlayerAssumption DEF BInv, UInv, Updates
<1> QED
  BY <1>1, BInvHolds, PTL DEF UpdateNeedsStreak

\* A key acts only after more than Debounce polls that found it down since it
\* last acted, and the volume never falls below its least.
THEOREM KeysActWhenEarned == ButtonsSpec => ActsEarned
<1>1. BInv /\ BInv' /\ [ButtonsNext]_allVars =>
        [/\ \A k \in Keys : held'[k] < held[k] => held[k] > Debounce
         /\ currentVolume' >= MinVolume]_keyVars
  <2> SUFFICES ASSUME BInv, BInv', [ButtonsNext]_allVars
               PROVE  /\ \A k \in Keys : held'[k] < held[k] => held[k] > Debounce
                      /\ currentVolume' >= MinVolume
    OBVIOUS
  <2>1. currentVolume' >= MinVolume
    BY KeyPadAssumption DEF BInv, KInv
  <2>2. held \in [Keys -> 0 .. MaxDown]
    BY DEF BInv, KInv
  <2>3. CASE UNCHANGED held
    BY <2>1, <2>2, <2>3
  <2>4. ASSUME NEW k \in Keys, PollDown(k) PROVE \A j \in Keys : ~(held'[j] < held[j])
    BY <2>2, <2>4, KeyPadAssumption DEF PollDown
  <2>5. ASSUME NEW k \in Keys, VolumeActs(k)
        PROVE  \A j \in Keys : held'[j] < held[j] => held[j] > Debounce
    <3>1. presstimes[k] <= held[k] /\ presstimes[k] > Debounce /\ presstimes[k] \in 0 .. MaxDown
      BY <2>5 DEF VolumeActs, Earned, BInv, KInv, Acting
    <3> QED
      BY <2>2, <2>5, <3>1, KeyPadAssumption DEF VolumeActs
  <2>6. CASE PlayPress
    <3>1. /\ presstimes["play"] <= held["play"] /\ presstimes["play"] > Debounce
          /\ presstimes["play"] \in 0 .. MaxDown
      BY <2>6 DEF PlayPress, PlayActs, BofangPress, Earned, BInv, KInv, Acting, Keys
    <3> QED
      BY <2>1, <2>2, <2>6, <3>1, KeyPadAssumption DEF PlayPress, PlayActs, Keys
  <2>7. CASE VolumePoll
    BY <2>1, <2>3, <2>4, <2>5, <2>7 DEF VolumePoll, PollUp, Keys
  <2>8. CASE PlayPoll
    BY <2>1, <2>3, <2>4, <2>8 DEF PlayPoll, PollUp, Keys
  <2>9. CASE PlayDone \/ PlayGoesOn \/ Others \/ UNCHANGED allVars
    BY <2>3, <2>9 DEF PlayDone, PlayActed, PlayGoesOn, Others, allVars, keyVars
  <2> QED
    BY <2>6, <2>7, <2>8, <2>9 DEF ButtonsNext
<1> QED
  BY <1>1, BInvHolds, PTL DEF ButtonsSpec, ActsEarned
=============================================================================
