------------------------------- MODULE Buttons ------------------------------
(***************************************************************************)
(* The keys with the player they work.  While Bofangzanting acts on the    *)
(* play key it does not poll it, and it clears the count afterwards.       *)
(***************************************************************************)
EXTENDS Player, KeyPad

allVars == <<vars, keyVars>>

ButtonsInit == Init /\ KeyInit

\* Yinliangzengjian, one poll.
VolumePoll ==
    /\ alive
    /\ \E k \in {"add", "sub"} : PollDown(k) \/ PollUp(k) \/ VolumeActs(k)
    /\ UNCHANGED vars

\* Bofangzanting, a poll that does not act.
PlayPoll ==
    /\ alive /\ bpc = "poll"
    /\ PollDown("play") \/ PollUp("play")
    /\ UNCHANGED vars

PlayPress == BofangPress /\ PlayActs

PlayDone == (BofangState \/ BofangClear) /\ bpc' = "poll" /\ PlayActed

PlayGoesOn ==
    \/ (BofangAct \/ BofangSwitch) /\ UNCHANGED keyVars
    \/ BofangState /\ bpc' # "poll" /\ UNCHANGED keyVars

Others ==
    /\ Jiance \/ BofangInit \/ GengxinPoll \/ GengxinTrace \/ FileChanges \/ Gone
    /\ UNCHANGED keyVars

ButtonsNext == VolumePoll \/ PlayPoll \/ PlayPress \/ PlayDone \/ PlayGoesOn \/ Others

\* Each thread runs on; nobody has to press a key.
ButtonsFairness ==
    /\ WF_allVars(Jiance /\ UNCHANGED keyVars)
    /\ WF_allVars(BofangInit /\ UNCHANGED keyVars)
    /\ WF_allVars(PlayDone \/ PlayGoesOn)
    /\ WF_allVars(GengxinPoll /\ UNCHANGED keyVars)

ButtonsSpec == ButtonsInit /\ [][ButtonsNext]_allVars /\ ButtonsFairness
=============================================================================
