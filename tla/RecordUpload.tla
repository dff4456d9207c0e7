---------------------------- MODULE RecordUpload ----------------------------
(***************************************************************************)
(* How play records reach the server: EtherTask's loop (uplink/ether.c)    *)
(* with the note of a log-on (uplink/svrcomm.c), composed of KeepAlive,    *)
(* which says when the link is tested or dialled, and AlarmRing, whose     *)
(* records AlarmProc sends while the other threads close new ones.         *)
(*                                                                         *)
(* One pass of the loop peeks the note event, serves the notes if the line *)
(* is on, and calls KeepAliveProc.  EtherKeepAlive (pc = "due") interrupts *)
(* the pass where it is called.  AlarmProc does not look at the line again *)
(* once it has begun: records it passes after a break are gone.            *)
(***************************************************************************)
EXTENDS KeepAlive, AlarmRing

VARIABLES
    note,   \* SvrCommNoteId has SVRNOTEID_ALARM
    ev,     \* SvrCommEvent has SVREV_NOTE
    upc     \* EtherTask: "peek", "notes", "alarm" (AlarmProc) or "keep"

noteVars == <<note, ev>>
uploadVars == <<vars, ringAll, noteVars, upc>>

UploadInit ==
    /\ Init /\ RingInit
    /\ note = FALSE /\ ev = FALSE
    /\ upc = "peek"

(***************************************************************************)
(* EtherTask.                                                              *)
(***************************************************************************)
\* SvrCommPeekEvent takes the event; RefreshKeepAlive may call for a link test
\* before the notes are looked at.
PeekNote ==
    /\ upc = "peek" /\ pc = "poll"
    /\ ev /\ ev' = FALSE
    /\ upc' = "notes"
    /\ \/ note /\ RefreshKeepAlive
       \/ ~(note /\ SvrCommLineState = 1 /\ cnt >= TIMEOUT_GNOWAIT) /\ UNCHANGED vars
    /\ UNCHANGED <<ringAll, note>>

PeekNone ==
    /\ upc = "peek" /\ pc = "poll" /\ ~ev
    /\ upc' = "keep"
    /\ UNCHANGED <<vars, ringAll, noteVars>>

\* SvrNoteProc is called only while the line is on.
ServeNotes ==
    /\ upc = "notes" /\ pc = "poll"
    /\ upc' = IF SvrCommLineState = 1 /\ note THEN "alarm" ELSE "keep"
    /\ UNCHANGED <<vars, ringAll, noteVars>>

\* AlarmProc's loop: the next record, or -1, which ends it and clears the note.
AlarmProcSend ==
    /\ upc = "alarm"
    /\ ActiveSendAlarm
    /\ UNCHANGED <<vars, noteVars, upc>>

AlarmProcEnd ==
    /\ upc = "alarm"
    /\ ActiveSendAlarmNone \/ (cur = head /\ UNCHANGED ringAll)
    /\ note' = FALSE
    /\ upc' = "keep"
    /\ UNCHANGED <<vars, ev>>

KeepAliveCall ==
    /\ upc = "keep"
    /\ KeepAliveProcDue \/ KeepAliveProcNot
    /\ upc' = "peek"
    /\ UNCHANGED <<ringAll, noteVars>>

\* EtherKeepAlive.  A log-on that worked leaves a note; a link test that was
\* answered, or met a command from the server, does not.
LinkTested ==
    /\ ClearKeepAlive \/ (SvrCommLineState = 1 /\ KeepAliveEnd(1))
    /\ UNCHANGED <<ringAll, noteVars, upc>>

LoggedOn ==
    /\ KeepAliveEnd(1)
    /\ note' = TRUE /\ ev' = TRUE
    /\ UNCHANGED <<ringAll, upc>>

LogonFailed ==
    /\ KeepAliveEnd(0)
    /\ UNCHANGED <<ringAll, noteVars, upc>>

EtherTask ==
    \/ PeekNote \/ PeekNone \/ ServeNotes \/ AlarmProcSend \/ AlarmProcEnd
    \/ KeepAliveCall \/ LinkTested \/ LoggedOn \/ LogonFailed

(***************************************************************************)
(* The other threads, the network, the power.                              *)
(***************************************************************************)
RecordStep ==
    /\ MakeAlarmG \/ SaveAlarm \/ ClearAlarm \/ ClearRunState
    /\ UNCHANGED <<vars, noteVars, upc>>

Environment ==
    /\ LineBreaks \/ SetParam
    /\ UNCHANGED <<ringAll, noteVars, upc>>

PowerFails ==
    /\ Restart \/ PowerCutInSave
    /\ PowerCycle
    /\ note' = FALSE /\ ev' = FALSE
    /\ upc' = "peek"

UploadNext == EtherTask \/ RecordStep \/ Environment \/ PowerFails

UploadSpec == UploadInit /\ [][UploadNext]_uploadVars
=============================================================================
