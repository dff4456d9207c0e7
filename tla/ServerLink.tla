----------------------------- MODULE ServerLink -----------------------------
(***************************************************************************)
(* The link to the server (uplink/ether.c with UplinkSendWait of           *)
(* uplink/uplink_dl.c and AlarmProc of uplink/svrcomm.c).  One thread,     *)
(* EtherTask, connects, logs on, tests the link, receives commands and     *)
(* uploads play records; the network loses connections and answers, and    *)
(* the server answers late or in the middle of something else.             *)
(*                                                                         *)
(* Frames are abstracted to what IsEchoPkt tells apart: the echo of a      *)
(* log-on, the echo of a link test, and a command.  A damaged frame is one *)
(* that never arrives (UplinkRecv has the bytes).  When EtherKeepAlive is  *)
(* due is in KeepAlive; here it may be at any round of EtherTask.  The test *)
(* of exitflag is left out: nothing sets it.                               *)
(***************************************************************************)
EXTENDS Integers, Sequences

CONSTANTS
    Retry,    \* snd_retry, attempts of UplinkSendWait
    Times,    \* polls for an answer after each attempt
    MaxFd,    \* sockets the process may have open
    MaxNet,   \* bound: frames under way to the box
    MaxRec    \* bound: play records

ASSUME ServerLinkAssumption ==
    /\ Retry \in Nat /\ Times \in Nat \ {0} /\ MaxFd \in Nat
    /\ MaxNet \in Nat /\ MaxRec \in Nat

Echo == {"logon", "hb"}
Frame == Echo \cup {"cmd"}

VARIABLES
    sock,     \* SockEther is open
    leaked,   \* sockets nobody will close
    SvrCommLineState,  \* 0 off, 1 on
    kept,     \* frames read into ether_recvbuf and not taken yet
    pc,       \* where EtherTask is
    ret,      \* where EtherKeepAlive or SvrMessageProc returns to
    cmd, i, j,  \* UplinkSendWait: what is sent, attempts made, polls made
    note,     \* the event of a note is pending
    pending,  \* play records ActiveSendAlarm has not passed yet
    made,     \* play records made
    \* The network and the server:
    up,       \* the connection is alive
    net,      \* frames under way to the box
    calm      \* from now on nothing is lost and answers come in time

linkVars == <<sock, leaked, SvrCommLineState>>
waitVars == <<cmd, i, j>>
ctlVars == <<pc, ret, waitVars>>
netVars == <<up, net, calm>>
recVars == <<note, pending, made>>
vars == <<linkVars, kept, ctlVars, netVars, recVars>>

\* EtherTask starts with EtherKeepAlive.
Init ==
    /\ sock = 0 /\ leaked = 0 /\ SvrCommLineState = 0
    /\ kept = <<>>
    /\ pc = "keep" /\ ret = "peek"
    /\ cmd = "logon" /\ i = 0 /\ j = 0
    /\ note = FALSE /\ pending \in 0 .. MaxRec /\ made = pending
    /\ up = FALSE /\ net = <<>> /\ calm = FALSE

(***************************************************************************)
(* The socket.                                                             *)
(***************************************************************************)
\* CLOSE_SOCKET: what is under way is lost, what was read is kept.
CloseSocket ==
    /\ sock' = 0 /\ up' = FALSE /\ net' = <<>>

\* EtherRawSend of a frame of type t.  A live server answers what it is asked,
\* or loses it.  On a dead connection send may still succeed.
RawSendOk(t) ==
    /\ sock = 1
    /\ \/ up /\ t \in Echo /\ Len(net) <= MaxNet /\ net' = Append(net, t)
       \/ (up /\ t \in Echo /\ Len(net) <= MaxNet => ~calm) /\ net' = net
    /\ UNCHANGED <<linkVars, kept, up, calm>>

RawSendFail ==
    /\ sock = 0 \/ ~up
    /\ IF sock = 1
       THEN CloseSocket /\ SvrCommLineState' = 0
       ELSE UNCHANGED <<sock, SvrCommLineState, up, net>>
    /\ UNCHANGED <<leaked, kept, calm>>

\* UplinkRecvPkt returns frame f: the next one in ether_recvbuf, or the first
\* of the n frames a recv brings.
Take(f) ==
    /\ sock = 1
    /\ \/ /\ kept # <<>> /\ f = Head(kept) /\ kept' = Tail(kept)
          /\ UNCHANGED net
       \/ \E n \in 1 .. Len(net) :
          /\ kept = <<>> /\ f = Head(net) /\ kept' = SubSeq(net, 2, n)
          /\ net' = SubSeq(net, n + 1, Len(net))
    /\ UNCHANGED <<linkVars, up, calm>>

\* It finds the connection at its end.
TakeEof ==
    /\ sock = 1 /\ kept = <<>> /\ net = <<>> /\ ~up
    /\ CloseSocket /\ SvrCommLineState' = 0
    /\ UNCHANGED <<leaked, kept, calm>>

\* It finds nothing: what is under way may be late.
TakeNone ==
    /\ sock = 1 => kept = <<>> /\ up /\ (calm => net = <<>>)
    /\ UNCHANGED <<linkVars, kept, netVars>>

(***************************************************************************)
(* EtherKeepAlive.                                                         *)
(***************************************************************************)
SendWait(c) == pc' = "send" /\ cmd' = c /\ i' = 0 /\ j' = 0

\* EtherKeepAlive or SvrMessageProc is over, and UplinkSendWait with it.
Return ==
    /\ pc' = ret /\ ret' = "peek"
    /\ cmd' = "logon" /\ i' = 0 /\ j' = 0

\* A line that is on is tested, one that is off connected.
KeepBegin ==
    /\ pc = "keep"
    /\ IF SvrCommLineState = 1
       THEN SendWait("hb")
       ELSE pc' = "connect" /\ UNCHANGED waitVars
    /\ UNCHANGED <<linkVars, kept, ret, netVars, recVars>>

\* EtherConnect calls socket twice.
SocketsLeft == MaxFd - leaked

EtherConnectOk ==
    /\ pc = "connect" /\ SocketsLeft >= 2
    /\ sock' = 1 /\ leaked' = leaked + 1
    /\ up' = TRUE /\ net' = <<>>
    /\ SvrCommLineState' = 0
    /\ SendWait("logon")
    /\ UNCHANGED <<kept, ret, calm, recVars>>

EtherConnectFail ==
    /\ pc = "connect" /\ (SocketsLeft < 2 \/ ~calm)
    /\ leaked' = IF SocketsLeft = 0 THEN leaked ELSE leaked + 1
    /\ CloseSocket /\ SvrCommLineState' = 0
    /\ Return
    /\ UNCHANGED <<kept, calm, recVars>>

(***************************************************************************)
(* UplinkSendWait, and what its caller (EtherLogon, or EtherKeepAlive for  *)
(* the link test) does with the result.                                    *)
(***************************************************************************)
SendAttempt ==
    /\ pc = "send" /\ i < Retry
    /\ RawSendOk(cmd)
    /\ pc' = "poll" /\ i' = i + 1 /\ j' = 0
    /\ UNCHANGED <<ret, cmd, recVars>>

\* Mutant: a link test that fails closes the socket and leaves the line on.
SendGivesUpStaysOn ==
    /\ pc = "send"
    /\ (i < Retry /\ (sock = 0 \/ ~up)) \/ i = Retry
    /\ CloseSocket
    /\ Return
    /\ UNCHANGED <<leaked, SvrCommLineState, kept, calm, recVars>>

\* UPRTN_FAIL or UPRTN_TIMEOUT: the connection is given up; after a link test
\* it is built up again at once.
SendGivesUp ==
    /\ pc = "send"
    /\ (i < Retry /\ (sock = 0 \/ ~up)) \/ i = Retry
    /\ CloseSocket /\ SvrCommLineState' = 0
    /\ IF cmd = "logon"
       THEN Return
       ELSE pc' = "connect" /\ UNCHANGED <<ret, waitVars>>
    /\ UNCHANGED <<leaked, kept, calm, recVars>>

\* The first frame that arrives ends the wait.  An echo of what was sent is
\* UPRTN_OK, every other frame UPRTN_OKRCV, which refuses a log-on and after a
\* link test is left to SvrMessageProc; it knows no echo.
PollFrame ==
    /\ pc = "poll" /\ j < Times
    /\ \E f \in Frame :
        /\ Take(f)
        /\ IF cmd = "hb" /\ f # "cmd"
           THEN Return
           ELSE /\ pc' = IF cmd = "hb" THEN "msg" ELSE IF f = cmd THEN "check" ELSE "refuse"
                /\ UNCHANGED <<ret, waitVars>>
    /\ UNCHANGED recVars

PollNothing ==
    /\ pc = "poll" /\ j < Times
    /\ TakeEof \/ TakeNone
    /\ j' = j + 1
    /\ UNCHANGED <<pc, ret, cmd, i, recVars>>

PollsOver ==
    /\ pc = "poll" /\ j = Times
    /\ pc' = "send"
    /\ UNCHANGED <<linkVars, kept, ret, waitVars, netVars, recVars>>

(***************************************************************************)
(* EtherLogon after UplinkLogon.                                           *)
(***************************************************************************)
\* Mutant: a refused log-on leaves the socket open.
LogonRefusedOpen ==
    /\ pc = "refuse"
    /\ Return
    /\ UNCHANGED <<linkVars, kept, netVars, recVars>>

LogonRefused ==
    /\ pc = "refuse"
    /\ CloseSocket
    /\ Return
    /\ UNCHANGED <<leaked, SvrCommLineState, kept, calm, recVars>>

\* UplinkDeviceCheck and UplinkCheckVer; nobody looks at their results.
LogonReport ==
    /\ pc \in {"check", "ver"}
    /\ RawSendOk("report") \/ RawSendFail
    /\ pc' = IF pc = "check" THEN "ver" ELSE "on"
    /\ UNCHANGED <<ret, waitVars, recVars>>

\* Mutant: the log-on posts no note.
LogonDoneQuiet ==
    /\ pc = "on"
    /\ SvrCommLineState' = 1
    /\ Return
    /\ UNCHANGED <<sock, leaked, kept, netVars, recVars>>

LogonDone ==
    /\ pc = "on"
    /\ SvrCommLineState' = 1
    /\ note' = TRUE
    /\ Return
    /\ UNCHANGED <<sock, leaked, kept, netVars, pending, made>>

(***************************************************************************)
(* The loop of EtherTask.                                                  *)
(***************************************************************************)
\* SvrCommPeekEvent; RefreshKeepAlive may ask for EtherKeepAlive first.
PeekNote ==
    /\ pc = "peek" /\ note
    /\ note' = FALSE
    /\ \/ pc' = "note" /\ UNCHANGED ret
       \/ SvrCommLineState = 1 /\ pc' = "keep" /\ ret' = "note"
    /\ UNCHANGED <<linkVars, kept, waitVars, netVars, pending, made>>

PeekNone ==
    /\ pc = "peek" /\ ~note
    /\ pc' = "recv"
    /\ UNCHANGED <<linkVars, kept, ret, waitVars, netVars, recVars>>

SvrNoteProc ==
    /\ pc = "note"
    /\ pc' = IF SvrCommLineState = 1 THEN "alarm" ELSE "recv"
    /\ UNCHANGED <<linkVars, kept, ret, waitVars, netVars, recVars>>

\* AlarmProc: ActiveSendAlarm moves its cursor, then the record is sent without
\* waiting and without looking at the result.
AlarmProcSend ==
    /\ pc = "alarm" /\ pending > 0
    /\ pending' = pending - 1
    /\ RawSendOk("record") \/ RawSendFail
    /\ UNCHANGED <<ctlVars, note, made>>

AlarmProcEnd ==
    /\ pc = "alarm" /\ pending = 0
    /\ pc' = "recv"
    /\ UNCHANGED <<linkVars, kept, ret, waitVars, netVars, recVars>>

RecvFrame ==
    /\ pc = "recv" /\ SvrCommLineState = 1
    /\ \E f \in Frame :
        /\ Take(f)
        /\ IF f = "cmd"
           THEN pc' = "msg" /\ ret' = "tick"
           ELSE pc' = "tick" /\ UNCHANGED ret
    /\ UNCHANGED <<waitVars, recVars>>

RecvNothing ==
    /\ pc = "recv"
    /\ IF SvrCommLineState = 1
       THEN TakeEof \/ TakeNone
       ELSE UNCHANGED <<linkVars, kept, netVars>>
    /\ pc' = "tick"
    /\ UNCHANGED <<ret, waitVars, recVars>>

\* SvrMessageProc: the handler of the command answers or does not.
SvrMessageProc ==
    /\ pc = "msg"
    /\ \/ RawSendOk("reply") \/ RawSendFail
       \/ UNCHANGED <<linkVars, kept, netVars>>
    /\ Return
    /\ UNCHANGED recVars

TickKeep ==
    /\ pc = "tick"
    /\ pc' = "keep" /\ ret' = "peek"
    /\ UNCHANGED <<linkVars, kept, waitVars, netVars, recVars>>

TickNot ==
    /\ pc = "tick"
    /\ pc' = "peek"
    /\ UNCHANGED <<linkVars, kept, ret, waitVars, netVars, recVars>>

EtherTask ==
    \/ KeepBegin \/ EtherConnectOk \/ EtherConnectFail
    \/ SendAttempt \/ SendGivesUp \/ PollFrame \/ PollNothing \/ PollsOver
    \/ LogonRefused \/ LogonReport \/ LogonDone
    \/ PeekNote \/ PeekNone \/ SvrNoteProc \/ AlarmProcSend \/ AlarmProcEnd
    \/ RecvFrame \/ RecvNothing \/ SvrMessageProc \/ TickKeep \/ TickNot

(***************************************************************************)
(* The network, the server and the other threads.                          *)
(***************************************************************************)
ConnectionBreaks ==
    /\ up /\ ~calm
    /\ up' = FALSE /\ net' \in {net, <<>>}
    /\ UNCHANGED <<linkVars, kept, ctlVars, calm, recVars>>

\* A calm server sends commands to a box that is logged on only.
ServerCommands ==
    /\ up /\ Len(net) < MaxNet
    /\ calm => SvrCommLineState = 1
    /\ net' = Append(net, "cmd")
    /\ UNCHANGED <<linkVars, kept, ctlVars, up, calm, recVars>>

CalmsDown ==
    /\ ~calm /\ calm' = TRUE
    /\ UNCHANGED <<linkVars, kept, ctlVars, up, net, recVars>>

RecordMade ==
    /\ made < MaxRec
    /\ made' = made + 1 /\ pending' = pending + 1
    /\ UNCHANGED <<linkVars, kept, ctlVars, netVars, note>>

Next ==
    \/ EtherTask
    \/ ConnectionBreaks \/ ServerCommands \/ CalmsDown \/ RecordMade

\* The thread runs on, and KeepAliveProc asks for EtherKeepAlive again and
\* again (KeepAlive, NeverPutOff).
Fairness == WF_vars(EtherTask) /\ SF_vars(TickKeep)

Spec == Init /\ [][Next]_vars /\ Fairness

(***************************************************************************)
(* Properties.                                                             *)
(***************************************************************************)
InLoop == pc \in {"peek", "note", "alarm", "recv", "tick"}
Exhausted == SocketsLeft < 2
Online == SvrCommLineState = 1 /\ sock = 1 /\ up

\* In the loop of EtherTask a line that is off has no socket: whatever broke
\* off, refused or timed out, no connection is left open behind the back of
\* the state, where nobody would read from it or close it.
OffMeansClosed == InLoop /\ SvrCommLineState = 0 => sock = 0

\* Once the network and the server behave, the box gets on line and stays so,
\* from any state a break, a late answer or a refused log-on may have left,
\* unless it has used up its sockets.
LinkComesUp == calm ~> [](InLoop => Online) \/ Exhausted

\* After each log-on the play records waiting are passed to the server, or the
\* line is off again.
BacklogPassed == pc = "on" ~> pending = 0 \/ (SvrCommLineState = 0 /\ pc # "on")
=============================================================================
