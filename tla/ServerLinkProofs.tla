--------------------------- MODULE ServerLinkProofs ---------------------------
(***************************************************************************)
(* OffMeansClosed holds for every number of attempts, polls, sockets,      *)
(* frames under way and play records.                                      *)
(***************************************************************************)
EXTENDS ServerLink, TLAPS

\* What makes it inductive: an open socket on a line that is off exists only
\* inside EtherLogon, from the connect to the end of the log-on.
LogonOwnsSocket ==
    sock = 1 /\ SvrCommLineState = 0 =>
        /\ pc \in {"send", "poll", "refuse", "check", "ver", "on"}
        /\ pc \in {"send", "poll"} => cmd = "logon"

\* The parts of the type invariant the argument needs.
LineType == sock \in {0, 1} /\ SvrCommLineState \in {0, 1} /\ ret \in {"peek", "note", "tick"}

IInv == LineType /\ LogonOwnsSocket

\* EtherTask starts with no socket.
LEMMA InitIInv == Init => IInv
BY DEF Init, IInv, LineType, LogonOwnsSocket

\* A send and a receive leave the socket and the line as they are or close
\* both.
LEMMA TransferKeepsLine ==
    ASSUME NEW t, RawSendOk(t) \/ RawSendFail \/ TakeEof \/ TakeNone \/ Take(t)
    PROVE  UNCHANGED <<sock, SvrCommLineState>>
           \/ (sock' = 0 /\ SvrCommLineState' = 0)
BY DEF RawSendOk, RawSendFail, TakeEof, TakeNone, Take, CloseSocket, linkVars

\* The inner steps of EtherTask: sending, waiting and logging on.
LEMMA LogonPreserves ==
    ASSUME IInv,
           \/ KeepBegin \/ EtherConnectOk \/ EtherConnectFail
           \/ SendAttempt \/ SendGivesUp \/ PollFrame \/ PollNothing \/ PollsOver
           \/ LogonRefused \/ LogonReport \/ LogonDone
    PROVE  IInv'
<1> USE DEF IInv, LineType, LogonOwnsSocket
<1>1. CASE KeepBegin
  BY <1>1 DEF KeepBegin, SendWait, linkVars
<1>2. CASE EtherConnectOk
  BY <1>2 DEF EtherConnectOk, SendWait
<1>3. CASE EtherConnectFail
  BY <1>3 DEF EtherConnectFail, CloseSocket, Return
<1>4. CASE SendAttempt
  BY <1>4, TransferKeepsLine DEF SendAttempt
<1>5. CASE SendGivesUp
  BY <1>5 DEF SendGivesUp, CloseSocket, Return
<1>6. CASE PollFrame
  <2>1. PICK f \in Frame :
          /\ Take(f)
          /\ IF cmd = "hb" /\ f # "cmd"
             THEN Return
             ELSE /\ pc' = IF cmd = "hb" THEN "msg" ELSE IF f = cmd THEN "check" ELSE "refuse"
                  /\ UNCHANGED <<ret, waitVars>>
    BY <1>6 DEF PollFrame
  <2>2. pc = "poll" /\ UNCHANGED <<sock, SvrCommLineState>>
    BY <1>6, <2>1 DEF PollFrame, Take, linkVars
  <2>3. sock = 1 /\ SvrCommLineState = 0 => pc' \in {"check", "refuse"}
    BY <2>1, <2>2
  <2>4. ret' \in {"peek", "note", "tick"}
    BY <2>1 DEF Return
  <2>5. QED
    BY <2>2, <2>3, <2>4
<1>7. CASE PollNothing
  BY <1>7, TransferKeepsLine DEF PollNothing
<1>8. CASE PollsOver
  BY <1>8 DEF PollsOver, linkVars, waitVars
<1>9. CASE LogonRefused
  BY <1>9 DEF LogonRefused, CloseSocket, Return
<1>10. CASE LogonReport
  BY <1>10, TransferKeepsLine DEF LogonReport, waitVars
<1>11. CASE LogonDone
  BY <1>11 DEF LogonDone, Return
<1>12. QED
  BY <1>1, <1>2, <1>3, <1>4, <1>5, <1>6, <1>7, <1>8, <1>9, <1>10, <1>11

\* The loop of EtherTask: notes, records, commands and the tick.
LEMMA LoopPreserves ==
    ASSUME IInv,
           \/ PeekNote \/ PeekNone \/ SvrNoteProc \/ AlarmProcSend \/ AlarmProcEnd
           \/ RecvFrame \/ RecvNothing \/ SvrMessageProc \/ TickKeep \/ TickNot
    PROVE  IInv'
<1> USE DEF IInv, LineType, LogonOwnsSocket
<1>1. CASE PeekNote
  BY <1>1 DEF PeekNote, linkVars
<1>2. CASE PeekNone
  BY <1>2 DEF PeekNone, linkVars
<1>3. CASE SvrNoteProc
  BY <1>3 DEF SvrNoteProc, linkVars
<1>4. CASE AlarmProcSend
  BY <1>4, TransferKeepsLine DEF AlarmProcSend, ctlVars
<1>5. CASE AlarmProcEnd
  BY <1>5 DEF AlarmProcEnd, linkVars
<1>6. CASE RecvFrame
  <2>1. PICK f \in Frame :
          /\ Take(f)
          /\ IF f = "cmd"
             THEN pc' = "msg" /\ ret' = "tick"
             ELSE pc' = "tick" /\ UNCHANGED ret
    BY <1>6 DEF RecvFrame
  <2>2. pc = "recv" /\ UNCHANGED <<sock, SvrCommLineState>>
    BY <1>6, <2>1 DEF RecvFrame, Take, linkVars
  <2>3. QED
    BY <2>1, <2>2
<1>7. CASE RecvNothing
  BY <1>7, TransferKeepsLine DEF RecvNothing, linkVars
<1>8. CASE SvrMessageProc
  BY <1>8, TransferKeepsLine DEF SvrMessageProc, linkVars, Return
<1>9. CASE TickKeep
  BY <1>9 DEF TickKeep, linkVars
<1>10. CASE TickNot
  BY <1>10 DEF TickNot, linkVars
<1>11. QED
  BY <1>1, <1>2, <1>3, <1>4, <1>5, <1>6, <1>7, <1>8, <1>9, <1>10

\* The network, the server and the other threads do not touch the line.
LEMMA NextIInv == IInv /\ [Next]_vars => IInv'
<1> SUFFICES ASSUME IInv, [Next]_vars PROVE IInv'
  OBVIOUS
<1>1. CASE EtherTask
  BY <1>1, LogonPreserves, LoopPreserves DEF EtherTask
<1>2. CASE ConnectionBreaks \/ ServerCommands \/ CalmsDown \/ RecordMade \/ UNCHANGED vars
  <2>1. UNCHANGED <<sock, SvrCommLineState, pc, ret, cmd>>
    BY <1>2 DEF ConnectionBreaks, ServerCommands, CalmsDown, RecordMade, vars, linkVars,
       ctlVars, waitVars
  <2>2. QED
    BY <2>1 DEF IInv, LineType, LogonOwnsSocket
<1>3. QED
  BY <1>1, <1>2 DEF Next

\* Whatever the network does, in the loop of EtherTask a line that is off has
\* no open socket.
THEOREM LinkOffMeansClosed == Spec => []OffMeansClosed
<1>1. IInv => OffMeansClosed
  BY DEF IInv, LineType, LogonOwnsSocket, OffMeansClosed, InLoop
<1>2. QED
  BY <1>1, InitIInv, NextIInv, PTL DEF Spec
===============================================================================
