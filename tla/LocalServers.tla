---------------------------- MODULE LocalServers ----------------------------
(***************************************************************************)
(* The servers through which a local program asks the controller           *)
(* (uplink/ethsvr.c, tcpsvr.c, localsvr.c) and the messages they answer    *)
(* (uplink/svrmsg.c).                                                      *)
(*                                                                         *)
(* EthSvr takes datagrams: the bytes of a frame may come in several of     *)
(* them, several frames in one, and the answer goes to the address that    *)
(* the last recvfrom has stored.  TcpSvr and LocalSvr serve one connection *)
(* at a time and remember in cSockConnectNum that there is one.  The       *)
(* servers share nothing but the two flags the messages set, so each       *)
(* behaviour looks at one of them, kind.  Frames are told apart by         *)
(* UplinkRecv; here a frame is a head and a command byte.                  *)
(***************************************************************************)
EXTENDS Integers, Sequences

CONSTANTS
    Clients,      \* addresses datagrams come from
    MaxData,      \* bound: datagrams sent
    MaxBacklog,   \* bound: connections waiting (listen's is 5)
    MaxFaults     \* bound: failures of accept and send

ASSUME LocalServersAssumption ==
    MaxData \in Nat /\ MaxBacklog \in Nat /\ MaxFaults \in Nat

NoClient == "nobody"
Commands == {"login", "heartbeat", "audio", "check", "unknown"}
Payloads ==
    {<<>>, <<"head">>} \cup {<<c>> : c \in Commands} \cup {<<"head", c>> : c \in Commands}
        \cup {<<"head", c, "head">> : c \in Commands}

VARIABLES
    kind,             \* the server: "udp" (EthSvr), "tcp" or "local"
    exitflag,
    UpdateAudiourlFlag, DeviceCheckResultFlag,
    \* EthSvr:
    SockEthSvr,       \* "none", "bound"
    AddrEthSvr,
    EthSvrRcv,        \* the bytes from EthSvrRcvHead on, each with its sender
    frame,            \* UplinkRecvPkt has seen: "" nothing, "head", or a command
    epc,              \* "init", "recv", "msg", "bottom", "ended"
    net,              \* datagrams on their way, in any order
    ndata,            \* datagrams sent so far
    \* TcpSvr or LocalSvr:
    listening,        \* socket, bind and listen have worked
    cSock,            \* "none", "open", "stale": a descriptor that is closed
    cSockConnectNum,
    peer,             \* the client of an open cSock is there
    backlog,
    spc,              \* "init", "wait", "recv", "msg", "bottom", "ended"
    \* Observation:
    asked, answered,  \* answers due to each client, and sent to it
    refusals, faults  \* clients turned away; failures of accept and send

noteVars == <<UpdateAudiourlFlag, DeviceCheckResultFlag>>
ethVars == <<SockEthSvr, AddrEthSvr, EthSvrRcv, frame, epc, net, ndata, asked, answered>>
streamVars == <<listening, cSock, cSockConnectNum, peer, backlog, spc, refusals, faults>>
vars == <<exitflag, noteVars, ethVars, kind, streamVars>>

Init ==
    /\ exitflag = FALSE
    /\ UpdateAudiourlFlag = 0 /\ DeviceCheckResultFlag = "none"
    /\ SockEthSvr = "none" /\ AddrEthSvr = NoClient /\ EthSvrRcv = <<>>
    /\ frame = "" /\ epc = "init" /\ net = {} /\ ndata = 0
    /\ kind \in {"udp", "tcp", "local"}
    /\ listening = FALSE /\ cSock = "none" /\ cSockConnectNum = 0
    /\ peer = FALSE /\ backlog = 0 /\ spc = "init"
    /\ asked = [c \in Clients |-> 0] /\ answered = [c \in Clients |-> 0]
    /\ refusals = 0 /\ faults = 0

(***************************************************************************)
(* SvrMessageProc: which messages are answered, and what they change.      *)
(***************************************************************************)
\* Log-on (with either result) and heartbeat answer themselves, the audio
\* address returns 1 and is echoed; the result of a device check, a command
\* that is not in the table and a frame that is too long are not answered.
Answers(cmd) == cmd \in {"login", "heartbeat", "audio"}

Handle(cmd) ==
    /\ UpdateAudiourlFlag' = IF cmd = "audio" THEN 1 ELSE UpdateAudiourlFlag
    /\ IF cmd = "check"
       THEN DeviceCheckResultFlag' \in {"continue", "stop"}
       ELSE UNCHANGED DeviceCheckResultFlag

(***************************************************************************)
(* EthSvr.                                                                 *)
(***************************************************************************)
\* EthSvrNetInit: when the port cannot be bound the task runs on without a socket.
EthSvrNetInit ==
    /\ epc = "init" /\ epc' = "recv"
    /\ SockEthSvr' \in {"none", "bound"}
    /\ UNCHANGED <<exitflag, noteVars, AddrEthSvr, EthSvrRcv, frame, net, ndata,
                   asked, answered, kind, streamVars>>

Tagged(d) == [i \in 1 .. Len(d.bytes) |-> [byte |-> d.bytes[i], from |-> d.from]]

\* EthSvrGetChar reads a datagram when the one before is used up.
RecvFrom(d) ==
    /\ SockEthSvr = "bound" /\ EthSvrRcv = <<>>
    /\ net' = net \ {d}
    /\ AddrEthSvr' = d.from
    /\ EthSvrRcv' = Tagged(d)

\* UplinkRecvPkt takes a byte: the head of a frame, or what completes it.
Taken(b) ==
    IF b.byte = "head" THEN "head" ELSE IF frame = "head" THEN b.byte ELSE frame

\* Mutant: the next datagram is fetched as soon as the last byte is taken.
NextByteAhead ==
    /\ EthSvrRcv # <<>> /\ SockEthSvr = "bound"
    /\ IF Len(EthSvrRcv) = 1 /\ net # {}
       THEN \E d \in net : net' = net \ {d} /\ AddrEthSvr' = d.from /\ EthSvrRcv' = Tagged(d)
       ELSE EthSvrRcv' = Tail(EthSvrRcv) /\ UNCHANGED <<net, AddrEthSvr>>

NextByte ==
    /\ EthSvrRcv # <<>> /\ SockEthSvr = "bound"
    /\ EthSvrRcv' = Tail(EthSvrRcv)
    /\ UNCHANGED <<net, AddrEthSvr>>

EthSvrFill ==
    /\ epc = "recv"
    /\ \E d \in net : RecvFrom(d) /\ epc' = IF d.bytes = <<>> THEN "bottom" ELSE "recv"
    /\ UNCHANGED <<exitflag, noteVars, SockEthSvr, frame, ndata, asked, answered,
                   kind, streamVars>>

EthSvrGetChar ==
    LET b == Head(EthSvrRcv)
        complete == frame = "head" /\ b.byte # "head"
    IN  /\ epc = "recv" /\ NextByte
        /\ frame' = Taken(b)
        /\ epc' = IF complete THEN "msg" ELSE "recv"
        /\ asked' = IF complete /\ Answers(b.byte) THEN [asked EXCEPT ![b.from] = @ + 1] ELSE asked
        /\ UNCHANGED <<exitflag, noteVars, SockEthSvr, ndata, answered, kind, streamVars>>

\* No byte: UplinkRecvPkt returns, and drops what it has after a quiet while.
EthSvrNoChar ==
    /\ epc = "recv" /\ (SockEthSvr = "none" \/ (EthSvrRcv = <<>> /\ net = {}))
    /\ frame' \in {frame, ""}
    /\ epc' = "bottom"
    /\ UNCHANGED <<exitflag, noteVars, SockEthSvr, AddrEthSvr, EthSvrRcv, net, ndata,
                   asked, answered, kind, streamVars>>

\* SvrMessageProc, with EthSvrRawSend to the stored address.
EthSvrMessage ==
    /\ epc = "msg" /\ epc' = "recv"
    /\ Handle(frame)
    /\ answered' = IF Answers(frame) THEN [answered EXCEPT ![AddrEthSvr] = @ + 1] ELSE answered
    /\ frame' = ""
    /\ UNCHANGED <<exitflag, SockEthSvr, AddrEthSvr, EthSvrRcv, net, ndata, asked,
                   kind, streamVars>>

EthSvrBottom ==
    /\ epc = "bottom"
    /\ IF exitflag THEN epc' = "ended" /\ SockEthSvr' = "none"
                   ELSE epc' = "recv" /\ UNCHANGED SockEthSvr
    /\ UNCHANGED <<exitflag, noteVars, AddrEthSvr, EthSvrRcv, frame, net, ndata,
                   asked, answered, kind, streamVars>>

EthSvr ==
    EthSvrNetInit \/ EthSvrFill \/ EthSvrGetChar \/ EthSvrNoChar \/ EthSvrMessage \/ EthSvrBottom

(***************************************************************************)
(* TcpSvr and LocalSvr.                                                    *)
(***************************************************************************)
SvrNetInit ==
    /\ spc = "init" /\ spc' = "wait"
    /\ listening' \in BOOLEAN
    /\ UNCHANGED <<exitflag, noteVars, ethVars, kind, cSock, cSockConnectNum, peer, backlog,
                   refusals, faults>>

\* WaitClientConnect: accept gives a client.  If the count says that there is
\* one already, the new connection is closed but cSock keeps its descriptor.
Accept ==
    /\ spc = "wait" /\ cSock = "none" /\ listening /\ backlog > 0
    /\ backlog' = backlog - 1
    /\ spc' = "recv"
    /\ \/ /\ cSockConnectNum = 0
          /\ cSock' = "open" /\ peer' = TRUE /\ cSockConnectNum' = 1
          /\ UNCHANGED refusals
       \/ /\ cSockConnectNum # 0
          /\ cSock' = "stale" /\ peer' = FALSE /\ cSockConnectNum' = 0
          /\ refusals' = refusals + 1
    /\ UNCHANGED <<exitflag, noteVars, ethVars, kind, listening, faults>>

\* accept returns -1; the count is turned over all the same.
AcceptFails ==
    /\ spc = "wait" /\ cSock = "none" /\ faults < MaxFaults
    /\ cSockConnectNum' = 1 - cSockConnectNum
    /\ spc' = "bottom"
    /\ faults' = faults + 1
    /\ UNCHANGED <<exitflag, noteVars, ethVars, kind, listening, cSock, peer, backlog, refusals>>

\* There is a client, or the descriptor of one.
StillConnected ==
    /\ spc = "wait" /\ cSock # "none"
    /\ spc' = "recv"
    /\ UNCHANGED <<exitflag, noteVars, ethVars, kind, listening, cSock, cSockConnectNum, peer,
                   backlog, refusals, faults>>

\* Mutant: the count stays when the connection is lost.
NumWhenLostKept == cSockConnectNum

NumWhenLost == 0

\* GetChar: recv reports the end of the connection, or a closed descriptor.
ConnectionLost ==
    /\ spc = "recv" /\ (cSock = "stale" \/ (cSock = "open" /\ ~peer))
    /\ cSock' = "none" /\ cSockConnectNum' = NumWhenLost
    /\ spc' = "bottom"
    /\ UNCHANGED <<exitflag, noteVars, ethVars, kind, listening, peer, backlog, refusals, faults>>

\* GetChar has nothing more, or a byte that completes a frame.
NoMoreBytes ==
    /\ spc = "recv" /\ cSock # "stale" /\ (cSock = "none" \/ peer)
    /\ spc' = "bottom"
    /\ UNCHANGED <<exitflag, noteVars, ethVars, kind, listening, cSock, cSockConnectNum, peer,
                   backlog, refusals, faults>>

FrameComplete ==
    /\ spc = "recv" /\ cSock = "open"
    /\ spc' = "msg"
    /\ UNCHANGED <<exitflag, noteVars, ethVars, kind, listening, cSock, cSockConnectNum, peer,
                   backlog, refusals, faults>>

\* When send fails the connection is closed; only LocalSvr clears the count.
TcpSvrRawSend == cSock' = "none" /\ UNCHANGED cSockConnectNum
LocalSvrRawSend == cSock' = "none" /\ cSockConnectNum' = 0

\* SvrMessageProc: the answer, if there is one, is sent or not.
StreamMessage ==
    /\ spc = "msg" /\ spc' = "recv"
    /\ \E cmd \in Commands :
         /\ Handle(cmd)
         /\ \/ UNCHANGED <<cSock, cSockConnectNum, faults>>
            \/ /\ Answers(cmd) /\ faults < MaxFaults
               /\ IF kind = "local" THEN LocalSvrRawSend ELSE TcpSvrRawSend
               /\ faults' = faults + 1
    /\ UNCHANGED <<exitflag, ethVars, kind, listening, peer, backlog, refusals>>

\* At the exit TcpSvr closes the listening socket, LocalSvr the client's.
StreamBottom ==
    /\ spc = "bottom"
    /\ \/ ~exitflag /\ spc' = "wait" /\ UNCHANGED <<listening, cSock>>
       \/ /\ exitflag /\ spc' = "ended"
          /\ listening' = (listening /\ kind = "local")
          /\ cSock' = IF kind = "local" /\ cSock = "open" THEN "stale" ELSE cSock
    /\ UNCHANGED <<exitflag, noteVars, ethVars, kind, cSockConnectNum, peer, backlog,
                   refusals, faults>>

StreamSvr ==
    \/ SvrNetInit \/ Accept \/ AcceptFails \/ StillConnected \/ ConnectionLost \/ NoMoreBytes
    \/ FrameComplete \/ StreamMessage \/ StreamBottom

(***************************************************************************)
(* Clients, network, exit.                                                 *)
(***************************************************************************)
SendDatagram ==
    /\ ndata < MaxData /\ ndata' = ndata + 1
    /\ \E c \in Clients, p \in Payloads : net' = net \cup {[from |-> c, bytes |-> p, nr |-> ndata]}
    /\ UNCHANGED <<exitflag, noteVars, SockEthSvr, AddrEthSvr, EthSvrRcv, frame, epc,
                   asked, answered, kind, streamVars>>

Connect ==
    /\ backlog < MaxBacklog /\ backlog' = backlog + 1
    /\ UNCHANGED <<exitflag, noteVars, ethVars, kind, listening, cSock, cSockConnectNum, peer,
                   spc, refusals, faults>>

ClientLeaves ==
    /\ peer /\ peer' = FALSE
    /\ UNCHANGED <<exitflag, noteVars, ethVars, kind, listening, cSock, cSockConnectNum,
                   backlog, spc, refusals, faults>>

Exit ==
    /\ ~exitflag /\ exitflag' = TRUE
    /\ UNCHANGED <<noteVars, ethVars, kind, streamVars>>

Next ==
    \/ kind = "udp" /\ (EthSvr \/ SendDatagram)
    \/ kind # "udp" /\ (StreamSvr \/ Connect \/ ClientLeaves)
    \/ Exit

Spec == Init /\ [][Next]_vars

(***************************************************************************)
(* Properties.                                                             *)
(***************************************************************************)
\* Whenever no message is being worked on, each client has been sent exactly the
\* answers due to it: EthSvr answers a request once, to the client that completed
\* it, however frames are spread over datagrams of several clients.
RepliesToAsker == epc # "msg" => answered = asked

\* Every client that TcpSvr or LocalSvr turns away is owed to a failure of accept
\* or of send of its own: the count in cSockConnectNum does not turn away a second
\* client for the same failure, and never one after a connection that ended well.
RefusalsHaveCause == refusals <= faults
=============================================================================
