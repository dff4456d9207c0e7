----------------------------- MODULE UplinkRecv -----------------------------
(***************************************************************************)
(* The receiver of the server protocol (uplink/uplink_dl.c) on one         *)
(* interface: UplinkRecvPkt, called every 100 ms, takes the bytes that     *)
(* have arrived one by one through a state machine and returns 0 when a    *)
(* correct frame is complete.  UpTimerProc, run at the start of each call, *)
(* drops a frame that is not complete Timeout calls after its first byte.  *)
(*                                                                         *)
(* A frame is: HEAD, bytes up to position Gap, HEAD again, bytes up to     *)
(* position Hdr of which the last two are the length of the data, the      *)
(* data, two bytes of CRC, TAIL.  Frames are assumed to fit the receive    *)
(* buffer (MaxBuf).                                                        *)
(***************************************************************************)
EXTENDS Integers, Sequences

CONSTANTS
    ByteVals,    \* 256
    HEAD, TAIL,  \* UPLINK_HEAD 0x68, UPLINK_TAIL 0x16
    Gap, Hdr,    \* 6 and 10
    Timeout,     \* the interface's timeout, 5 or 6 calls
    Crc(_),      \* GetCRC16
    MaxBuf       \* bound: bytes of a frame being received

Bytes == 0 .. ByteVals - 1

ASSUME UplinkRecvAssumption ==
    /\ ByteVals \in Nat /\ HEAD \in Bytes /\ TAIL \in Bytes
    /\ Gap \in Nat /\ Gap >= 2 /\ Hdr \in Nat /\ Hdr > Gap + 2
    /\ Timeout \in Nat \ {0} /\ MaxBuf \in Nat

VARIABLES
    stat, maxlen,   \* UplinkFsm[itf]
    buf,            \* the bytes up to UplinkFsm[itf].pbuf; their number is cnt
    tflag, tcnt,    \* UplinkTimer[itf]
    pc,             \* "out": not in UplinkRecvPkt, "in": in its loop
    \* Observation:
    pkt,            \* the frame returned last
    got,            \* this call has taken a byte
    quiet           \* calls in a row that took no byte

fsmVars == <<stat, maxlen, buf>>
timerVars == <<tflag, tcnt>>
recvVars == <<fsmVars, timerVars, pc, pkt, got, quiet>>

\* The state machine, the buffer and the timer stay in range.
TypeOK ==
    /\ stat \in 0 .. 5 /\ maxlen \in Nat /\ buf \in Seq(Bytes)
    /\ tflag \in {0, 1} /\ tcnt \in Nat
    /\ pc \in {"out", "in"}
    /\ pkt \in Seq(Bytes) /\ got \in BOOLEAN /\ quiet \in Nat

RecvInit ==
    /\ stat = 0 /\ maxlen = 0 /\ buf = <<>>
    /\ tflag = 0 /\ tcnt = 0
    /\ pc = "out"
    /\ pkt = <<>> /\ got = FALSE /\ quiet = 0

ClearFsm == stat' = 0 /\ maxlen' = 0 /\ buf' = <<>>
StopUpTimer == tflag' = 0 /\ UNCHANGED tcnt
UplinkClearState == ClearFsm /\ StopUpTimer

(***************************************************************************)
(* One call of UplinkRecvPkt.                                              *)
(***************************************************************************)
\* Mutant: the timer counts only while it is not running.
UpTimerProcIdle ==
    IF tflag = 0 THEN ClearFsm /\ UNCHANGED timerVars ELSE UNCHANGED <<fsmVars, timerVars>>

UpTimerProc ==
    IF tflag = 0
    THEN ClearFsm /\ UNCHANGED timerVars
    ELSE /\ tcnt' = tcnt + 1
         /\ IF tcnt + 1 >= Timeout
            THEN ClearFsm /\ tflag' = 0
            ELSE UNCHANGED <<fsmVars, tflag>>

RecvBegin ==
    /\ pc = "out"
    /\ UpTimerProc
    /\ pc' = "in" /\ got' = FALSE
    /\ UNCHANGED <<pkt, quiet>>

\* No more byte: the call returns 1.
RecvEnd ==
    /\ pc = "in"
    /\ pc' = "out"
    /\ quiet' = IF got THEN 0 ELSE IF quiet < Timeout THEN quiet + 1 ELSE quiet
    /\ UNCHANGED <<fsmVars, timerVars, pkt, got>>

\* Bytes stored so far, with uc.
With(uc) == Append(buf, uc)
Store(uc) == buf' = With(uc)

\* State 0: look for the head.
FindHead(uc) ==
    /\ stat = 0
    /\ IF uc = HEAD
       THEN /\ buf' = <<uc>> /\ stat' = 1 /\ maxlen' = Gap
            /\ tflag' = 1 /\ tcnt' = 0
       ELSE UNCHANGED <<fsmVars, timerVars>>
    /\ UNCHANGED <<pc, pkt>>

\* State 1: the bytes up to the second head.
TakeAddr(uc) ==
    /\ stat = 1
    /\ Store(uc)
    /\ IF Len(With(uc)) >= maxlen
       THEN stat' = 2 /\ maxlen' = Hdr
       ELSE UNCHANGED <<stat, maxlen>>
    /\ UNCHANGED <<timerVars, pc, pkt>>

\* State 2: the second head.
TakeSecondHead(uc) ==
    /\ stat = 2
    /\ IF uc = HEAD
       THEN Store(uc) /\ stat' = 3 /\ UNCHANGED <<maxlen, timerVars>>
       ELSE UplinkClearState
    /\ UNCHANGED <<pc, pkt>>

\* makepkt_short of the two bytes before pbuf.
DataLen(s) == ByteVals * s[Hdr - 1] + s[Hdr]

\* Mutant: the CRC is not counted in.
LengthToTailShort(s) == DataLen(s) + Hdr

\* Bytes of a frame up to its tail.
LengthToTail(s) == DataLen(s) + Hdr + 2

\* State 3: the rest of the header.
TakeHeader(uc) ==
    /\ stat = 3
    /\ Store(uc)
    /\ IF Len(With(uc)) >= maxlen
       THEN stat' = 4 /\ maxlen' = LengthToTail(With(uc))
       ELSE UNCHANGED <<stat, maxlen>>
    /\ UNCHANGED <<timerVars, pc, pkt>>

\* State 4: data and CRC.
TakeData(uc) ==
    /\ stat = 4
    /\ Store(uc)
    /\ stat' = IF Len(With(uc)) >= maxlen THEN 5 ELSE 4
    /\ UNCHANGED <<maxlen, timerVars, pc, pkt>>

CheckStreamOK(s) ==
    LET n == Len(s) IN
    /\ s[1] = HEAD /\ s[Gap + 1] = HEAD /\ s[n] = TAIL
    /\ Crc(SubSeq(s, 1, n - 3)) = ByteVals * s[n - 2] + s[n - 1]

\* State 5: the tail.  A correct frame ends the call, which returns 0.
TakeTail(uc) ==
    /\ stat = 5
    /\ UplinkClearState
    /\ IF uc = TAIL /\ CheckStreamOK(With(uc))
       THEN pkt' = With(uc) /\ pc' = "out"
       ELSE UNCHANGED <<pkt, pc>>

GetChar(uc) ==
    /\ pc = "in" /\ Len(buf) < MaxBuf
    /\ \/ FindHead(uc) \/ TakeAddr(uc) \/ TakeSecondHead(uc)
       \/ TakeHeader(uc) \/ TakeData(uc) \/ TakeTail(uc)
    /\ got' = TRUE /\ quiet' = 0

RecvNext == RecvBegin \/ RecvEnd \/ \E uc \in Bytes : GetChar(uc)

RecvSpec == RecvInit /\ [][RecvNext]_recvVars

(***************************************************************************)
(* Properties.                                                             *)
(***************************************************************************)
\* The format of a frame, by positions.
WellFormed(s) ==
    /\ Len(s) > Hdr /\ Len(s) = Hdr + DataLen(s) + 3
    /\ s[1] = HEAD /\ s[Gap + 1] = HEAD /\ s[Len(s)] = TAIL
    /\ Crc(SubSeq(s, 1, Hdr + DataLen(s))) = ByteVals * s[Len(s) - 2] + s[Len(s) - 1]

\* UplinkRecvPkt returns exactly the correct frames: when the bytes since the
\* head it found make a frame, the last of them returns it, whatever values
\* occur in it; and nothing else is ever returned.
DeliversExactly ==
    [][\A uc \in Bytes : GetChar(uc) =>
        (WellFormed(With(uc)) <=> pc' = "out") /\ (pc' = "out" => pkt' = With(uc))]_recvVars

\* A frame that breaks off never blocks the receiver: after Timeout calls
\* without a byte it looks for a head again, so the frame that comes after the
\* pause is not taken for the rest of the broken one.
QuietResets == quiet >= Timeout => stat = 0

\* The state machine, the buffer and the timer agree: the timer runs in every
\* state but 0, and the number of bytes fits the state.  (CheckStreamOK reads
\* positions of the buffer without looking at its length.)
BufferFitsState ==
    /\ stat = 0 => tflag = 0 /\ buf = <<>>
    /\ stat # 0 => tflag = 1 /\ buf # <<>> /\ buf[1] = HEAD
    /\ stat = 1 => Len(buf) < Gap /\ maxlen = Gap
    /\ stat = 2 => Len(buf) = Gap /\ maxlen = Hdr
    /\ stat \in {3, 4, 5} => Len(buf) > Gap /\ buf[Gap + 1] = HEAD
    /\ stat = 3 => Len(buf) < Hdr /\ maxlen = Hdr
    /\ stat \in {4, 5} => Len(buf) >= Hdr /\ maxlen = LengthToTail(buf)
    /\ stat = 4 => Len(buf) < maxlen
    /\ stat = 5 => Len(buf) = maxlen
=============================================================================
