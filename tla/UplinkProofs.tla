---------------------------- MODULE UplinkProofs ----------------------------
(***************************************************************************)
(* Proofs about UplinkRecv, for every frame layout, time-out and checksum, *)
(* and about LocalServers, for every set of clients and every number of    *)
(* datagrams, connections and failures.                                    *)
(***************************************************************************)
EXTENDS UplinkRecv, LocalServers, SequenceTheorems, TLAPS

(***************************************************************************)
(* UplinkRecv.                                                             *)
(***************************************************************************)
\* While a frame is being received, the timer has counted at least the calls
\* that took no byte since, and is not over.
QuietCounted ==
    stat # 0 =>
        /\ tcnt < Timeout
        /\ pc = "out" => quiet <= tcnt
        /\ pc = "in" /\ got => quiet = 0
        /\ pc = "in" /\ ~got => quiet < tcnt

IInv == TypeOK /\ BufferFitsState /\ QuietCounted

LEMMA InitIInv == RecvInit => IInv
<1> SUFFICES ASSUME RecvInit PROVE IInv
  OBVIOUS
<1>1. got \in BOOLEAN
  BY DEF RecvInit
<1>2. TypeOK
  BY <1>1 DEF RecvInit, TypeOK
<1>3. BufferFitsState /\ QuietCounted
  BY DEF RecvInit, BufferFitsState, QuietCounted
<1>4. QED
  BY <1>2, <1>3 DEF IInv

\* Appending a byte, as the store through pbuf does, leaves the bytes before
\* it alone.
LEMMA WithFacts ==
    ASSUME buf \in Seq(Bytes), NEW uc \in Bytes
    PROVE  /\ With(uc) \in Seq(Bytes)
           /\ Len(With(uc)) = Len(buf) + 1 /\ Len(buf) \in Nat
           /\ With(uc)[Len(buf) + 1] = uc
           /\ \A i \in 1 .. Len(buf) : With(uc)[i] = buf[i]
BY DEF With

\* The length field is a natural number, and it does not change once the
\* header is complete.
LEMMA DataLenFacts ==
    ASSUME NEW s \in Seq(Bytes), Len(s) >= Hdr
    PROVE  DataLen(s) \in Nat /\ LengthToTail(s) \in Nat /\ LengthToTail(s) >= Hdr + 2
<1>1. Hdr \in Nat /\ Hdr > 2 /\ ByteVals \in Nat
  BY UplinkRecvAssumption
<1>2. Hdr - 1 \in 1 .. Len(s) /\ Hdr \in 1 .. Len(s)
  BY <1>1
<1>3. s[Hdr - 1] \in Bytes /\ s[Hdr] \in Bytes
  BY <1>2
<1>4. s[Hdr - 1] \in Nat /\ s[Hdr] \in Nat
  BY <1>1, <1>3 DEF Bytes
<1> DEFINE high == ByteVals * s[Hdr - 1]
           low == s[Hdr]
<1>5. high \in Nat /\ low \in Nat
  BY <1>1, <1>4
<1>6. DataLen(s) = high + low /\ LengthToTail(s) = DataLen(s) + Hdr + 2
  BY DEF DataLen, LengthToTail
<1> HIDE DEF high, low
<1>7. QED
  BY <1>1, <1>5, <1>6

LEMMA DataLenKept ==
    ASSUME buf \in Seq(Bytes), NEW uc \in Bytes, Len(buf) >= Hdr
    PROVE  DataLen(With(uc)) = DataLen(buf)
<1>1. Hdr - 1 \in 1 .. Len(buf) /\ Hdr \in 1 .. Len(buf)
  BY UplinkRecvAssumption
<1>2. With(uc)[Hdr - 1] = buf[Hdr - 1] /\ With(uc)[Hdr] = buf[Hdr]
  BY <1>1, WithFacts
<1>3. QED
  BY <1>2 DEF DataLen

\* Every byte keeps the invariant.
LEMMA GetCharPreserves ==
    ASSUME IInv, NEW uc \in Bytes, GetChar(uc)
    PROVE  IInv'
<1>1. /\ TypeOK /\ BufferFitsState /\ QuietCounted
      /\ pc = "in" /\ got' = TRUE /\ quiet' = 0
  BY DEF IInv, GetChar
<1>2. /\ Gap \in Nat /\ Gap >= 2 /\ Hdr \in Nat /\ Hdr > Gap + 2
      /\ HEAD \in Bytes /\ Timeout \in Nat /\ Timeout >= 1
  BY UplinkRecvAssumption
<1>3. /\ buf \in Seq(Bytes) /\ With(uc) \in Seq(Bytes)
      /\ Len(With(uc)) = Len(buf) + 1 /\ Len(buf) \in Nat
      /\ With(uc)[Len(buf) + 1] = uc
      /\ \A i \in 1 .. Len(buf) : With(uc)[i] = buf[i]
  BY <1>1, WithFacts DEF TypeOK
<1>4. CASE FindHead(uc)
  <2>1. CASE uc = HEAD
    <3>1. /\ buf' = <<uc>> /\ stat' = 1 /\ maxlen' = Gap /\ tflag' = 1 /\ tcnt' = 0
          /\ pc' = pc /\ pkt' = pkt
      BY <1>4, <2>1 DEF FindHead
    <3>2. TypeOK'
      BY <1>1, <1>2, <3>1 DEF TypeOK
    <3>3. BufferFitsState'
      BY <1>2, <2>1, <3>1 DEF BufferFitsState
    <3>4. QuietCounted'
      BY <1>1, <1>2, <3>1 DEF QuietCounted
    <3>5. QED
      BY <3>2, <3>3, <3>4 DEF IInv
  <2>2. CASE uc # HEAD
    <3>1. UNCHANGED <<stat, maxlen, buf, tflag, tcnt, pc, pkt>> /\ stat = 0
      BY <1>4, <2>2 DEF FindHead, fsmVars, timerVars
    <3>2. QED
      BY <1>1, <3>1 DEF IInv, TypeOK, BufferFitsState, QuietCounted, LengthToTail, DataLen
  <2>3. QED
    BY <2>1, <2>2
<1>5. ASSUME stat # 0, buf' = With(uc), stat' # 0, UNCHANGED <<tflag, tcnt, pc, pkt>>,
             maxlen' \in Nat, stat' \in 0 .. 5
      PROVE  /\ TypeOK' /\ QuietCounted'
             /\ tflag' = 1 /\ buf' # <<>> /\ buf'[1] = HEAD
  <2>1. tflag = 1 /\ buf # <<>> /\ buf[1] = HEAD
    BY <1>1, <1>5 DEF BufferFitsState
  <2>2. Len(buf) >= 1
    BY <1>3, <2>1
  <2>3. buf' # <<>> /\ buf'[1] = HEAD
    BY <1>3, <1>5, <2>1, <2>2
  <2>4. TypeOK'
    BY <1>1, <1>3, <1>5 DEF TypeOK
  <2>5. QuietCounted'
    BY <1>1, <1>5 DEF QuietCounted, TypeOK
  <2>6. QED
    BY <1>5, <2>1, <2>3, <2>4, <2>5
<1>6. ASSUME stat' = 0, buf' = <<>>, maxlen' = 0, tflag' = 0, UNCHANGED tcnt,
             pc' \in {"out", "in"}, pkt' \in Seq(Bytes)
      PROVE  IInv'
  BY <1>1, <1>6 DEF IInv, TypeOK, BufferFitsState, QuietCounted
<1>7. CASE TakeAddr(uc)
  <2>1. /\ stat = 1 /\ Len(buf) < Gap /\ buf' = With(uc) /\ maxlen \in Nat
        /\ UNCHANGED <<tflag, tcnt, pc, pkt>>
    BY <1>1, <1>7 DEF TakeAddr, BufferFitsState, Store, timerVars, TypeOK
  <2>2. CASE Len(With(uc)) >= maxlen
    <3>1. stat' = 2 /\ maxlen' = Hdr
      BY <1>7, <2>2 DEF TakeAddr
    <3>2. maxlen = Gap
      BY <1>1, <2>1 DEF BufferFitsState
    <3>3. Len(buf') = Gap
      BY <1>2, <1>3, <2>1, <2>2, <3>2
    <3>4. QED
      BY <1>2, <1>5, <2>1, <3>1, <3>3 DEF IInv, BufferFitsState
  <2>3. CASE ~(Len(With(uc)) >= maxlen)
    <3>1. stat' = 1 /\ maxlen' = maxlen
      BY <1>7, <2>1, <2>3 DEF TakeAddr
    <3>2. maxlen = Gap
      BY <1>1, <2>1 DEF BufferFitsState
    <3>3. Len(buf') < Gap
      BY <1>2, <1>3, <2>1, <2>3, <3>2
    <3>4. QED
      BY <1>2, <1>5, <2>1, <3>1, <3>2, <3>3 DEF IInv, BufferFitsState
  <2>4. QED
    BY <2>2, <2>3
<1>8. CASE TakeSecondHead(uc)
  <2>1. stat = 2 /\ Len(buf) = Gap /\ maxlen = Hdr /\ UNCHANGED <<pc, pkt>>
    BY <1>1, <1>8 DEF TakeSecondHead, BufferFitsState
  <2>2. CASE uc = HEAD
    <3>1. buf' = With(uc) /\ stat' = 3 /\ UNCHANGED <<maxlen, tflag, tcnt>>
      BY <1>8, <2>2 DEF TakeSecondHead, Store, timerVars
    <3>2. Len(buf') = Gap + 1 /\ buf'[Gap + 1] = HEAD
      BY <1>3, <2>1, <2>2, <3>1
    <3>3. QED
      BY <1>2, <1>5, <2>1, <3>1, <3>2 DEF IInv, BufferFitsState
  <2>3. CASE uc # HEAD
    <3>1. stat' = 0 /\ buf' = <<>> /\ maxlen' = 0 /\ tflag' = 0 /\ UNCHANGED tcnt
      BY <1>8, <2>3 DEF TakeSecondHead, UplinkClearState, ClearFsm, StopUpTimer
    <3>2. QED
      BY <1>1, <1>6, <2>1, <3>1 DEF TypeOK
  <2>4. QED
    BY <2>2, <2>3
<1>9. ASSUME stat \in {3, 4, 5}, buf' = With(uc)
      PROVE  Len(buf') > Gap /\ buf'[Gap + 1] = HEAD
  <2>1. Len(buf) > Gap /\ buf[Gap + 1] = HEAD
    BY <1>1, <1>9 DEF BufferFitsState
  <2>2. Gap + 1 \in 1 .. Len(buf)
    BY <1>2, <1>3, <2>1
  <2>3. QED
    BY <1>2, <1>3, <1>9, <2>1, <2>2
<1>10. CASE TakeHeader(uc)
  <2>1. /\ stat = 3 /\ Len(buf) < Hdr /\ maxlen = Hdr /\ buf' = With(uc)
        /\ UNCHANGED <<tflag, tcnt, pc, pkt>>
    BY <1>1, <1>10 DEF TakeHeader, BufferFitsState, Store, timerVars
  <2>2. CASE Len(With(uc)) >= maxlen
    <3>1. stat' = 4 /\ maxlen' = LengthToTail(buf')
      BY <1>10, <2>1, <2>2 DEF TakeHeader
    <3>2. Len(buf') >= Hdr /\ maxlen' \in Nat
      BY <1>3, <2>1, <2>2, <3>1, DataLenFacts
    <3>3. (maxlen = LengthToTail(buf))'
      BY <3>1 DEF LengthToTail, DataLen
    <3>4. LengthToTail(buf') >= Hdr + 2 /\ Len(buf') = Hdr
      BY <1>2, <1>3, <2>1, <2>2, <3>2, DataLenFacts
    <3>5. Len(buf') < maxlen'
      BY <1>2, <3>1, <3>2, <3>4
    <3>6. QED
      BY <1>2, <1>5, <1>9, <2>1, <3>1, <3>2, <3>3, <3>5 DEF IInv, BufferFitsState
  <2>3. CASE ~(Len(With(uc)) >= maxlen)
    <3>1. stat' = 3 /\ maxlen' = maxlen
      BY <1>10, <2>1, <2>3 DEF TakeHeader
    <3>2. Len(buf') < Hdr
      BY <1>2, <1>3, <2>1, <2>3
    <3>3. QED
      BY <1>2, <1>5, <1>9, <2>1, <3>1, <3>2 DEF IInv, BufferFitsState
  <2>4. QED
    BY <2>2, <2>3
<1>11. CASE TakeData(uc)
  <2>1. /\ stat = 4 /\ Len(buf) >= Hdr /\ maxlen = LengthToTail(buf) /\ buf' = With(uc)
        /\ stat' = (IF Len(With(uc)) >= maxlen THEN 5 ELSE 4)
        /\ UNCHANGED <<maxlen, tflag, tcnt, pc, pkt>> /\ Len(buf) < maxlen
    BY <1>1, <1>11 DEF TakeData, BufferFitsState, Store, timerVars
  <2>2. LengthToTail(buf') = LengthToTail(buf) /\ Len(buf') >= Hdr /\ maxlen \in Nat
    BY <1>2, <1>3, <2>1, DataLenKept, DataLenFacts DEF LengthToTail
  <2>3. stat' = 5 => Len(buf') = maxlen'
    BY <1>3, <2>1, <2>2
  <2>4. stat' = 4 => Len(buf') < maxlen'
    BY <1>3, <2>1, <2>2
  <2>5. QED
    BY <1>2, <1>5, <1>9, <2>1, <2>2, <2>3, <2>4 DEF IInv, BufferFitsState, LengthToTail, DataLen
<1>12. CASE TakeTail(uc)
  <2>1. /\ stat' = 0 /\ buf' = <<>> /\ maxlen' = 0 /\ tflag' = 0 /\ UNCHANGED tcnt
        /\ pc' \in {"out", "in"} /\ pkt' \in Seq(Bytes)
    BY <1>1, <1>3, <1>12 DEF TakeTail, UplinkClearState, ClearFsm, StopUpTimer, TypeOK
  <2>2. QED
    BY <1>6, <2>1
<1>13. QED
  BY <1>4, <1>7, <1>8, <1>10, <1>11, <1>12 DEF GetChar

LEMMA NextIInv == IInv /\ [RecvNext]_recvVars => IInv'
<1> SUFFICES ASSUME IInv, [RecvNext]_recvVars PROVE IInv'
  OBVIOUS
<1>1. TypeOK /\ BufferFitsState /\ QuietCounted
  BY DEF IInv
<1>2. Timeout \in Nat /\ Timeout >= 1
  BY UplinkRecvAssumption
<1>3. CASE RecvBegin
  <2>1. /\ pc = "out" /\ pc' = "in" /\ got' = FALSE /\ UNCHANGED <<pkt, quiet>>
    BY <1>3 DEF RecvBegin
  <2>2. CASE tflag = 0 \/ tcnt + 1 >= Timeout
    <3>1. stat' = 0 /\ maxlen' = 0 /\ buf' = <<>> /\ tflag' = 0 /\ tcnt' \in Nat
      BY <1>1, <1>3, <2>2 DEF RecvBegin, UpTimerProc, ClearFsm, timerVars, TypeOK
    <3>2. got' \in BOOLEAN
      BY <2>1
    <3>3. TypeOK'
      BY <1>1, <2>1, <3>1, <3>2 DEF TypeOK
    <3>4. BufferFitsState' /\ QuietCounted'
      BY <3>1 DEF BufferFitsState, QuietCounted
    <3>5. QED
      BY <3>3, <3>4 DEF IInv
  <2>3. CASE tflag # 0 /\ ~(tcnt + 1 >= Timeout)
    <3>1. tcnt' = tcnt + 1 /\ UNCHANGED <<stat, maxlen, buf, tflag>>
      BY <1>3, <2>3 DEF RecvBegin, UpTimerProc, fsmVars
    <3>2. BufferFitsState'
      BY <1>1, <3>1 DEF BufferFitsState, LengthToTail, DataLen
    <3>3. QuietCounted'
      BY <1>1, <1>2, <2>1, <2>3, <3>1 DEF TypeOK, QuietCounted
    <3>4. got' \in BOOLEAN
      BY <2>1
    <3>5. TypeOK'
      BY <1>1, <2>1, <3>1, <3>4 DEF TypeOK
    <3>6. QED
      BY <3>2, <3>3, <3>5 DEF IInv
  <2>4. QED
    BY <2>2, <2>3
<1>4. CASE RecvEnd
  <2>1. /\ pc = "in" /\ pc' = "out" /\ UNCHANGED <<stat, maxlen, buf, tflag, tcnt, pkt, got>>
        /\ quiet' = IF got THEN 0 ELSE IF quiet < Timeout THEN quiet + 1 ELSE quiet
    BY <1>4 DEF RecvEnd, fsmVars, timerVars
  <2>2. TypeOK' /\ BufferFitsState'
    <3>1. quiet' \in Nat
      BY <1>1, <2>1 DEF TypeOK
    <3>2. QED
      BY <1>1, <2>1, <3>1 DEF TypeOK, BufferFitsState, LengthToTail, DataLen
  <2>3. QuietCounted'
    <3>1. CASE got
      BY <1>1, <1>2, <2>1, <3>1 DEF TypeOK, QuietCounted
    <3>2. CASE ~got
      BY <1>1, <1>2, <2>1, <3>2 DEF TypeOK, QuietCounted
    <3>3. QED
      BY <3>1, <3>2
  <2>4. QED
    BY <2>2, <2>3 DEF IInv
<1>5. CASE \E uc \in Bytes : GetChar(uc)
  BY <1>5, GetCharPreserves
<1>6. CASE UNCHANGED recvVars
  BY <1>1, <1>6 DEF recvVars, fsmVars, timerVars, IInv, TypeOK, BufferFitsState, QuietCounted,
     LengthToTail, DataLen
<1>7. QED
  BY <1>3, <1>4, <1>5, <1>6 DEF RecvNext

LEMMA IInvHolds == RecvSpec => []IInv
BY InitIInv, NextIInv, PTL DEF RecvSpec

\* The receiver's variables keep their types for every frame layout.
THEOREM RecvTypeCorrect == RecvSpec => []TypeOK
<1>1. IInv => TypeOK
  BY DEF IInv
<1>2. QED
  BY IInvHolds, <1>1, PTL

\* State, buffer and timer of UplinkRecvPkt agree in every reachable state:
\* CheckStreamOK never reads a position that was not received.
THEOREM RecvBufferFits == RecvSpec => []BufferFitsState
<1>1. IInv => BufferFitsState
  BY DEF IInv
<1>2. QED
  BY IInvHolds, <1>1, PTL

\* Timeout calls of UplinkRecvPkt without a byte put it back to looking for a
\* head, for every time-out and whatever it had received before.
THEOREM RecvRecovers == RecvSpec => []QuietResets
<1>1. IInv => QuietResets
  <2>1. ASSUME IInv, quiet >= Timeout, stat # 0 PROVE FALSE
    <3>1. /\ tcnt < Timeout /\ (pc = "out" => quiet <= tcnt)
          /\ (pc = "in" /\ got => quiet = 0) /\ (pc = "in" /\ ~got => quiet < tcnt)
      BY <2>1 DEF IInv, QuietCounted
    <3>2. pc \in {"out", "in"} /\ got \in BOOLEAN /\ quiet \in Nat /\ tcnt \in Nat
      BY <2>1 DEF IInv, TypeOK
    <3>3. quiet <= tcnt \/ quiet = 0
      BY <3>1, <3>2
    <3>4. QED
      BY <2>1, <3>1, <3>2, <3>3, UplinkRecvAssumption
  <2>2. QED
    BY <2>1 DEF QuietResets
<1>2. QED
  BY IInvHolds, <1>1, PTL

\* Only in state 5 can the bytes with the next one make a frame, and there the
\* test of the code and the format by positions are the same.
LEMMA ByteDelivers ==
    ASSUME IInv, NEW uc \in Bytes, GetChar(uc)
    PROVE  (WellFormed(With(uc)) <=> pc' = "out") /\ (pc' = "out" => pkt' = With(uc))
<1>1. TypeOK /\ BufferFitsState /\ pc = "in" /\ stat \in 0 .. 5 /\ buf \in Seq(Bytes)
  BY DEF IInv, GetChar, TypeOK
<1>2. Gap \in Nat /\ Gap >= 2 /\ Hdr \in Nat /\ Hdr > Gap + 2
  BY UplinkRecvAssumption
<1>3. /\ With(uc) \in Seq(Bytes) /\ Len(With(uc)) = Len(buf) + 1 /\ Len(buf) \in Nat
      /\ With(uc)[Len(buf) + 1] = uc
  BY <1>1, WithFacts
<1>4. CASE stat \in 0 .. 3
  <2>1. pc' = pc
    BY <1>4 DEF GetChar, FindHead, TakeAddr, TakeSecondHead, TakeHeader, TakeData, TakeTail
  <2>2. Len(With(uc)) <= Hdr
    <3>1. stat = 0 => Len(buf) = 0
      BY <1>1 DEF BufferFitsState
    <3>2. /\ stat = 1 => Len(buf) < Gap
          /\ stat = 2 => Len(buf) = Gap
          /\ stat = 3 => Len(buf) < Hdr
      BY <1>1 DEF BufferFitsState
    <3>3. stat = 0 \/ stat = 1 \/ stat = 2 \/ stat = 3
      BY <1>4
    <3> QED
      BY <1>2, <1>3, <3>1, <3>2, <3>3
  <2>3. ~WellFormed(With(uc))
    BY <1>2, <1>3, <2>2 DEF WellFormed
  <2> QED
    BY <1>1, <2>1, <2>3
<1>5. ASSUME stat \in {4, 5}
      PROVE  /\ DataLen(With(uc)) = DataLen(buf) /\ DataLen(buf) \in Nat
             /\ maxlen = DataLen(buf) + Hdr + 2
  <2>1. Len(buf) >= Hdr /\ maxlen = LengthToTail(buf)
    BY <1>1, <1>5 DEF BufferFitsState
  <2> QED
    BY <1>1, <2>1, DataLenFacts, DataLenKept DEF LengthToTail
<1>6. CASE stat = 4
  <2>1. pc' = pc
    BY <1>6 DEF GetChar, FindHead, TakeAddr, TakeSecondHead, TakeHeader, TakeData, TakeTail
  <2>2. Len(buf) < maxlen
    BY <1>1, <1>6 DEF BufferFitsState
  <2>3. Len(With(uc)) # Hdr + DataLen(With(uc)) + 3
    BY <1>2, <1>3, <1>5, <1>6, <2>2
  <2>4. ~WellFormed(With(uc))
    BY <2>3 DEF WellFormed
  <2> QED
    BY <1>1, <2>1, <2>4
<1>7. CASE stat = 5
  <2> DEFINE s == With(uc)
             n == Len(s)
  <2>1. Len(buf) = maxlen
    BY <1>1, <1>7 DEF BufferFitsState
  <2>2. n = Hdr + DataLen(s) + 3 /\ n > Hdr /\ n - 3 = Hdr + DataLen(s) /\ s[n] = uc
    BY <1>2, <1>3, <1>5, <1>7, <2>1
  <2>3. /\ pc' = "out" <=> uc = TAIL /\ CheckStreamOK(s)
        /\ pc' = "out" => pkt' = s
    BY <1>1, <1>7 DEF GetChar, FindHead, TakeAddr, TakeSecondHead, TakeHeader, TakeData, TakeTail
  <2> HIDE DEF s
  <2>4. SubSeq(s, 1, n - 3) = SubSeq(s, 1, Hdr + DataLen(s))
    BY <2>2
  <2>5. Crc(SubSeq(s, 1, n - 3)) = Crc(SubSeq(s, 1, Hdr + DataLen(s)))
    BY <2>4
  <2>6. WellFormed(s) <=> uc = TAIL /\ CheckStreamOK(s)
    BY <2>2, <2>5, Zenon DEF WellFormed, CheckStreamOK
  <2> QED
    BY <2>3, <2>6 DEF s
<1> QED
  <2>1. stat \in 0 .. 3 \/ stat = 4 \/ stat = 5
    BY <1>1
  <2> QED
    BY <1>4, <1>6, <1>7, <2>1

\* UplinkRecvPkt returns exactly the correct frames, for every frame layout,
\* checksum and stream of bytes.
THEOREM RecvDelivers == RecvSpec => DeliversExactly
<1>1. ASSUME IInv
      PROVE  [\A uc \in Bytes : GetChar(uc) =>
                 (WellFormed(With(uc)) <=> pc' = "out") /\ (pc' = "out" => pkt' = With(uc))]_recvVars
  BY <1>1, ByteDelivers
<1> QED
  BY <1>1, IInvHolds, PTL DEF DeliversExactly

(***************************************************************************)
(* EthSvr.  The bytes that are left all come from the stored address, so   *)
(* that the byte that completes a frame names the client that is answered. *)
(***************************************************************************)
Byte == {"head"} \cup Commands
Received == Seq([byte : Byte, from : Clients])
Datagrams == [from : Clients, bytes : Seq(Byte), nr : Nat]

EthType ==
    /\ asked \in [Clients -> Nat] /\ answered \in [Clients -> Nat]
    /\ net \subseteq Datagrams /\ EthSvrRcv \in Received /\ ndata \in Nat

FromStored == \A i \in 1 .. Len(EthSvrRcv) : EthSvrRcv[i].from = AddrEthSvr

\* What is still to be answered: the frame being worked on, if it is answered.
OneDue ==
    IF epc = "msg" /\ Answers(frame)
    THEN AddrEthSvr \in Clients /\ asked = [answered EXCEPT ![AddrEthSvr] = @ + 1]
    ELSE asked = answered

EInv == EthType /\ FromStored /\ OneDue

LEMMA PayloadBytes == ASSUME NEW p \in Payloads PROVE p \in Seq(Byte)
<1>1. "head" \in Byte /\ \A c \in Commands : c \in Byte
  BY DEF Byte
<1>2. <<>> \in Seq(Byte)
  BY EmptySeq
<1>3. <<"head">> \in Seq(Byte)
  BY <1>1
<1>4. ASSUME NEW c \in Commands PROVE <<c>> \in Seq(Byte)
  BY <1>1
<1>5. ASSUME NEW c \in Commands PROVE <<"head", c>> \in Seq(Byte)
  BY <1>1
<1>6. ASSUME NEW c \in Commands PROVE <<"head", c, "head">> \in Seq(Byte)
  BY <1>1
<1> QED
  BY <1>2, <1>3, <1>4, <1>5, <1>6 DEF Payloads

\* The bytes of a datagram, each with its sender.
LEMMA TaggedBytes ==
    ASSUME NEW d \in Datagrams
    PROVE  /\ Tagged(d) \in Received
           /\ \A i \in 1 .. Len(Tagged(d)) : Tagged(d)[i].from = d.from
<1>1. d.bytes \in Seq(Byte) /\ d.from \in Clients
  BY DEF Datagrams
<1>2. Len(d.bytes) \in Nat /\ \A i \in 1 .. Len(d.bytes) : d.bytes[i] \in Byte
  BY <1>1
<1>3. Tagged(d) \in Received /\ Len(Tagged(d)) = Len(d.bytes)
  BY <1>1, <1>2 DEF Tagged, Received
<1> QED
  BY <1>2, <1>3 DEF Tagged

LEMMA EthSvrKeeps == ASSUME EInv, EthSvr PROVE EInv'
<1>1. CASE EthSvrNetInit
  BY <1>1 DEF EthSvrNetInit, EInv, EthType, FromStored, OneDue
<1>2. CASE EthSvrFill
  <2>1. PICK d \in net : RecvFrom(d) /\ epc' = IF d.bytes = <<>> THEN "bottom" ELSE "recv"
    BY <1>2 DEF EthSvrFill
  <2>2. d \in Datagrams
    BY DEF EInv, EthType
  <2>3. EthSvrRcv' \in Received /\ FromStored'
    BY <2>1, <2>2, TaggedBytes DEF RecvFrom, FromStored
  <2>4. net' \subseteq Datagrams
    BY <2>1 DEF RecvFrom, EInv, EthType
  <2>5. epc # "msg" /\ epc' # "msg" /\ UNCHANGED <<asked, answered, ndata>>
    BY <1>2, <2>1 DEF EthSvrFill
  <2> QED
    BY <2>3, <2>4, <2>5 DEF EInv, EthType, OneDue
<1>3. CASE EthSvrGetChar
  <2>1. /\ epc = "recv" /\ EthSvrRcv # <<>> /\ EthSvrRcv' = Tail(EthSvrRcv)
        /\ UNCHANGED <<net, AddrEthSvr, ndata, answered>>
    BY <1>3 DEF EthSvrGetChar, NextByte
  <2>2. EthSvrRcv \in Received
    BY DEF EInv, EthType
  <2>3. EthSvrRcv' \in Received /\ FromStored'
    BY <2>1, <2>2 DEF Received, FromStored, EInv
  <2>4. /\ Head(EthSvrRcv).from = AddrEthSvr /\ Head(EthSvrRcv).from \in Clients
    <3>1. 1 \in 1 .. Len(EthSvrRcv) /\ Head(EthSvrRcv) = EthSvrRcv[1]
      BY <2>1, <2>2 DEF Received
    <3>2. EthSvrRcv[1] \in [byte : Byte, from : Clients]
      BY <2>2, <3>1, ElementOfSeq DEF Received
    <3> QED
      BY <3>1, <3>2 DEF FromStored, EInv
  <2>5. asked = answered
    BY <2>1 DEF EInv, OneDue
  <2>6. CASE frame = "head" /\ Head(EthSvrRcv).byte # "head"
    <3>1. /\ frame' = Head(EthSvrRcv).byte /\ epc' = "msg"
          /\ asked' = IF Answers(Head(EthSvrRcv).byte)
                      THEN [asked EXCEPT ![Head(EthSvrRcv).from] = @ + 1] ELSE asked
      BY <1>3, <2>6 DEF EthSvrGetChar, Taken
    <3>2. asked' \in [Clients -> Nat]
      BY <2>4, <3>1 DEF EInv, EthType
    <3>3. OneDue'
      BY <2>1, <2>4, <2>5, <3>1 DEF OneDue, Answers
    <3> QED
      BY <2>1, <2>3, <3>2, <3>3 DEF EInv, EthType
  <2>7. CASE ~(frame = "head" /\ Head(EthSvrRcv).byte # "head")
    <3>1. epc' = "recv" /\ asked' = asked
      BY <1>3, <2>7 DEF EthSvrGetChar
    <3> QED
      BY <2>1, <2>3, <2>5, <3>1 DEF EInv, EthType, OneDue
  <2> QED
    BY <2>6, <2>7
<1>4. CASE EthSvrNoChar
  BY <1>4 DEF EthSvrNoChar, EInv, EthType, FromStored, OneDue
<1>5. CASE EthSvrMessage
  <2>1. /\ epc = "msg" /\ epc' = "recv"
        /\ answered' = IF Answers(frame) THEN [answered EXCEPT ![AddrEthSvr] = @ + 1] ELSE answered
        /\ UNCHANGED <<AddrEthSvr, EthSvrRcv, net, ndata, asked>>
    BY <1>5 DEF EthSvrMessage
  <2>2. answered' = asked
    BY <2>1 DEF EInv, OneDue
  <2> QED
    BY <2>1, <2>2 DEF EInv, EthType, FromStored, OneDue
<1>6. CASE EthSvrBottom
  BY <1>6 DEF EthSvrBottom, EInv, EthType, FromStored, OneDue
<1> QED
  BY <1>1, <1>2, <1>3, <1>4, <1>5, <1>6 DEF EthSvr

LEMMA DatagramKeeps == ASSUME EInv, SendDatagram PROVE EInv'
<1>1. PICK c \in Clients, p \in Payloads : net' = net \cup {[from |-> c, bytes |-> p, nr |-> ndata]}
  BY DEF SendDatagram
<1>2. net' \subseteq Datagrams
  BY <1>1, PayloadBytes DEF Datagrams, EInv, EthType
<1> QED
  BY <1>2 DEF SendDatagram, EInv, EthType, FromStored, OneDue

LEMMA EInvHolds == Spec => []EInv
<1>1. Init => EInv
  <2> SUFFICES ASSUME Init PROVE EInv
    OBVIOUS
  <2>1. EthType
    BY EmptySeq DEF Init, EthType, Received
  <2>2. FromStored
    <3>1. EthSvrRcv = <<>>
      BY DEF Init
    <3>2. Len(EthSvrRcv) = 0
      BY <3>1, EmptySeq
    <3> QED
      BY <3>2 DEF FromStored
  <2>3. OneDue
    BY DEF Init, OneDue
  <2> QED
    BY <2>1, <2>2, <2>3 DEF EInv
<1>2. EInv /\ [Next]_vars => EInv'
  <2> SUFFICES ASSUME EInv, [Next]_vars PROVE EInv'
    OBVIOUS
  <2>1. CASE UNCHANGED ethVars
    BY <2>1 DEF ethVars, EInv, EthType, FromStored, OneDue
  <2>2. CASE StreamSvr
    <3>1. UNCHANGED ethVars
      BY <2>2 DEF StreamSvr, SvrNetInit, Accept, AcceptFails, StillConnected, ConnectionLost,
        NoMoreBytes, FrameComplete, StreamMessage, StreamBottom
    <3> QED
      BY <2>1, <3>1
  <2>3. CASE Connect \/ ClientLeaves \/ Exit \/ UNCHANGED vars
    BY <2>1, <2>3 DEF Connect, ClientLeaves, Exit, vars
  <2> QED
    BY <2>2, <2>3, EthSvrKeeps, DatagramKeeps DEF Next
<1> QED
  BY <1>1, <1>2, PTL DEF Spec

\* EthSvr answers a request once, to the client that completed it, however frames
\* are spread over the datagrams of any number of clients.
THEOREM AnswersGoToAsker == Spec => []RepliesToAsker
<1>1. EInv => RepliesToAsker
  BY DEF EInv, OneDue, RepliesToAsker
<1> QED
  BY <1>1, EInvHolds, PTL

(***************************************************************************)
(* TcpSvr and LocalSvr.  A count without a connection is a refusal that is *)
(* still to come, and is owed to a failure like those that have been.      *)
(***************************************************************************)
Owed == IF cSock = "none" /\ cSockConnectNum = 1 THEN 1 ELSE 0

SInv ==
    /\ cSockConnectNum \in {0, 1} /\ refusals \in Nat /\ faults \in Nat
    /\ refusals + Owed <= faults

LEMMA StreamKeeps == ASSUME SInv, StreamSvr PROVE SInv'
<1>1. CASE SvrNetInit
  BY <1>1 DEF SvrNetInit, SInv, Owed
<1>2. CASE Accept
  BY <1>2 DEF Accept, SInv, Owed
<1>3. CASE AcceptFails
  BY <1>3 DEF AcceptFails, SInv, Owed
<1>4. CASE StillConnected \/ NoMoreBytes \/ FrameComplete
  BY <1>4 DEF StillConnected, NoMoreBytes, FrameComplete, SInv, Owed
<1>5. CASE ConnectionLost
  BY <1>5 DEF ConnectionLost, NumWhenLost, SInv, Owed
<1>6. CASE StreamMessage
  BY <1>6 DEF StreamMessage, TcpSvrRawSend, LocalSvrRawSend, SInv, Owed
<1>7. CASE StreamBottom
  BY <1>7 DEF StreamBottom, SInv, Owed
<1> QED
  BY <1>1, <1>2, <1>3, <1>4, <1>5, <1>6, <1>7 DEF StreamSvr

LEMMA SInvHolds == Spec => []SInv
<1>1. Init => SInv
  <2> SUFFICES ASSUME Init PROVE SInv
    OBVIOUS
  <2>1. cSockConnectNum = 0 /\ refusals = 0 /\ faults = 0
    BY DEF Init
  <2> QED
    BY <2>1 DEF SInv, Owed
<1>2. SInv /\ [Next]_vars => SInv'
  <2> SUFFICES ASSUME SInv, [Next]_vars PROVE SInv'
    OBVIOUS
  <2>1. CASE UNCHANGED <<cSock, cSockConnectNum, refusals, faults>>
    BY <2>1 DEF SInv, Owed
  <2>2. CASE EthSvr \/ SendDatagram
    <3>1. UNCHANGED streamVars
      BY <2>2 DEF EthSvr, EthSvrNetInit, EthSvrFill, EthSvrGetChar, EthSvrNoChar, EthSvrMessage,
        EthSvrBottom, SendDatagram
    <3> QED
      BY <2>1, <3>1 DEF streamVars
  <2>3. CASE Connect \/ ClientLeaves \/ Exit \/ UNCHANGED vars
    BY <2>1, <2>3 DEF Connect, ClientLeaves, Exit, vars, streamVars
  <2> QED
    BY <2>2, <2>3, StreamKeeps DEF Next
<1> QED
  BY <1>1, <1>2, PTL DEF Spec

\* Every client that TcpSvr or LocalSvr turns away is owed to a failure of accept
\* or of send of its own.
THEOREM RefusalsAreOwed == Spec => []RefusalsHaveCause
<1>1. SInv => RefusalsHaveCause
  BY DEF SInv, Owed, RefusalsHaveCause
<1> QED
  BY <1>1, SInvHolds, PTL
=============================================================================
