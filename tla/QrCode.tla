------------------------------- MODULE QrCode -------------------------------
(***************************************************************************)
(* What a scanned code says (downlink/qrcode.c, qrcodeValidity): the       *)
(* characters are put back in order and read as fields of digits.  Texts   *)
(* are sequences of character codes; positions count from 0 as in the      *)
(* code.                                                                   *)
(***************************************************************************)
EXTENDS Calendar, SequencesExt

CodeLen == 58

ShiftMM == <<3, 14, 20, 50, 30, 2, 44, 1, 32, 38, 3, 46, 37, 8, 41, 45, 33, 31, 43, 44>>

\* The character at place from comes to place to.
Moved(m, from, to) == InsertAt(RemoveAt(m, from + 1), to + 1, m[from + 1])

\* Mutant: a move towards the front takes the character one place further back.
UndoShiftNext(m, b) == Moved(m, ShiftMM[b + 1], b)

\* One of the moves: towards the back the character at the key's place, towards the
\* front the one before it.  The key never names the place itself.
UndoShift(m, b) ==
    LET a == ShiftMM[b + 1] IN Moved(m, IF a < b THEN a ELSE a - 1, b)

\* The characters after the first U, 20 moves undone from the last to the first;
\* none without a U among the first 66.
Decrypt(buf) ==
    LET us == {k \in 1 .. 66 : k <= Len(buf) /\ buf[k] = 85}
        at == CHOOSE k \in us : \A j \in us : k <= j
        Text == [k \in 1 .. CodeLen |-> IF at + k <= Len(buf) THEN buf[at + k] ELSE 0]
    IN  IF us = {} THEN <<>> ELSE FoldLeft(UndoShift, Text, [k \in 1 .. 20 |-> 20 - k])

DigitAt(m, k) == (m[k + 1] - 48) % 256
TwoDigits(m, k) == (DigitAt(m, k) * 10 + DigitAt(m, k + 1)) % 256
DateAt(m, k) ==
    SysClock(TwoDigits(m, k), TwoDigits(m, k + 2), TwoDigits(m, k + 4),
             TwoDigits(m, k + 6), TwoDigits(m, k + 8), TwoDigits(m, k + 10), 0)
DoorAt(m, k) == DigitAt(m, k) * 100 + DigitAt(m, k + 1) * 10 + DigitAt(m, k + 2)

\* The fields; the time the code begins is read and not looked at.  The clock is
\* set from the hardware clock when the years differ by more than two, after the
\* time has been compared, so that is left out.
checkqrcodedata(m, deviceid, now) ==
    [ret |-> CASE [k \in 1 .. 7 |-> DigitAt(m, 38 + k)] # deviceid -> 2
               [] SysClockDifference(now, DateAt(m, 27)) > 0 -> 1
               [] OTHER -> 0,
     door |-> [k \in 1 .. 4 |-> DoorAt(m, 43 + 3 * k)]]

qrcodeValidity(buf, deviceid, now) ==
    LET m == Decrypt(buf)
    IN  IF m = <<>> THEN [ret |-> -1, door |-> <<>>] ELSE checkqrcodedata(m, deviceid, now)
=============================================================================
