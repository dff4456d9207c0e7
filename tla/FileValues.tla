----------------------------- MODULE FileValues -----------------------------
(***************************************************************************)
(* The values in the parameter files: how sys/storage/xin.c, param/term.c  *)
(* and param/unique.c turn numbers, bytes, addresses and phone numbers     *)
(* into text and back.  A text is a sequence of character codes, without   *)
(* its terminating 0.                                                      *)
(***************************************************************************)
EXTENDS Conversions

Digit == 48 .. 57
HexDigit == Digit \cup (65 .. 70) \cup (97 .. 102)
Point == 46
Colon == 58
Tilde == 126
Minus == 45
Ex == {88, 120}       \* X and x

HexVal(c) == CASE c \in Digit -> c - 48 [] c \in 65 .. 70 -> c - 55 [] c \in 97 .. 102 -> c - 87
HexChar(d) == IF d < 10 THEN 48 + d ELSE 55 + d

\* The longest beginning of str that consists of members of S.
Prefix(str, S) ==
    LET out == {i \in DOMAIN str : str[i] \notin S}
    IN  SubSeq(str, 1, IF out = {} THEN Len(str) ELSE Min(out) - 1)

(***************************************************************************)
(* Numbers.                                                                *)
(***************************************************************************)
PrintD(v) == (IF v < 0 THEN <<Minus>> ELSE <<>>) \o [i \in DOMAIN itoa(Abs(v)) |-> 48 + itoa(Abs(v))[i]]

DecValue(digits) == FoldLeft(LAMBDA acc, c : acc * 10 + c - 48, 0, digits)
HexValue(digits) == FoldLeft(LAMBDA acc, c : acc * 16 + HexVal(c), 0, digits)

\* atoi of a text that does not begin with a space.
atoi(str) ==
    IF str # <<>> /\ str[1] = Minus THEN -DecValue(Prefix(Tail(str), Digit))
    ELSE DecValue(Prefix(str, Digit))

\* 32 bits, of which the highest is the sign: two halves of four digits.
Hex32(v) ==
    LET hi == (v \div 65536) % 65536
        all == [k \in 1 .. 8 |-> HexChar(IF k <= 4 THEN (hi \div (16 ^ (4 - k))) % 16
                                         ELSE ((v % 65536) \div (16 ^ (8 - k))) % 16)]
        lead == Prefix(all, {48})
    IN  SubSeq(all, Min({Len(lead), 7}) + 1, 8)
Value32(digits) ==
    LET d == SubSeq(digits, Max({Len(digits) - 7, 1}), Len(digits))
        k == Max({Len(d) - 4, 0})
        hi == HexValue(SubSeq(d, 1, k))
    IN  (IF hi < 32768 THEN hi ELSE hi - 65536) * 65536 + HexValue(SubSeq(d, k + 1, Len(d)))

XinWriteInt(value, hex) == IF hex THEN <<48, 120>> \o Hex32(value) ELSE PrintD(value)

XinStrToInt(str) ==
    IF Len(str) >= 2 /\ str[1] = 48 /\ str[2] \in Ex
    THEN Value32(Prefix(SubSeq(str, 3, Len(str)), HexDigit))
    ELSE atoi(str)

\* A name that is not found leaves the default.
XinReadInt(found, str, defvalue) == IF found THEN XinStrToInt(str) ELSE defvalue

(***************************************************************************)
(* Strings and bytes.                                                      *)
(***************************************************************************)
\* One place is kept for the 0.
XinReadString(str, len) == SubSeq(str, 1, Min({Len(str), len - 1}))

XinWriteHex(buffer) ==
    FlattenSeq([i \in DOMAIN buffer |-> <<HexChar(Hi(buffer[i])), HexChar(Lo(buffer[i]))>>])

\* Pairs of digits, as many as the buffer has room for; an odd one at the end is
\* not counted.
XinStrToHex(str, len) ==
    LET d == Prefix(str, HexDigit)
    IN  [i \in 1 .. Min({Len(d) \div 2, len}) |-> HexVal(d[2 * i - 1]) * 16 + HexVal(d[2 * i])]

XinReadHex(found, str, len) == IF found THEN XinStrToHex(str, len) ELSE <<>>

(***************************************************************************)
(* Addresses, phone numbers, periods.                                      *)
(***************************************************************************)
IpToString(ip) ==
    PrintD(ip[1]) \o <<Point>> \o PrintD(ip[2]) \o <<Point>> \o PrintD(ip[3]) \o <<Point>> \o PrintD(ip[4])

\* The parts between the points; what is missing is 0, the text ends at the first
\* other character or at the fourth point.
StringToIp(str) ==
    LET parts == FoldLeft(LAMBDA acc, c : IF c = Point THEN Append(acc, 0)
                                          ELSE [acc EXCEPT ![Len(acc)] = @ * 10 + c - 48],
                          <<0>>, Prefix(str, Digit \cup {Point}))
    IN  [k \in 1 .. 4 |-> IF k <= Len(parts) THEN parts[k] % 256 ELSE 0]

\* sms_phone_tonormal: the bytes are moved to the end of eight, 0xaa before them,
\* and turned round.
sms_phone_tonormal(num) == Reverse([i \in 1 .. 8 - Len(num) |-> 170] \o num)
sms_phone_tounnor(phone) == Reverse(phone)

\* sms_phone_numtoascii, from the end of 16 digits: zeros are left out until an
\* 0xaa has been met, which is left out everywhere.
sms_phone_numtoascii(phone) ==
    FoldRight(LAMBDA d, acc : [seen |-> acc.seen \/ d = 170,
                               str |-> IF d = 170 \/ (~acc.seen /\ d = 0) THEN acc.str
                                       ELSE Append(acc.str, 48 + d)],
              phone, [seen |-> FALSE, str |-> <<>>]).str

\* Cascade_AddrChange: the last two of every four bytes change places.
Cascade_AddrChange(a) ==
    [i \in DOMAIN a |-> CASE i % 4 = 3 -> a[i + 1] [] i % 4 = 0 -> a[i - 1] [] OTHER -> a[i]]

\* What is before the first c, and what is behind it.
Cut(str, c) ==
    LET head == Prefix(str, Range(str) \ {c})
    IN  [head |-> head, rest |-> SubSeq(str, Len(head) + 2, Len(str))]

\* StringToPrdTime: hour:minute~hour:minute.  A text that ends early, a value out
\* of range or an end after 23:58 leaves the old period.
StringToPrdTime(str, old) ==
    LET a == Cut(str, Colon)
        b == Cut(a.rest, Tilde)
        c == Cut(b.rest, Colon)
        good == /\ a.rest # <<>> /\ b.rest # <<>> /\ c.rest # <<>>
                /\ atoi(a.head) \in 0 .. 23 /\ atoi(b.head) \in 0 .. 59
                /\ atoi(c.head) \in 0 .. 23 /\ atoi(c.rest) \in 0 .. 59
        end == atoi(c.head) * 60 + atoi(c.rest)
    IN  IF good /\ end <= 1438 THEN [start |-> atoi(a.head) * 60 + atoi(b.head), end |-> end] ELSE old
=============================================================================
