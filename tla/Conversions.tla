----------------------------- MODULE Conversions -----------------------------
(***************************************************************************)
(* Numbers and their encodings: lib/bcd.c, datachg.c, datatype_gb.c, crc.c *)
(* and monitor/base64.c.  A buffer is a sequence of bytes, in the order of *)
(* the addresses.  Results beyond 32 bits do not occur for the lengths the *)
(* callers use (at most four bytes of BCD).                                *)
(***************************************************************************)
EXTENDS Integers, SequencesExt

Byte == 0 .. 255
Lo(b) == b % 16
Hi(b) == b \div 16
Abs(i) == IF i < 0 THEN -i ELSE i

(***************************************************************************)
(* BCD, least significant byte first.                                      *)
(***************************************************************************)
BcdByte(v) == ((v \div 10) % 10) * 16 + (v % 10)
HexByte(b) == Hi(b) * 10 + Lo(b)

Pow100[n \in 0 .. 4] == IF n = 0 THEN 1 ELSE 100 * Pow100[n - 1]

\* BcdToUnsigned, and datachg.c's copy of it.
BcdToUnsigned(bcd) == FoldRight(LAMBDA b, acc : acc * 100 + HexByte(b), bcd, 0)
bcdtol(bcd) == BcdToUnsigned(bcd)

BcdDigits(v, maxlen) == [i \in 1 .. maxlen |-> BcdByte((v \div Pow100[i - 1]) % 100)]

\* UnsignedToBcd, and its copy in datachg.c; rtn is 1 when the number does not fit.
UnsignedToBcd(v, maxlen) ==
    [rtn |-> IF v >= Pow100[maxlen] THEN 1 ELSE 0, bcd |-> BcdDigits(v, maxlen)]
ltobcd(v, maxlen) == UnsignedToBcd(v, maxlen)

\* BcdToInt: the top bit is the sign.
BcdToInt(bcd) ==
    LET top == Last(bcd)
        v == BcdToUnsigned(Front(bcd) \o <<top % 128>>)
    IN  IF top >= 128 THEN -v ELSE v

\* Mutant: the sign takes the whole top half byte, as in itobcd.
IntToBcdNibble(l, maxlen) ==
    LET d == BcdDigits(Abs(l), maxlen)
        top == IF l < 0 THEN Lo(d[maxlen]) + 128 ELSE d[maxlen]
    IN  [rtn |-> IF Abs(l) >= Pow100[maxlen] THEN 1 ELSE 0, bcd |-> [d EXCEPT ![maxlen] = top]]

\* IntToBcd: the sign bit is set above the digit, which may have it already.
IntToBcd(l, maxlen) ==
    LET d == BcdDigits(Abs(l), maxlen)
        top == IF l < 0 /\ d[maxlen] < 128 THEN d[maxlen] + 128 ELSE d[maxlen]
    IN  [rtn |-> IF Abs(l) >= Pow100[maxlen] THEN 1 ELSE 0, bcd |-> [d EXCEPT ![maxlen] = top]]

\* itobcd of datachg.c: the top half byte is 1 for negative numbers.
itobcd(l, maxlen) ==
    LET d == BcdDigits(Abs(l), maxlen)
    IN  [rtn |-> IF Hi(d[maxlen]) # 0 \/ Abs(l) >= Pow100[maxlen] THEN 1 ELSE 0,
         bcd |-> [d EXCEPT ![maxlen] = Lo(@) + (IF l < 0 THEN 16 ELSE 0)]]

\* HexToBcd, hextobcd: tens above 9 become 9.
HexToBcd(str) ==
    [i \in DOMAIN str |->
        LET tens == str[i] \div 10 IN (IF tens > 9 THEN 9 ELSE tens) * 16 + (str[i] % 10)]

BcdToHex(str) == [i \in DOMAIN str |-> HexByte(str[i])]

\* The copies in datachg.c.
hextobcd(str) == HexToBcd(str)
bcdtohex(str) == BcdToHex(str)

HexIsEmpty(buf, flag) == \A i \in DOMAIN buf : buf[i] = flag
bcd_isempty(bcd, flag) == HexIsEmpty(bcd, flag)

(***************************************************************************)
(* Integers in memory.  le: the host is little-endian.                     *)
(***************************************************************************)
FromLow(b) == FoldRight(LAMBDA x, acc : acc * 256 + x, b, 0)
LowBytes(v, n) == [i \in 1 .. n |-> (v \div (256 ^ (i - 1))) % 256]
HostOrder(b, le) == IF le THEN b ELSE Reverse(b)

\* make_short, make_long and their inverses: host order.
make_short(str, le) == FromLow(HostOrder(str, le))
depart_short(v, le) == HostOrder(LowBytes(v, 2), le)
make_long(str, le) == FromLow(HostOrder(str, le))
depart_long(v, le) == HostOrder(LowBytes(v, 4), le)
make_shortlong(str, le) == FromLow(HostOrder(str \o <<0>>, le))
depart_shortlong(v, le) == SubSeq(HostOrder(LowBytes(v, 4), le), 1, 3)

\* makepkt_short, departpkt_short: the host's order swapped.
makepkt_short(str, le) == make_short(Reverse(str), le)
departpkt_short(v, le) == Reverse(depart_short(v, le))
htons(v, le) == make_short(Reverse(depart_short(v, le)), le)
htonl(v, le) == make_long(Reverse(depart_long(v, le)), le)

\* uldel: the difference and its sign.
uldel(a, b) == [rtn |-> IF a < b THEN -1 ELSE IF a > b THEN 1 ELSE 0, d |-> Abs(a - b)]

\* ulxrate: rate in hundredths of a per cent.
ulxrate(ul, rate) == (ul * rate) \div 10000

\* highttolowtime: the bytes in reverse.
highttolowtime(str) == Reverse(str)

\* flex4tobcd: numbers of two or four bytes, binary bytes, or digits as they are.
Signed(b) == FromLow(Front(b)) + (256 ^ (Len(b) - 1)) * (IF Last(b) < 128 THEN Last(b) ELSE Last(b) - 256)
flex4tobcd(src, type, len, le) ==
    CASE type = "ulong" -> ltobcd(make_long(SubSeq(src, 1, 4), le), len).bcd
      [] type = "ushort" -> ltobcd(make_short(SubSeq(src, 1, 2), le), len).bcd
      [] type = "int" -> itobcd(Signed(HostOrder(SubSeq(src, 1, 4), le)), len).bcd
      [] type = "sshort" -> itobcd(Signed(HostOrder(SubSeq(src, 1, 2), le)), len).bcd
      [] type = "uchar" -> hextobcd(SubSeq(src, 1, len))
      [] type = "bcd" -> SubSeq(src, 1, len)
      [] OTHER -> [i \in 1 .. len |-> 0]

(***************************************************************************)
(* Text.  A character of a number is its value, any other is Other.        *)
(***************************************************************************)
Other == 99
IsHex(c) == c \in 0 .. 15

\* atox: what comes before the first digit is skipped, the first character that
\* is no digit ends the number.
atox(str) ==
    LET first == {i \in DOMAIN str : IsHex(str[i])}
        from == IF first = {} THEN Len(str) + 1 ELSE CHOOSE i \in first : \A j \in first : i <= j
        stop == {i \in from .. Len(str) : ~IsHex(str[i])}
        to == IF stop = {} THEN Len(str) ELSE (CHOOSE i \in stop : \A j \in stop : i <= j) - 1
    IN  FoldLeft(LAMBDA acc, c : acc * 16 + c, 0, SubSeq(str, from, to))

hex2toa(uc) == <<Hi(uc), Lo(uc)>>

\* itoa of a number that is not negative: digits from the highest power of ten.
itoa(v) ==
    LET digits[n \in 0 .. v] ==
            IF n < 10 THEN <<n>> ELSE Append(digits[n \div 10], n % 10)
    IN  digits[v]

\* iptoa: bytes from the last address to the first, with points between.
iptoa(ip) ==
    FoldRight(LAMBDA b, acc : (IF acc = <<>> THEN acc ELSE Append(acc, Other)) \o itoa(b), ip, <<>>)

(***************************************************************************)
(* datatype_gb.c: powers with three digits and a power of ten, energies    *)
(* with seven digits.                                                      *)
(***************************************************************************)
Pow10[n \in 0 .. 9] == IF n = 0 THEN 1 ELSE 10 * Pow10[n - 1]

Sfloat02ToPower(src) ==
    LET v == (src[2] % 16) * 100 + HexByte(src[1])
        base == 7 - (src[2] \div 32) - 1
        w == IF base < 0 THEN v \div 10 ELSE v * Pow10[base]
    IN  IF (src[2] \div 16) % 2 = 1 THEN -w ELSE w

Sfloat02(e, neg, v) ==
    << BcdByte(v % 100), (7 - e) * 32 + (IF neg THEN 16 ELSE 0) + (v \div 100) >>

\* PowerToSfloat02: whole numbers of units up to 998 keep the exponent of units,
\* others are divided by ten up to six times and cut to 999.
PowerToSfloat02(p) ==
    LET v == Abs(p)
        e == CHOOSE i \in 1 .. 7 : /\ v < 1000 * Pow10[i - 1] \/ i = 7
                                   /\ i = 1 \/ v >= 1000 * Pow10[i - 2]
        d == v \div Pow10[e - 1]
    IN  IF v < 99900 /\ v % 100 = 0 THEN Sfloat02(3, p < 0, v \div 100)
        ELSE Sfloat02(e, p < 0, IF d >= 1000 THEN 999 ELSE d)

MaxGeneMwh == 2000000

Sbcd03ToEnergy(src) ==
    LET v == (src[4] % 16) * 1000000 + BcdToUnsigned(SubSeq(src, 1, 3))
        w == IF (src[4] \div 64) % 2 = 0 THEN v ELSE (IF v > MaxGeneMwh THEN MaxGeneMwh ELSE v) * 1000
    IN  IF (src[4] \div 16) % 2 = 1 THEN -w ELSE w

EnergyToSbcd03(e) ==
    LET big == Abs(e) > 9999999
        v == IF big THEN Abs(e) \div 1000 ELSE Abs(e)
        flag == (IF e < 0 THEN 16 ELSE 0) + (IF big THEN 64 ELSE 0)
    IN  [UnsignedToBcd(v, 4).bcd EXCEPT ![4] = Lo(@) + flag]

(***************************************************************************)
(* CRC-16, polynomial 0x1021: crc.c and cal_crc of datachg.c.              *)
(***************************************************************************)
Poly == 4129

\* Exclusive or of 16 bits, four at a time: Bitwise has a recursive operator.
Bit(x, i) == (x \div (2 ^ i)) % 2
Xor4 ==
    [x \in 0 .. 15, y \in 0 .. 15 |->
        SumSet({2 ^ i : i \in {k \in 0 .. 3 : Bit(x, k) # Bit(y, k)}})]
Nibble(x, i) == (x \div (16 ^ i)) % 16
Xor(x, y) ==
    Xor4[x % 16, y % 16] + 16 * Xor4[Nibble(x, 1), Nibble(y, 1)]
    + 256 * Xor4[Nibble(x, 2), Nibble(y, 2)] + 4096 * Xor4[Nibble(x, 3), Nibble(y, 3)]

\* An entry of CrcTable and g_crc_tab: eight shifts of the byte.
CrcEntry(b) ==
    LET shift[i \in 0 .. 8] ==
            IF i = 0 THEN b * 256
            ELSE LET t == (shift[i - 1] * 2) % 65536
                 IN  IF shift[i - 1] >= 32768 THEN Xor(t, Poly) ELSE t
    IN  shift[8]
CrcTable == [b \in Byte |-> CrcEntry(b)]

\* Mutant: the register is not shifted.
CalculateCRCStepUnshifted(buffer, crc) ==
    FoldLeft(LAMBDA t, b : Xor(t, CrcTable[Xor(t \div 256, b)]), crc, buffer)

\* CalculateCRCStep.
CalculateCRCStep(buffer, crc) ==
    FoldLeft(LAMBDA t, b : Xor((t * 256) % 65536, CrcTable[Xor(t \div 256, b)]), crc, buffer)

\* CalculateCRC.
CalculateCRC(buffer) == CalculateCRCStep(buffer, 0)

\* datachg.c has the table g_crc_tab and the loop again.
g_crc_tab == CrcTable
cal_crc(pbuf) ==
    FoldLeft(LAMBDA temp, b : Xor((temp % 256) * 256, g_crc_tab[Xor(temp \div 256, b)]), 0, pbuf)

\* GetCRC16, the check sum of the server's frames and of the bus: the tables of the
\* Modbus check sum (polynomial 0xa001, low bit first), but for four entries whose
\* two bytes are 0xad, 0x50, 0x23 and 0x50.
ModbusEntry(b) ==
    LET shift[i \in 0 .. 8] ==
            IF i = 0 THEN b
            ELSE IF shift[i - 1] % 2 = 1 THEN Xor(shift[i - 1] \div 2, 40961) ELSE shift[i - 1] \div 2
    IN  shift[8]
Altered == {0, 1, 254, 255}
AlteredByte(b) == CASE b = 0 -> 173 [] b \in {1, 255} -> 80 [] b = 254 -> 35
auchCRCHi == [b \in Byte |-> IF b \in Altered THEN AlteredByte(b) ELSE ModbusEntry(b) % 256]
auchCRCLo == [b \in Byte |-> IF b \in Altered THEN AlteredByte(b) ELSE ModbusEntry(b) \div 256]

CrcIndex(crc, b) == Xor(crc \div 256, b)
GetCRC16Step(crc, b) ==
    Xor(crc % 256, auchCRCHi[CrcIndex(crc, b)]) * 256 + auchCRCLo[CrcIndex(crc, b)]
GetCRC16(puchMsg) == FoldLeft(GetCRC16Step, 65535, puchMsg)

(***************************************************************************)
(* Base 64.  A character is its index in base64char, or Pad.               *)
(***************************************************************************)
Pad == 64

\* base64_encode of one group of one to three bytes.
EncodeGroup(g) ==
    LET b(i) == IF i <= Len(g) THEN g[i] ELSE 0
    IN  << b(1) \div 4, (b(1) % 4) * 16 + (b(2) \div 16),
           IF Len(g) < 2 THEN Pad ELSE (b(2) % 16) * 4 + (b(3) \div 64),
           IF Len(g) < 3 THEN Pad ELSE b(3) % 64 >>

Groups3(s) == [k \in 1 .. (Len(s) + 2) \div 3 |->
                  SubSeq(s, 3 * k - 2, IF 3 * k <= Len(s) THEN 3 * k ELSE Len(s))]

\* base64_encode: the source is a string, so its length ends at the first 0.
base64_encode(s) ==
    LET zero == {i \in DOMAIN s : s[i] = 0}
        len == IF zero = {} THEN Len(s) ELSE (CHOOSE i \in zero : \A j \in zero : i <= j) - 1
    IN  FlattenSeq([k \in DOMAIN Groups3(SubSeq(s, 1, len)) |->
                        EncodeGroup(Groups3(SubSeq(s, 1, len))[k])])

DecodeGroup(c) ==
    <<c[1] * 4 + (c[2] \div 16)>>
    \o (IF c[3] = Pad THEN <<>> ELSE <<(c[2] % 16) * 16 + (c[3] \div 4)>>)
    \o (IF c[3] = Pad \/ c[4] = Pad THEN <<>> ELSE <<(c[3] % 4) * 64 + c[4]>>)

base64_decode(t) == FlattenSeq([k \in 1 .. Len(t) \div 4 |-> DecodeGroup(SubSeq(t, 4 * k - 3, 4 * k))])
=============================================================================
