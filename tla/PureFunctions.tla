---------------------------- MODULE PureFunctions ----------------------------
(***************************************************************************)
(* The pure functions over their inputs: the number of the day that the    *)
(* walk of DayWalk has reached is the input of the conversions.            *)
(***************************************************************************)
EXTENDS DayWalk, QrCode, Items, FileValues, Scenes

(***************************************************************************)
(* Codes.                                                                  *)
(***************************************************************************)
Digit2(v) == <<48 + (v \div 10), 48 + (v % 10)>>
DateText(c) == Digit2(c.year) \o Digit2(c.month) \o Digit2(c.day)
               \o Digit2(c.hour) \o Digit2(c.minute) \o Digit2(c.second)
DoorText(d) == <<48 + (d \div 100)>> \o Digit2(d % 100)

\* A text as it is issued: one after the other, the first 20 characters are put in
\* front of the character that the key names.
PutBefore(m, b) ==
    LET a == ShiftMM[b + 1]
    IN  RemoveAt(InsertAt(m, a + 1, m[b + 1]), IF a <= b THEN b + 2 ELSE b + 1)
Issued(text) == FoldLeft(PutBefore, text, [k \in 1 .. 20 |-> k - 1])

\* A code that is issued for this device opens its doors up to the second it names
\* and not after it, on every day; one for another device never does.  No character
\* is lost or doubled on the way.
CodeOpensInTime ==
    LET device == [k \in 1 .. 7 |-> (n + k) % 10]
        doors == <<n % 1000, 0, (7 * n) % 1000, 240>>
        last == n * Day + ((7919 * n) % Day)
        text == [k \in 1 .. 13 |-> 65 + ((n + k) % 26)] \o DateText(UTimeToSysClock(n))
                \o <<32, 32>> \o DateText(UTimeToSysClock(last))
                \o [k \in 1 .. 7 |-> 48 + device[k]]
                \o FlattenSeq([k \in 1 .. 4 |-> DoorText(doors[k])])
        scanned == <<71, 77, 85>> \o Issued(text)
    IN  /\ Decrypt(scanned) = text
        /\ \A t \in {last - 1, last, last + 1} : t >= 0 =>
               qrcodeValidity(scanned, device, UTimeToSysClock(t))
                   = [ret |-> IF t > last THEN 1 ELSE 0, door |-> doors]
        /\ qrcodeValidity(scanned, Reverse(device), UTimeToSysClock(last)).ret = 2
        /\ qrcodeValidity(<<71, 77>>, device, UTimeToSysClock(last)).ret = -1

(***************************************************************************)
(* Numbers.                                                                *)
(***************************************************************************)
\* A power or an energy that is sent comes back rounded towards zero to what the
\* format holds: three digits, or steps of a thousand beyond seven digits.
FormatsRound ==
    \A p \in {n, -n, 977 * n, -7919 * n} :
        LET back == Sfloat02ToPower(PowerToSfloat02(p))
            e == Sbcd03ToEnergy(EnergyToSbcd03(p))
        IN  /\ Abs(back) <= Abs(p) /\ (back # 0 => (back < 0) = (p < 0))
            /\ (Abs(p) - Abs(back)) * 100 <= Abs(p)
            /\ Abs(p) % 100 = 0 /\ Abs(p) < 99900 => back = p
            /\ IF Abs(p) <= 9999999 THEN e = p
               ELSE Abs(e) = Abs(p) - (Abs(p) % 1000) /\ (e < 0) = (p < 0)

\* flex4tobcd turns a number in memory, of either width and sign, into the digits
\* ltobcd and itobcd give, on either kind of host; bytes and digits as they are; all
\* else into zeros.  A share and the rest of it make up the whole.
FlexAgrees ==
    /\ \A le \in BOOLEAN :
           /\ bcdtol(flex4tobcd(depart_long(977 * n, le), "ulong", 4, le)) = 977 * n
           /\ bcdtol(flex4tobcd(depart_short(n, le), "ushort", 3, le)) = n
           /\ \A l \in {n, -n} :
                  /\ flex4tobcd(depart_long(l, le), "int", 4, le) = itobcd(l, 4).bcd
                  /\ flex4tobcd(depart_short(l, le), "sshort", 3, le) = itobcd(l, 3).bcd
           /\ bcdtohex(flex4tobcd(<<n % 100>>, "uchar", 1, le)) = <<n % 100>>
           /\ flex4tobcd(LowBytes(n, 2), "bcd", 2, le) = LowBytes(n, 2)
           /\ bcd_isempty(flex4tobcd(LowBytes(n, 4), "other", 4, le), 0)
    /\ LET share == ulxrate(n, 2500)
           d == uldel(share, n)
       IN  d.rtn = (IF n = 0 THEN 0 ELSE -1) /\ share + d.d = n

\* Every string of one to four characters survives base64_encode and
\* base64_decode, and a byte its two hexadecimal digits, whatever stands around
\* them.
TextSurvives ==
    LET c1 == (n % 255) + 1
        c2 == ((n \div 255) % 255) + 1
    IN  /\ \A s \in {<<c1>>, <<c1, c2>>, <<c2, 7, c1>>, <<c2, c1, 255, c2>>} :
                base64_decode(base64_encode(s)) = s
        /\ atox(<<Other>> \o hex2toa(c1) \o <<Other, 5>>) = c1

\* Numbers in both formats, bytes, addresses, phone numbers and the cascade's
\* addresses survive the parameter files; a phone number is written with all its
\* digits when it is filled up with 0xaa, without its zeros when filled up with 0; a period is taken over exactly when its
\* four numbers are in range and it does not end with the last minute of the day,
\* else the old one is left.
FileValuesSurvive ==
    LET ip == <<n % 256, (7 * n) % 256, (n \div 256) % 256, 255>>
        bytes == ip \o Reverse(ip)
        h == n % 25
        mi == (n \div 25) % 61
        digits == itoa(n)
        pad(c) == Reverse([i \in 1 .. 16 - Len(digits) |-> c] \o digits)
        ascii(s) == [i \in DOMAIN s |-> IF s[i] = Other THEN Point ELSE 48 + s[i]]
        text == PrintD(0) \o <<Colon>> \o PrintD(59) \o <<Tilde>> \o PrintD(h) \o <<Colon>> \o PrintD(mi)
    IN  /\ \A v \in {n, -7919 * n}, hex \in BOOLEAN : XinReadInt(TRUE, XinWriteInt(v, hex), 7) = v
        /\ StringToIp(XinReadString(IpToString(ip), 100)) = ip
        /\ StringToIp(ascii(iptoa(ip))) = Reverse(ip)
        /\ XinReadHex(TRUE, XinWriteHex(bytes), 8) = bytes
        /\ sms_phone_numtoascii(pad(170)) = ascii(digits)
        /\ sms_phone_numtoascii(pad(0)) = ascii(SelectSeq(digits, LAMBDA c : c # 0))
        /\ sms_phone_tonormal(XinStrToHex(XinWriteHex(sms_phone_tounnor(bytes)), 8)) = bytes
        /\ \A k \in 0 .. 8 : Len(sms_phone_tonormal(SubSeq(bytes, 1, k))) = 8
        /\ Cascade_AddrChange(XinStrToHex(XinWriteHex(Cascade_AddrChange(bytes)), 16)) = bytes
        /\ StringToPrdTime(text, "old") =
               IF h <= 23 /\ mi <= 59 /\ <<h, mi>> # <<23, 59>> THEN [start |-> 59, end |-> 60 * h + mi] ELSE "old"
        /\ \A k \in 0 .. 5 : StringToPrdTime(SubSeq(text, 1, k), "old") = "old"

\* A signed number survives IntToBcd and BcdToInt exactly while its highest digit
\* leaves the sign bit free: the overflow that is reported begins only at 10000.
\* A byte survives hextobcd exactly up to 99, powers and energies are rounded,
\* texts and what is in the parameter files survive.
ValuesSurvive ==
    /\ FormatsRound /\ FlexAgrees /\ TextSurvives /\ FileValuesSurvive
    /\ \A l \in {n, -n} :
            LET r == IntToBcd(l, 2)
            IN  /\ (BcdToInt(r.bcd) = l) <=> Abs(l) < 8000
                /\ (r.rtn = 1) <=> Abs(l) >= 10000
                /\ (itobcd(l, 2).rtn = 0) => BcdToUnsigned(itobcd(l, 2).bcd) % 1000 = Abs(l)
    /\ LET b == <<n % 256>> IN (BcdToHex(HexToBcd(b)) = b) <=> n % 256 <= 99
    /\ \A len \in 2 .. 4 : UnsignedToBcd(n, len).rtn = 0 => BcdToUnsigned(UnsignedToBcd(n, len).bcd) = n

(***************************************************************************)
(* Messages.                                                               *)
(***************************************************************************)
Errors == {<<n % 256, (n \div 256) % 256>>}
Corrupt(msg, i, err) == [msg EXCEPT ![i] = Xor(@, err[1]), ![i + 1] = Xor(@, err[2])]

\* One of the altered entries of GetCRC16's tables is used for msg.
MeetsAltered(msg) ==
    \E k \in 1 .. Len(msg) : CrcIndex(GetCRC16(SubSeq(msg, 1, k - 1)), msg[k]) \in Altered

\* Whatever two neighbouring bytes of a message are changed, the check sum
\* changes, that of the server's frames too unless it meets one of the four altered
\* entries; a message that is summed in parts has the sum of the whole.  On a
\* little-endian host the two bytes of a packet's number are in network order.
CrcDetects ==
    LET msg == <<104, n % 256, (n \div 256) % 256, 22>>
        Wide == (n \div 128) * 65536 + (n % 128)
    IN  /\ \A i \in 1 .. 3, err \in Errors :
                err # <<0, 0>> =>
                    /\ CalculateCRC(Corrupt(msg, i, err)) # CalculateCRC(msg)
                    /\ GetCRC16(Corrupt(msg, i, err)) # GetCRC16(msg)
                          \/ MeetsAltered(msg) \/ MeetsAltered(Corrupt(msg, i, err))
        /\ \A i \in 0 .. 4 :
                CalculateCRCStep(SubSeq(msg, i + 1, 4), CalculateCRC(SubSeq(msg, 1, i)))
                    = CalculateCRC(msg)
        /\ cal_crc(msg) = CalculateCRC(msg)
        /\ \A le \in BOOLEAN :
                /\ htons(htons(n, le), le) = n /\ htonl(htonl(Wide, le), le) = Wide
                /\ makepkt_short(departpkt_short(n, le), le) = n
                /\ make_shortlong(depart_shortlong(n, TRUE), TRUE) = n
        /\ departpkt_short(n, TRUE) = highttolowtime(LowBytes(n, 2))

(***************************************************************************)
(* The parameter items, one after the other, with data made of n.          *)
(***************************************************************************)
ItemSeq ==
    g_item_uni1 \o g_item_addr \o g_item_pwd \o g_item_port(\h8700) \o g_item_port(\h8710)
    \o g_item_port(\h8720) \o g_item_port(\h8730) \o g_item_port(\h8780) \o g_item_ver \o g_item_cfg \o g_item_caspara
Item == ItemSeq[(n % Len(ItemSeq)) + 1].id
Seed == n \div Len(ItemSeq)
InputIsNew == Seed <= 255     \* from then on most bytes repeat

SizeOf(id) == IF id \in {\h8010, \h8011, \h8012, \h8014} THEN 10 ELSE Table[id].len
Defaults == [id \in ItemIds |->
                [i \in 1 .. SizeOf(id) |-> IF i = 1 THEN 4 ELSE 1 + (i % 20)]]

Parts(id) == IF Table[id].kind = "group" THEN PartsOf(id) ELSE <<Table[id]>>
Places(ps) == [k \in 1 .. Len(ps) + 1 |->
                  FoldLeft(LAMBDA t, e : t + e.len, 0, SubSeq(ps, 1, k - 1))]
TotalLen(id) == Places(Parts(id))[Len(Parts(id)) + 1]

\* Binary bytes, digits, and channels at the ends of the addresses.
Data(id) ==
    LET len == TotalLen(id)
    IN  { [i \in 1 .. len |-> (Seed + 37 * (i - 1)) % 256],
          [i \in 1 .. len |-> BcdByte((Seed + 11 * i) % 100)],
          [i \in 1 .. len |-> IF i % 9 = 0 THEN (Seed + i) % 11 ELSE (3 * Seed + i) % 256] }

\* What a reading has to give after buf has been written: the bytes that the
\* field keeps, digits as they are, strings up to their end.  A phone number
\* comes back turned round.
SameNumber(b) == [i \in DOMAIN b |-> BcdByte(HexByte(b[i]))]
Echo(id, b) ==
    CASE id \in \h8010 .. \h8012 ->
            (IF IsNet(id, b[9]) THEN SubSeq(b, 1, 6) \o <<170, 170>> ELSE Reverse(SubSeq(b, 1, 8))) \o <<b[9]>>
      [] id = \h8014 -> SubSeq(b, 1, 6) \o <<170, 170>>
      [] id = \h8015 -> Padded(SubSeq(b, 1, StrLen(b, 15)), 16)
      [] id \in {\h8019, \h801a} -> Padded(SubSeq(b, 1, StrLen(b, 31)), 32)
      [] id \in {p + 3 : p \in Ports} -> IF b[1] <= 2 THEN b ELSE <<2>>
      [] id \in {\h8815, \h8816, \h881a, \h8820, \h8821} -> IF \E i \in DOMAIN b : b[i] = 255 THEN b ELSE SameNumber(b)
      [] OTHER -> b
Digits(id, b) == id \in {\h8815, \h8816} => HexByte(b[1]) <= 99

WriteHigh(id, buf) == write_item(Op(id, buf, Len(buf), ITEMOP_HIGHLEVEL, 0), Defaults)

PartReadsBack(e, b, mem) ==
    WriteHigh(e.id, b).rtn = OK /\ e.acc = "wr" /\ Digits(e.id, b) =>
        read_item(Op(e.id, <<>>, Len(b), 0, 0), mem) = Shown(OK, Echo(e.id, b))

AllReadBack(ps, at, buf, w) ==
    w.rtn # INVALID =>
        \A k \in DOMAIN ps : PartReadsBack(ps[k], SubSeq(buf, at[k] + 1, at[k + 1]), w.mem)

\* Each part of a write that its handler accepts, alone or at its place in a
\* group of which other parts are refused, is read back as it was written,
\* whatever the conversions do with it in between.
ItemsReadBack ==
    InputIsNew => \A buf \in Data(Item) :
        AllReadBack(Parts(Item), Places(Parts(Item)), buf, WriteHigh(Item, buf))

\* Items that share bytes: the stop bits of ports 0 and 1, and the user's name and
\* password with the terminal's address they are part of.
Alias(id) ==
    CASE id \in {\h8703, \h8713} -> {\h8703, \h8713}
      [] id \in {\h8019, \h801a} -> {\h7500, id}
      [] id = \h7500 -> {\h7500, \h8019, \h801a}
      [] OTHER -> {id}
Touched(id) == UNION {Alias(Parts(id)[k].id) : k \in DOMAIN Parts(id)}

OthersRead(mem) ==
    [j \in {i \in ItemIds \ Touched(Item) : Table[i].kind # "group"} |->
        read_item(Op(j, <<>>, 400, 0, 0), mem)]

\* Writing an item, accepted or not, leaves every other item as it reads, but for
\* the few that share bytes.
ItemsApart ==
    InputIsNew => \A buf \in Data(Item) : OthersRead(WriteHigh(Item, buf).mem) = OthersRead(Defaults)

(***************************************************************************)
(* Scenes and timer tasks: the tables after three writes that n chooses,   *)
(* and then any other.                                                     *)
(***************************************************************************)
WritesAreNew == n < 4 * 15 ^ 3     \* then the same three writes come again
RowIds == {0, 1, 2, 10, 255}
ChosenRow(k) == Row(<<255, 0, 255, 2>>[((n + k) % 4) + 1], k)
AfterScenes ==
    LET t[k \in 0 .. 3] ==
            IF k = 0 THEN NoScenes
            ELSE paraterm_sceneWrite(t[k - 1], \h8830 + ((n \div (15 ^ (k - 1))) % 15), ChosenRow(k)).tab
    IN  t[3]
AfterTimerTasks ==
    LET t[k \in 0 .. 3] ==
            IF k = 0 THEN NoTimerTasks
            ELSE paraterm_timertaskWrite(t[k - 1], \h8841 + ((n \div (10 ^ (k - 1))) % 10), ChosenRow(k)).tab
    IN  t[3]

\* A write of a scene or a timer task leaves the others as they are, in the tables
\* that paraterm_sceneWrite and paraterm_timertaskWrite have made.
ScenesApart ==
    WritesAreNew => \A id \in RowIds :
        /\ \A item \in g_item_sceneinfo : SceneWriteApart(AfterScenes, item, Row(id, 9))
        /\ \A item \in g_item_timertaskinfo : TimerTaskWriteApart(AfterTimerTasks, item, Row(id, 9))

OwnWrite(e, op, w) ==
    /\ w.rtn # OK /\ e.kind # "group" => w.mem = Defaults /\ w.sav = {} /\ ~w.restart
    /\ w.rtn = OK /\ e.kind # "group" => op.maxlen = e.len /\ op.mid = 0 /\ w.sav = {e.sav}
    /\ op.level = 0 => \A j \in ItemIds : Table[j].high => w.mem[j] = Defaults[j]
    /\ w.restart => w.mem[\h8010][1] # Defaults[\h8010][1]

\* A write that is refused (unknown or read-only item, short buffer, level too low,
\* value out of range) changes no parameter, flags no file and schedules no
\* restart; without the administrator's level no protected parameter changes, not
\* through a group either; what is accepted flags its file and leaves the other
\* items alone, and scenes and timer tasks those they do not address.
WritesOnlyItsOwn ==
    /\ ItemsApart /\ ScenesApart
    /\ InputIsNew => \A buf \in Data(Item), level \in {0, ITEMOP_HIGHLEVEL}, short \in {0, 1}, mid \in {0, 1} :
           \E op \in {Op(Item, buf, Len(buf) - short, level, mid)} :
               OwnWrite(Table[Item], op, write_item(op, Defaults))
=============================================================================
