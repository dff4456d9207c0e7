------------------------------- MODULE Items --------------------------------
(***************************************************************************)
(* The parameter items: the table and the dispatcher of save/itemop.c and  *)
(* the handlers of save/para_term.c and para_uni.c that keep a parameter.  *)
(*                                                                         *)
(* A memory maps the number of the item that owns a field to its bytes:    *)
(* the fields of ParaTermG and ParaUniG, in the order of their addresses.  *)
(* write_item and read_item are the code's functions with the memory as an *)
(* argument and a result.  The items for the clock are in ClockTimers,     *)
(* 0x7502 in ParamSave, those of scenes and timer tasks in Scenes; 0x7503, *)
(* which starts and stops a relative timer, is a client of CTimer.  No     *)
(* caller of write_item and read_item is in the repository; they are taken *)
(* to be called by one thread at a time, since a group item keeps its      *)
(* place in the one g_itemop_bak.                                          *)
(***************************************************************************)
EXTENDS Conversions

OK == 0
INVALID == 1
PWDERR == 2
OPFAIL == 3
ITEMOP_HIGHLEVEL == 17
Zeros(k) == [i \in 1 .. k |-> 0]

(***************************************************************************)
(* The table: acc "wr", "wo" or "ro"; high, the administrator's level is   *)
(* needed to write; kind, what the flag's low half says, or "group"; sav,  *)
(* the file that is out of date after a write.                             *)
(***************************************************************************)
Ele(id, acc, high, kind, sav, len) ==
    [id |-> id, acc |-> acc, high |-> high, kind |-> kind, sav |-> sav, len |-> len]

g_item_uni1 ==
    << Ele(\h7500, "wr", TRUE, "func", "uni", 93), Ele(\h7501, "wr", TRUE, "func", "uni", 6),
       Ele(\h7504, "wr", TRUE, "func", "uni", 198) >>

g_item_addr ==
    << Ele(\h8010, "wr", TRUE, "func", "term", 9), Ele(\h8011, "wr", TRUE, "func", "term", 9),
       Ele(\h8012, "wr", TRUE, "func", "term", 9), Ele(\h8013, "wr", TRUE, "copy", "term", 8),
       Ele(\h8014, "wr", TRUE, "func", "term", 8), Ele(\h8015, "wr", TRUE, "func", "term", 16),
       Ele(\h8019, "wr", TRUE, "func", "term", 32), Ele(\h801a, "wr", TRUE, "func", "term", 32),
       Ele(\h801f, "wr", TRUE, "group", "none", 0) >>

g_item_pwd ==
    << Ele(\h8020, "wo", FALSE, "set00", "none", 3), Ele(\h8021, "wo", FALSE, "copy", "term", 3),
       Ele(\h8022, "wo", TRUE, "copy", "term", 3), Ele(\h802f, "wo", TRUE, "group", "none", 0) >>

\* g_item_port0 to g_item_port3, g_item_port8 (whose fields are those of port[7],
\* one behind the array's end).
g_item_port(base) ==
    << Ele(base, "wr", FALSE, "copy", "term", 1), Ele(base + 1, "wr", FALSE, "copy", "term", 1),
       Ele(base + 2, "wr", FALSE, "copy", "term", 1), Ele(base + 3, "wr", FALSE, "func", "term", 1),
       Ele(base + 4, "wr", FALSE, "copy", "term", 1), Ele(base + 15, "wr", FALSE, "group", "none", 0) >>

g_item_ver == << Ele(\h8809, "ro", FALSE, "copy", "none", 8), Ele(\h880a, "ro", FALSE, "copy", "none", 2) >>

g_item_cfg ==
    << Ele(\h8810, "wr", FALSE, "copy", "term", 1), Ele(\h8815, "wr", FALSE, "func", "term", 1),
       Ele(\h8816, "wr", FALSE, "func", "term", 1), Ele(\h8817, "wr", FALSE, "copy", "term", 1),
       Ele(\h881a, "wr", FALSE, "func", "term", 1), Ele(\h881b, "wr", FALSE, "copy", "term", 4) >>

g_item_caspara ==
    << Ele(\h8820, "wr", FALSE, "func", "term", 2), Ele(\h8821, "wr", FALSE, "func", "term", 2),
       Ele(\h8822, "wr", FALSE, "func", "term", 4), Ele(\h8823, "wr", FALSE, "copy", "term", 2) >>

Ports == {\h8700, \h8710, \h8720, \h8730, \h8780}
GroupIds == {\h7500, \h8010, \h8020, \h8800, \h8810, \h8820} \cup Ports

g_item_grp ==
    [g \in GroupIds |->
        CASE g = \h7500 -> g_item_uni1 [] g = \h8010 -> g_item_addr [] g = \h8020 -> g_item_pwd
          [] g = \h8800 -> g_item_ver [] g = \h8810 -> g_item_cfg [] g = \h8820 -> g_item_caspara
          [] OTHER -> g_item_port(g)]

ItemIds == UNION {{g_item_grp[g][i].id : i \in DOMAIN g_item_grp[g]} : g \in GroupIds}
GroupOfItem(id) == id - (id % 16)
PlaceOfItem(id) ==
    LET g == g_item_grp[GroupOfItem(id)] IN CHOOSE i \in DOMAIN g : g[i].id = id
Table == [id \in ItemIds |-> g_item_grp[GroupOfItem(id)][PlaceOfItem(id)]]

(***************************************************************************)
(* The handlers.  A write gives the return code and the memory, and says   *)
(* whether a restart of the box has been scheduled.                        *)
(***************************************************************************)
Wrote(m) == [rtn |-> OK, mem |-> m, restart |-> FALSE]
Refused(r, m) == [rtn |-> r, mem |-> m, restart |-> FALSE]
Set(m, id, bytes) == Wrote([m EXCEPT ![id] = bytes])

\* SVRADDR_GPRS, SVRADDR_ETHERNET, SVRADDR_SMSWAKE for the first address: the
\* field holds a port and an IP address, otherwise a phone number.
IsNet(id, chn) == chn \in {2, 4} \/ (chn = 9 /\ id = \h8010)
NetField(a, chn, buf) ==
    <<chn, a[2], a[3]>> \o Reverse(SubSeq(buf, 3, 6)) \o <<a[8]>> \o SubSeq(buf, 1, 2)

svraddrWrite(id, buf, m) ==
    LET chn == HexByte(buf[9])
        a == m[id]
        w == IF IsNet(id, chn) THEN NetField(a, chn, buf)
             ELSE <<chn>> \o Reverse(SubSeq(buf, 1, 8)) \o <<a[10]>>
    IN  IF chn \notin {2, 4, 6, 9} THEN Refused(OPFAIL, m)
        ELSE [Set(m, id, w) EXCEPT !.restart = (id = \h8010 /\ chn # a[1])]

NetShown(a) == SubSeq(a, 9, 10) \o Reverse(SubSeq(a, 4, 7)) \o <<170, 170>>

\* A phone number is not turned round again: the buffer is, before the copy.
svraddrRead(id, m) ==
    LET a == m[id]
    IN  (IF IsNet(id, a[1]) THEN NetShown(a) ELSE SubSeq(a, 2, 9)) \o HexToBcd(<<a[1]>>)

gateaddrWrite(buf, m) == Set(m, \h8014, NetField(m[\h8014], m[\h8014][1], buf))
gateaddrRead(m) == NetShown(m[\h8014])

\* The length of a string in a buffer: it ends at 0, at 0xaa, or at max.
StrLen(buf, max) ==
    LET ends == {i \in 1 .. max : buf[i] \in {0, 170}}
    IN  IF ends = {} THEN max ELSE (CHOOSE i \in ends : \A j \in ends : i <= j) - 1
Padded(s, size) == s \o Zeros(size - Len(s))

apnWrite(buf, m) == Set(m, \h8015, Padded(Reverse(SubSeq(buf, 1, StrLen(buf, 15))), 16))
apnRead(m) == Padded(Reverse(SubSeq(m[\h8015], 1, StrLen(m[\h8015], 16))), 16)

\* parauni_termip has the first 93 bytes of termip; username and pwd are in it.
\* Mutant: the password goes where the name is.
NameAtSame(id) == 27

NameAt(id) == IF id = \h8019 THEN 27 ELSE 59
usrnameWrite(id, buf, m) ==
    LET s == Padded(SubSeq(buf, 1, StrLen(buf, 31)), 32)
    IN  Set(m, \h7500, [i \in 1 .. 93 |->
            IF i - NameAt(id) \in 1 .. 32 THEN s[i - NameAt(id)] ELSE m[\h7500][i]])
usrnameRead(id, m) ==
    LET s == SubSeq(m[\h7500], NameAt(id) + 1, NameAt(id) + 32)
    IN  Padded(SubSeq(s, 1, StrLen(s, 32)), 32)

\* paraterm_port_stopbit: the number of the port less one, but port 0 is 0.
PortIndex(id) == LET k == (id - \h8700) \div 16 IN IF k = 0 THEN 0 ELSE k - 1
PORTCFG_NUM == 7
StopbitCell(id) == \h8703 + 16 * PortIndex(id)
stopbitWrite(id, buf, m) ==
    IF PortIndex(id) >= PORTCFG_NUM THEN Refused(INVALID, m)
    ELSE Set(m, StopbitCell(id), <<CASE buf[1] = 1 -> 3 [] buf[1] = 0 -> 1 [] OTHER -> 2>>)
stopbitRead(id, m) == <<CASE m[StopbitCell(id)][1] = 3 -> 1 [] m[StopbitCell(id)][1] = 1 -> 0 [] OTHER -> 2>>

upreaddevWrite(id, buf, m) == Set(m, id, BcdToHex(buf))
upreaddevRead(id, m) == HexToBcd(m[id])

updaydataWrite(buf, m) ==
    LET h == IF buf[1] = 255 THEN 255 ELSE HexByte(buf[1])
    IN  IF h = 255 \/ h <= 23 THEN Set(m, \h881a, <<h>>) ELSE Refused(1, m)
updaydataRead(m) == IF m[\h881a] = <<255>> THEN <<255>> ELSE HexToBcd(m[\h881a])

\* An hour and a day.
monlastreadWrite(buf, m) ==
    LET t == BcdToHex(buf)
    IN  IF t[1] <= 23 /\ t[2] <= 28 THEN Set(m, \h8820, t) ELSE Refused(1, m)
monlastreadRead(m) == HexToBcd(m[\h8820])

\* With 0xff, never, in either byte neither is converted.
Never(t) == t[1] = 255 \/ t[2] = 255
monlastupWrite(buf, m) ==
    LET t == IF Never(buf) THEN buf ELSE BcdToHex(buf)
    IN  IF (t[1] <= 23 \/ t[1] = 255) /\ (t[2] <= 28 \/ t[2] = 255) THEN Set(m, \h8821, t)
        ELSE Refused(1, m)
monlastupRead(m) == IF Never(m[\h8821]) THEN m[\h8821] ELSE HexToBcd(m[\h8821])

SwapLast(b) == <<b[1], b[2], b[4], b[3]>>
peibianWrite(buf, m) == Set(m, \h8822, SwapLast(Reverse(buf)))
peibianRead(m) == Reverse(SwapLast(m[\h8822]))

FuncWrite(id, buf, m) ==
    CASE id \in \h8010 .. \h8012 -> svraddrWrite(id, buf, m)
      [] id = \h8014 -> gateaddrWrite(buf, m)
      [] id = \h8015 -> apnWrite(buf, m)
      [] id \in {\h8019, \h801a} -> usrnameWrite(id, buf, m)
      [] id \in {p + 3 : p \in Ports} -> stopbitWrite(id, buf, m)
      [] id \in {\h8815, \h8816} -> upreaddevWrite(id, buf, m)
      [] id = \h881a -> updaydataWrite(buf, m)
      [] id = \h8820 -> monlastreadWrite(buf, m)
      [] id = \h8821 -> monlastupWrite(buf, m)
      [] id = \h8822 -> peibianWrite(buf, m)
      [] id \in {\h7500, \h7501, \h7504} -> Set(m, id, buf)

FuncRead(id, m) ==
    CASE id \in \h8010 .. \h8012 -> svraddrRead(id, m)
      [] id = \h8014 -> gateaddrRead(m)
      [] id = \h8015 -> apnRead(m)
      [] id \in {\h8019, \h801a} -> usrnameRead(id, m)
      [] id \in {p + 3 : p \in Ports} -> stopbitRead(id, m)
      [] id \in {\h8815, \h8816} -> upreaddevRead(id, m)
      [] id = \h881a -> updaydataRead(m)
      [] id = \h8820 -> monlastreadRead(m)
      [] id = \h8821 -> monlastupRead(m)
      [] id = \h8822 -> peibianRead(m)
      [] id \in {\h7500, \h7501, \h7504} -> m[id]

(***************************************************************************)
(* write_item.  sav: the arguments of SetSaveParamFlag.                    *)
(***************************************************************************)
Op(id, buf, maxlen, level, mid) ==
    [id |-> id, buf |-> buf, maxlen |-> maxlen, level |-> level, mid |-> mid]
Result(w, actlen, sav) ==
    [rtn |-> w.rtn, mem |-> w.mem, restart |-> w.restart, actlen |-> actlen, sav |-> sav]

\* The tests before a write, in the order of the code.
Allowed(op) ==
    IF op.id \notin ItemIds \/ op.mid # 0 THEN INVALID
    ELSE LET e == Table[op.id] IN
         CASE e.len > op.maxlen -> INVALID
           [] e.len <= op.maxlen /\ e.acc = "ro" -> OPFAIL
           [] e.len <= op.maxlen /\ e.acc # "ro" /\ e.high /\ op.level # ITEMOP_HIGHLEVEL -> PWDERR
           [] OTHER -> OK

\* No entry has the kinds for constant bytes or for BCD, but 0x8020: set00 writes
\* nothing.
Written(e, op, m) ==
    LET buf == SubSeq(op.buf, 1, e.len)
    IN  CASE e.kind = "func" -> FuncWrite(e.id, buf, m)
          [] e.kind = "copy" -> Set(m, e.id, buf)
          [] e.kind = "set00" -> Wrote(m)

Outcome(r, e, w, m) ==
    CASE r = INVALID -> Result(Refused(r, m), 0, {})
      [] r \in {OPFAIL, PWDERR} -> Result(Refused(r, m), e.len, {})
      [] OTHER -> Result(w, e.len, IF w.rtn = OK THEN {e.sav} ELSE {})

WriteSingle(op, m) == Outcome(Allowed(op), Table[op.id], Written(Table[op.id], op, m), m)

\* The items before the group's own entry.
PartsOf(id) == SubSeq(g_item_grp[GroupOfItem(id)], 1, PlaceOfItem(id) - 1)

\* The operation on item id behind the first done bytes of the buffer.
Behind(op, id, done) ==
    Op(id, SubSeq(op.buf, done + 1, Len(op.buf)), op.maxlen - done, op.level, op.mid)

\* Mutant: the place in the buffer does not move on behind an item that is refused.
NextPlaceStay(acc, w) == IF w.rtn = OK THEN acc.actlen + w.actlen ELSE acc.actlen

NextPlace(acc, w) == acc.actlen + w.actlen
Joined(acc, w) ==
    [rtn |-> IF w.rtn = OK THEN acc.rtn ELSE w.rtn, mem |-> w.mem,
     restart |-> acc.restart \/ w.restart, actlen |-> NextPlace(acc, w), sav |-> acc.sav \cup w.sav]

\* One item of a group, at its place in the buffer.  INVALID ends the group,
\* another failure is kept for the end.
WritePart(op, acc, e) ==
    IF acc.rtn = INVALID THEN acc
    ELSE Joined(acc, WriteSingle(Behind(op, e.id, acc.actlen), acc.mem))

write_item(op, m) ==
    IF Allowed(op) = OK /\ Table[op.id].kind = "group"
    THEN FoldLeft(LAMBDA acc, e : WritePart(op, acc, e), Result(Wrote(m), 0, {}), PartsOf(op.id))
    ELSE WriteSingle(op, m)

(***************************************************************************)
(* read_item: the return code and the bytes.                               *)
(***************************************************************************)
Shown(r, buf) == [rtn |-> r, buf |-> buf]

ReadSingle(id, maxlen, m) ==
    LET e == Table[id]
    IN  CASE e.len > maxlen -> Shown(INVALID, <<>>)
          [] e.len <= maxlen /\ e.acc = "wo" -> Shown(OPFAIL, <<>>)
          [] OTHER -> IF e.kind = "copy" THEN Shown(OK, m[id])
                      ELSE IF id \in {p + 3 : p \in Ports} /\ PortIndex(id) >= PORTCFG_NUM
                           THEN Shown(INVALID, <<>>)
                           ELSE Shown(OK, FuncRead(id, m))

\* A part that cannot be read makes the whole group invalid.
ReadPart(maxlen, m, acc, e) ==
    IF acc.rtn # OK THEN acc
    ELSE LET r == ReadSingle(e.id, maxlen - Len(acc.buf), m)
         IN  IF r.rtn = OK THEN Shown(OK, acc.buf \o r.buf) ELSE Shown(INVALID, <<>>)

read_item(op, m) ==
    IF op.id \notin ItemIds \/ op.mid # 0 THEN Shown(INVALID, <<>>)
    ELSE IF Table[op.id].kind = "group" /\ Table[op.id].acc # "wo"
    THEN FoldLeft(LAMBDA acc, e : ReadPart(op.maxlen, m, acc, e), Shown(OK, <<>>), PartsOf(op.id))
    ELSE ReadSingle(op.id, op.maxlen, m)
=============================================================================
